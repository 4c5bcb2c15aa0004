---------------------------- MODULE BoundedQueue ----------------------------
(***************************************************************************)
(* The bounded message queue (queue.c): a ring buffer with one semaphore   *)
(* for its empty and one for its filled slots, a mutex for the buffer and  *)
(* one for the queue's state.  The downlink messages of the cloud client   *)
(* and the commands of the MQTT client go through queues of this kind.     *)
(*                                                                         *)
(* A stretch under state_lock is one step.  Messages are numbered in the   *)
(* order in which they are stored.                                         *)
(***************************************************************************)
EXTENDS Integers, FiniteSets

CONSTANTS Pushers, Poppers,  \* the threads that use the queue
          Capacity,          \* the capacity given to actrust_queue_create
          MaxPush,           \* bound on the messages stored
          NoThread

ASSUME QueueAssumption ==
  /\ IsFiniteSet(Pushers) /\ IsFiniteSet(Poppers)
  /\ Pushers \cap Poppers = {} /\ NoThread \notin Pushers \cup Poppers
  /\ Capacity \in Nat \ {0} /\ MaxPush \in Nat

Threads == Pushers \cup Poppers

VARIABLES
  qstate,               \* queue->state, and "FREED"
  inFlight, waiting,    \* in_flight; waiting_push and waiting_pop by thread kind
  emptySlots, filledSlots,   \* the counts of the two semaphores
  buffer, head, tail, size,  \* the ring
  owner,                \* the thread that holds queue->lock
  qpc,                  \* the threads' positions
  closer,               \* the position of close and destroy
  stored, taken         \* history: messages stored and taken so far

ring == <<buffer, head, tail, size, stored, taken>>
counts == <<inFlight, waiting>>
slots == <<emptySlots, filledSlots>>
queueVars == <<qstate, counts, slots, ring, owner, qpc, closer>>

Kind(t) == IF t \in Pushers THEN "push" ELSE "pop"
Open == qstate = "OPEN"
At(t, l) == qpc' = [qpc EXCEPT ![t] = l]
StopWaiting(t) == waiting' = [waiting EXCEPT ![Kind(t)] = @ - 1]

(* The semaphore a thread waits for, and the one it posts.                 *)
Tokens(t) == IF t \in Pushers THEN emptySlots ELSE filledSlots
AddOwn(t, n) ==
  IF t \in Pushers THEN emptySlots' = emptySlots + n /\ UNCHANGED filledSlots
                   ELSE filledSlots' = filledSlots + n /\ UNCHANGED emptySlots

QueueInit ==
  /\ qstate = "OPEN" /\ inFlight = 0 /\ waiting = [k \in {"push", "pop"} |-> 0]
  /\ emptySlots = Capacity /\ filledSlots = 0
  /\ buffer = [i \in 0..(Capacity - 1) |-> 0] /\ head = 0 /\ tail = 0 /\ size = 0
  /\ owner = NoThread /\ qpc = [t \in Threads |-> "idle"] /\ closer = "none"
  /\ stored = 0 /\ taken = 0

-----------------------------------------------------------------------------
(* actrust_queue_push and actrust_queue_pop; "poll" is a call with         *)
(* timeout_ms 0, "wait" one with a deadline.                               *)

Admit(t, how) ==
  /\ qpc[t] = "idle" /\ Open
  /\ t \in Pushers => stored < MaxPush
  /\ inFlight' = inFlight + 1
  /\ waiting' = [waiting EXCEPT ![Kind(t)] = @ + 1]
  /\ At(t, how)
  /\ UNCHANGED <<qstate, slots, ring, owner, closer>>

TakeToken(t) ==
  /\ qpc[t] \in {"poll", "wait"} /\ Tokens(t) > 0
  /\ AddOwn(t, -1)
  /\ At(t, IF qpc[t] = "poll" THEN "polled" ELSE "waited")
  /\ UNCHANGED <<qstate, counts, ring, owner, closer>>

(* No token: the poll fails, or a slice of the wait is over.               *)
NoToken(t) ==
  /\ qpc[t] \in {"poll", "wait"} /\ Tokens(t) = 0
  /\ At(t, IF qpc[t] = "poll" THEN "missed" ELSE "slice")
  /\ UNCHANGED <<qstate, counts, slots, ring, owner, closer>>

(* The deadline is over before the next slice: the call gives up, whether  *)
(* or not there is a token, and whether or not the queue is open.          *)
Expired(t) ==
  /\ qpc[t] = "wait"
  /\ StopWaiting(t)
  /\ At(t, "denied")
  /\ UNCHANGED <<qstate, inFlight, slots, ring, owner, closer>>

(* With the token, under state_lock: the queue may be closing by now.  A   *)
(* poll gives its token back then, a wait does not.                        *)
Granted(t) ==
  /\ qpc[t] \in {"polled", "waited"}
  /\ StopWaiting(t)
  /\ IF Open THEN At(t, "granted") /\ UNCHANGED <<inFlight, slots>>
     ELSE /\ At(t, "idle") /\ inFlight' = inFlight - 1
          /\ IF qpc[t] = "polled" THEN AddOwn(t, 1) ELSE UNCHANGED slots
  /\ UNCHANGED <<qstate, ring, owner, closer>>

(* Without it: a poll is over, a wait only when the queue is closing.      *)
Denied(t) ==
  /\ qpc[t] = "missed" \/ (qpc[t] = "slice" /\ ~Open)
  /\ StopWaiting(t)
  /\ IF Open THEN At(t, "denied") /\ UNCHANGED inFlight
             ELSE At(t, "idle") /\ inFlight' = inFlight - 1
  /\ UNCHANGED <<qstate, slots, ring, owner, closer>>

WaitAgain(t) ==
  /\ qpc[t] = "slice" /\ Open
  /\ At(t, "wait")
  /\ UNCHANGED <<qstate, counts, slots, ring, owner, closer>>

LeaveDenied(t) ==
  /\ qpc[t] = "denied"
  /\ inFlight' = inFlight - 1
  /\ At(t, "idle")
  /\ UNCHANGED <<qstate, waiting, slots, ring, owner, closer>>

LockBuffer(t) ==
  /\ qpc[t] = "granted" /\ owner = NoThread
  /\ owner' = t
  /\ At(t, "locked")
  /\ UNCHANGED <<qstate, counts, slots, ring, closer>>

(* Under both locks: the other semaphore is posted and the message moves,  *)
(* unless the queue is closing.                                            *)
ForwardOnce(i) == IF i + 1 < Capacity THEN i + 1 ELSE i   \* mutation: no wrap-around
Forward(i) == (i + 1) % Capacity

Store ==
  /\ buffer' = [buffer EXCEPT ![tail] = stored + 1]
  /\ tail' = Forward(tail) /\ size' = size + 1
  /\ stored' = stored + 1
  /\ UNCHANGED <<head, taken>>

Take ==
  /\ taken' = buffer[head]
  /\ head' = Forward(head) /\ size' = size - 1
  /\ UNCHANGED <<buffer, tail, stored>>

Transfer(t) ==
  /\ qpc[t] = "locked"
  /\ inFlight' = inFlight - 1
  /\ \/ /\ Open /\ t \in Pushers
        /\ filledSlots' = filledSlots + 1 /\ UNCHANGED emptySlots
        /\ Store
     \/ /\ Open /\ t \in Poppers
        /\ emptySlots' = emptySlots + 1 /\ UNCHANGED filledSlots
        /\ Take
     \/ ~Open /\ AddOwn(t, 1) /\ UNCHANGED ring
  /\ At(t, "unlock")
  /\ UNCHANGED <<qstate, waiting, owner, closer>>

UnlockBuffer(t) ==
  /\ qpc[t] = "unlock"
  /\ owner' = NoThread
  /\ At(t, "idle")
  /\ UNCHANGED <<qstate, counts, slots, ring, closer>>

-----------------------------------------------------------------------------
(* actrust_queue_close and actrust_queue_destroy.                          *)

Close ==
  /\ closer = "none" /\ Open
  /\ qstate' = "CLOSING" /\ closer' = "waiting"
  /\ UNCHANGED <<counts, slots, ring, owner, qpc>>

QuiescentNoFlight == waiting["push"] = 0 /\ waiting["pop"] = 0   \* mutation
Quiescent == inFlight = 0 /\ waiting["push"] = 0 /\ waiting["pop"] = 0

AwaitQuiescent ==
  /\ closer = "waiting" /\ Quiescent
  /\ closer' = "destroying"
  /\ UNCHANGED <<qstate, counts, slots, ring, owner, qpc>>

(* Semaphores and state_lock go first; a queue->lock that is still held    *)
(* cannot be destroyed: destroy fails, and may be called again.            *)
Destroy ==
  /\ closer \in {"destroying", "failed"}
  /\ IF owner = NoThread THEN qstate' = "FREED" /\ closer' = "done"
                         ELSE qstate' = "CLOSED" /\ closer' = "failed"
  /\ UNCHANGED <<counts, slots, ring, owner, qpc>>

QueueStep(t) ==
  \/ \E how \in {"poll", "wait"} : Admit(t, how)
  \/ TakeToken(t) \/ NoToken(t) \/ Expired(t) \/ Granted(t) \/ Denied(t)
  \/ WaitAgain(t) \/ LeaveDenied(t) \/ LockBuffer(t) \/ Transfer(t) \/ UnlockBuffer(t)
CloserStep == Close \/ AwaitQuiescent \/ Destroy

-----------------------------------------------------------------------------
Holds(t) == qpc[t] \in {"polled", "waited", "granted", "locked"}

(* The shape of the queue's state.                                         *)
QueueTypeOK ==
  /\ qstate \in {"OPEN", "CLOSING", "CLOSED", "FREED"}
  /\ inFlight \in Nat /\ waiting \in [{"push", "pop"} -> Nat]
  /\ emptySlots \in 0..Capacity /\ filledSlots \in 0..Capacity
  /\ {head, tail} \subseteq 0..(Capacity - 1) /\ size \in 0..Capacity
  /\ buffer \in [0..(Capacity - 1) -> Nat] /\ {stored, taken} \subseteq Nat
  /\ owner \in Threads \cup {NoThread}
  /\ qpc \in [Threads -> {"idle", "poll", "wait", "polled", "waited", "missed", "slice",
                          "granted", "denied", "locked", "unlock"}]
  /\ closer \in {"none", "waiting", "destroying", "failed", "done"}

(* Messages leave the ring once each, in the order they were stored, and   *)
(* while the queue is open every slot is either empty with a token in      *)
(* empty_slots, filled with a token in filled_slots, or promised to the    *)
(* one thread that has taken its token.                                    *)
QueueSound ==
  /\ \A i \in 0..(size - 1) : buffer[(head + i) % Capacity] = taken + 1 + i
  /\ stored = taken + size
  /\ Open => /\ emptySlots + Cardinality({t \in Pushers : Holds(t)}) + size = Capacity
             /\ filledSlots + Cardinality({t \in Poppers : Holds(t)}) = size
=============================================================================
