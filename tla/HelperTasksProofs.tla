------------------------- MODULE HelperTasksProofs -------------------------
(***************************************************************************)
(* The bounded queue and the NTP client are sound and are freed only when  *)
(* nobody uses them, for any number of threads and any capacity.  The      *)
(* teardowns decide by counters, so the invariants say whom each counter   *)
(* counts.                                                                 *)
(***************************************************************************)
EXTENDS HelperTasks, FiniteSetTheorems, TLAPS

(* The positions of a thread that is counted in in_flight, in waiting_push *)
(* or waiting_pop, and of one that has a token.                            *)
CallSteps == {"poll", "wait", "polled", "waited", "missed", "slice",
              "granted", "denied", "locked"}
WaitSteps == {"poll", "wait", "polled", "waited", "missed", "slice"}
HoldSteps == {"polled", "waited", "granted", "locked"}

CountAt(K, L) == Cardinality({t \in K : qpc[t] \in L})

(* The counters of the queue's state count the threads inside a call and   *)
(* the ones that wait in it.                                               *)
CallsCounted ==
  /\ inFlight = CountAt(Threads, CallSteps)
  /\ waiting["push"] = CountAt(Pushers, WaitSteps)
  /\ waiting["pop"] = CountAt(Poppers, WaitSteps)

LockHeld == \A t \in Threads : owner = t <=> qpc[t] \in {"locked", "unlock"}

RingAligned == tail = (head + size) % Capacity

(* Closing may lose tokens and never makes one.                            *)
TokensBounded ==
  /\ emptySlots + CountAt(Pushers, HoldSteps) + size <= Capacity
  /\ filledSlots + CountAt(Poppers, HoldSteps) <= size

(* The destroying thread has seen the last call end; the buffer lock may   *)
(* be held a little longer.                                                *)
CloseOrder ==
  /\ Open <=> closer = "none"
  /\ closer \in {"destroying", "failed", "done"} => inFlight = 0
  /\ closer = "done" => owner = NoThread
  /\ qstate = "FREED" => closer = "done"

QueueInv ==
  /\ QueueTypeOK /\ QueueSound /\ CallsCounted /\ LockHeld
  /\ RingAligned /\ TokensBounded /\ CloseOrder

(* The users counted in active_users, the holders of the two locks, and    *)
(* what the position of deinit says about both.                            *)
UserSteps == {"admitted", "inside", "finished", "leaving"}
Active == {u \in Users : upc[u] \in UserSteps}

UsersCounted == users = Cardinality(Active)
LocksHeld ==
  \A u \in Users : /\ operation = u <=> upc[u] \in {"inside", "finished"}
                   /\ admission = u <=> upc[u] = "posted"
DeinitOrder ==
  /\ deinit = "none" <=> ntp = "open"
  /\ deinit # "done" => ntp \in {"open", "closing"}
  /\ deinit = "done" => ntp \in {"freed", "stuck"}
  /\ idleSem \in {0, 1}
  /\ idleSem > 0 => deinit = "waiting" /\ users = 0
  /\ deinit \in {"destroying", "done"} => users = 0
  /\ ntp = "freed" => operation = NoUser /\ admission = NoUser

NtpInv == NtpTypeOK /\ UsersCounted /\ LocksHeld /\ DeinitOrder

-----------------------------------------------------------------------------
(* What one thread's move does to the number of threads of K at L.         *)
Moved(K, L, t, l) ==
  /\ CountAt(K, L) \in Nat /\ CountAt(K, L)' \in Nat
  /\ t \notin K \/ (l \in L <=> qpc[t] \in L) => CountAt(K, L)' = CountAt(K, L)
  /\ t \in K /\ l \in L /\ qpc[t] \notin L => CountAt(K, L)' = CountAt(K, L) + 1
  /\ t \in K /\ l \notin L /\ qpc[t] \in L => CountAt(K, L)' = CountAt(K, L) - 1

(* The count follows the move of one thread.                               *)
LEMMA CountMoved ==
  ASSUME QueueTypeOK, NEW K \in SUBSET Threads, NEW L, NEW t \in Threads, NEW l, At(t, l)
  PROVE  Moved(K, L, t, l)
<1> DEFINE S == {u \in K : qpc[u] \in L}
           T == {u \in K : qpc'[u] \in L}
<1>1. IsFiniteSet(Threads)
  BY QueueAssumption, FS_Union DEF Threads
<1>2. IsFiniteSet(K)
  BY <1>1, FS_Subset
<1>3. IsFiniteSet(S) /\ IsFiniteSet(T)
  BY <1>2, FS_Subset
<1>4. Cardinality(S) \in Nat /\ Cardinality(T) \in Nat
  BY <1>3, FS_CardinalityType
<1>5. /\ t \notin K \/ (l \in L <=> qpc[t] \in L) => T = S
      /\ t \in K /\ l \in L /\ qpc[t] \notin L => T = S \cup {t} /\ t \notin S
      /\ t \in K /\ l \notin L /\ qpc[t] \in L => T = S \ {t} /\ t \in S
  BY DEF QueueTypeOK, At
<1>6. /\ t \notin S => Cardinality(S \cup {t}) = Cardinality(S) + 1
      /\ t \in S => Cardinality(S \ {t}) = Cardinality(S) - 1
  BY <1>3, FS_AddElement, FS_RemoveElement
<1>7. CountAt(K, L) = Cardinality(S) /\ CountAt(K, L)' = Cardinality(T)
  BY DEF CountAt
<1> HIDE DEF S, T
<1> QED BY <1>4, <1>5, <1>6, <1>7 DEF Moved

(* The five numbers of the invariant.                                      *)
LEMMA Moves ==
  ASSUME QueueTypeOK, NEW t \in Threads, NEW l, At(t, l)
  PROVE  /\ Moved(Threads, CallSteps, t, l)
         /\ Moved(Pushers, WaitSteps, t, l) /\ Moved(Poppers, WaitSteps, t, l)
         /\ Moved(Pushers, HoldSteps, t, l) /\ Moved(Poppers, HoldSteps, t, l)
<1>1. Pushers \in SUBSET Threads /\ Poppers \in SUBSET Threads /\ Threads \in SUBSET Threads
  BY DEF Threads
<1>2. \A K \in SUBSET Threads : \A L : Moved(K, L, t, l)
  BY CountMoved
<1> QED BY <1>1, <1>2

(* A counter that counts somebody is positive.                             *)
LEMMA CountPositive ==
  ASSUME NEW K \in SUBSET Threads, NEW L, NEW t \in K, qpc[t] \in L
  PROVE  CountAt(K, L) > 0
<1> DEFINE S == {u \in K : qpc[u] \in L}
<1>1. IsFiniteSet(Threads)
  BY QueueAssumption, FS_Union DEF Threads
<1>2. IsFiniteSet(S)
  BY <1>1, FS_Subset
<1>3. Cardinality(S) \in Nat /\ (Cardinality(S) = 0 <=> S = {}) /\ t \in S
  BY <1>2, FS_CardinalityType, FS_EmptySet
<1>4. CountAt(K, L) = Cardinality(S)
  BY DEF CountAt
<1> QED BY <1>3, <1>4
(* QueueSound in the terms of the invariant.                               *)
RingSound ==
  /\ \A i \in 0..(size - 1) : buffer[(head + i) % Capacity] = taken + 1 + i
  /\ stored = taken + size
TokensExact ==
  Open => /\ emptySlots + CountAt(Pushers, HoldSteps) + size = Capacity
          /\ filledSlots + CountAt(Poppers, HoldSteps) = size

(* QueueSound is these two, before and after a step.                       *)
LEMMA SoundParts == /\ QueueSound <=> RingSound /\ TokensExact
                    /\ QueueSound' <=> RingSound' /\ TokensExact'
BY DEF QueueSound, RingSound, TokensExact, CountAt, Holds, HoldSteps

Labels == {"idle", "poll", "wait", "polled", "waited", "missed", "slice",
           "granted", "denied", "locked", "unlock"}

(* The queue as actrust_queue_create leaves it.                            *)
LEMMA QueueStart == QueueInit => QueueInv
<1> SUFFICES ASSUME QueueInit PROVE QueueInv
  OBVIOUS
<1> USE QueueAssumption DEF QueueInit
<1>1. \A K \in SUBSET Threads : {t \in K : qpc[t] \in CallSteps} = {}
                             /\ {t \in K : qpc[t] \in WaitSteps} = {}
                             /\ {t \in K : qpc[t] \in HoldSteps} = {}
  BY DEF CallSteps, WaitSteps, HoldSteps
<1>2. Pushers \in SUBSET Threads /\ Poppers \in SUBSET Threads
  BY DEF Threads
<1>3. Cardinality({}) = 0
  BY FS_EmptySet
<1>4. /\ CountAt(Threads, CallSteps) = 0 /\ CountAt(Pushers, WaitSteps) = 0
      /\ CountAt(Poppers, WaitSteps) = 0 /\ CountAt(Pushers, HoldSteps) = 0
      /\ CountAt(Poppers, HoldSteps) = 0
  BY <1>1, <1>2, <1>3 DEF CountAt
<1>5. QueueTypeOK
  <2>1. /\ emptySlots \in 0..Capacity /\ filledSlots \in 0..Capacity
        /\ {head, tail} \subseteq 0..(Capacity - 1) /\ size \in 0..Capacity
        /\ buffer \in [0..(Capacity - 1) -> Nat]
    OBVIOUS
  <2> QED BY <2>1 DEF QueueTypeOK
<1>6. RingSound /\ TokensExact /\ TokensBounded /\ CallsCounted
  BY <1>4 DEF RingSound, TokensExact, TokensBounded, CallsCounted
<1>7. LockHeld /\ CloseOrder
  BY DEF LockHeld, CloseOrder, Open, Threads
<1>8. RingAligned
  BY DEF RingAligned
<1> QED BY <1>5, <1>6, <1>7, <1>8, SoundParts DEF QueueInv

(* A move is counted as it must be: in_flight and waiting_push or          *)
(* waiting_pop change when the thread enters or leaves the counted steps.  *)
WellCounted(t, l) ==
  /\ (l \in CallSteps <=> qpc[t] \in CallSteps) => inFlight' = inFlight
  /\ l \in CallSteps /\ qpc[t] \notin CallSteps => inFlight' = inFlight + 1
  /\ l \notin CallSteps /\ qpc[t] \in CallSteps => inFlight' = inFlight - 1
  /\ (l \in WaitSteps <=> qpc[t] \in WaitSteps) => waiting' = waiting
  /\ l \in WaitSteps /\ qpc[t] \notin WaitSteps =>
       waiting' = [waiting EXCEPT ![Kind(t)] = @ + 1]
  /\ l \notin WaitSteps /\ qpc[t] \in WaitSteps =>
       waiting' = [waiting EXCEPT ![Kind(t)] = @ - 1]

(* Counters that move with their threads stay exact.                       *)
LEMMA CountsFollow ==
  ASSUME QueueTypeOK, CallsCounted, NEW t \in Threads, NEW l, At(t, l), WellCounted(t, l)
  PROVE  CallsCounted' /\ inFlight' \in Nat /\ waiting' \in [{"push", "pop"} -> Nat]
<1>1. /\ Moved(Threads, CallSteps, t, l)
      /\ Moved(Pushers, WaitSteps, t, l) /\ Moved(Poppers, WaitSteps, t, l)
  BY Moves
<1>2. inFlight' = CountAt(Threads, CallSteps)' /\ inFlight' \in Nat
  BY <1>1 DEF QueueTypeOK, CallsCounted, WellCounted, Moved
<1>3. CASE l \in WaitSteps <=> qpc[t] \in WaitSteps
  <2>1. waiting' = waiting
    BY <1>3 DEF WellCounted
  <2> QED BY <1>1, <1>2, <1>3, <2>1 DEF QueueTypeOK, CallsCounted, Moved
<1>4. CASE t \in Pushers /\ ~(l \in WaitSteps <=> qpc[t] \in WaitSteps)
  <2>1. t \notin Poppers /\ Kind(t) = "push"
    BY <1>4, QueueAssumption DEF Kind
  <2>2. /\ waiting'["pop"] = waiting["pop"]
        /\ waiting'["push"] = CountAt(Pushers, WaitSteps)' /\ waiting'["push"] \in Nat
    <3>1. waiting \in [{"push", "pop"} -> Nat] /\ waiting["push"] = CountAt(Pushers, WaitSteps)
      BY DEF QueueTypeOK, CallsCounted
    <3>2. CASE l \in WaitSteps
      <4>1. waiting' = [waiting EXCEPT !["push"] = @ + 1]
        BY <1>4, <2>1, <3>2 DEF WellCounted
      <4>2. CountAt(Pushers, WaitSteps)' = CountAt(Pushers, WaitSteps) + 1
        BY <1>1, <1>4, <2>1, <3>2 DEF Moved
      <4> QED BY <3>1, <4>1, <4>2
    <3>3. CASE l \notin WaitSteps
      <4>1. waiting' = [waiting EXCEPT !["push"] = @ - 1]
        BY <1>4, <2>1, <3>3 DEF WellCounted
      <4>2. /\ CountAt(Pushers, WaitSteps)' = CountAt(Pushers, WaitSteps) - 1
            /\ CountAt(Pushers, WaitSteps)' \in Nat
        BY <1>1, <1>4, <2>1, <3>1, <3>3 DEF Moved
      <4> QED BY <3>1, <4>1, <4>2
    <3> QED BY <3>2, <3>3
  <2>3. waiting' \in [{"push", "pop"} -> Nat]
    BY <1>4, <2>1, <2>2 DEF QueueTypeOK, WellCounted
  <2>4. waiting'["pop"] = CountAt(Poppers, WaitSteps)'
    BY <1>1, <2>1, <2>2 DEF Moved, CallsCounted
  <2> QED BY <1>2, <2>2, <2>3, <2>4 DEF CallsCounted
<1>5. CASE t \notin Pushers /\ ~(l \in WaitSteps <=> qpc[t] \in WaitSteps)
  <2>1. t \in Poppers /\ Kind(t) = "pop"
    BY <1>5 DEF Kind, Threads
  <2>2. /\ waiting'["push"] = waiting["push"]
        /\ waiting'["pop"] = CountAt(Poppers, WaitSteps)' /\ waiting'["pop"] \in Nat
    <3>1. waiting \in [{"push", "pop"} -> Nat] /\ waiting["pop"] = CountAt(Poppers, WaitSteps)
      BY DEF QueueTypeOK, CallsCounted
    <3>2. CASE l \in WaitSteps
      <4>1. waiting' = [waiting EXCEPT !["pop"] = @ + 1]
        BY <1>5, <2>1, <3>2 DEF WellCounted
      <4>2. CountAt(Poppers, WaitSteps)' = CountAt(Poppers, WaitSteps) + 1
        BY <1>1, <1>5, <2>1, <3>2 DEF Moved
      <4> QED BY <3>1, <4>1, <4>2
    <3>3. CASE l \notin WaitSteps
      <4>1. waiting' = [waiting EXCEPT !["pop"] = @ - 1]
        BY <1>5, <2>1, <3>3 DEF WellCounted
      <4>2. /\ CountAt(Poppers, WaitSteps)' = CountAt(Poppers, WaitSteps) - 1
            /\ CountAt(Poppers, WaitSteps)' \in Nat
        BY <1>1, <1>5, <2>1, <3>1, <3>3 DEF Moved
      <4> QED BY <3>1, <4>1, <4>2
    <3> QED BY <3>2, <3>3
  <2>3. waiting' \in [{"push", "pop"} -> Nat]
    BY <1>5, <2>1, <2>2 DEF QueueTypeOK, WellCounted
  <2>4. waiting'["push"] = CountAt(Pushers, WaitSteps)'
    BY <1>1, <1>5, <2>2 DEF Moved, CallsCounted
  <2> QED BY <1>2, <2>2, <2>3, <2>4 DEF CallsCounted
<1> QED BY <1>3, <1>4, <1>5

(* No call is in progress once the queue is being destroyed.               *)
LEMMA CallBeforeDestroy ==
  ASSUME QueueInv, NEW t \in Threads, qpc[t] \in CallSteps
  PROVE  closer \in {"none", "waiting"}
<1>1. CountAt(Threads, CallSteps) > 0
  BY CountPositive
<1> QED BY <1>1 DEF QueueInv, QueueTypeOK, CallsCounted, CloseOrder

(* The step of a thread before the destruction: what is left to show is    *)
(* what it does to the lock, the ring and the tokens.                      *)
LEMMA ThreadStep ==
  ASSUME QueueInv, NEW t \in Threads, NEW l \in Labels, At(t, l), WellCounted(t, l),
         closer \in {"none", "waiting"}, UNCHANGED <<qstate, closer>>,
         owner' \in Threads \cup {NoThread}, LockHeld',
         RingSound', RingAligned', TokensExact', TokensBounded',
         emptySlots' \in Nat, filledSlots' \in Nat, size' \in 0..Capacity,
         {head', tail'} \subseteq 0..(Capacity - 1),
         buffer' \in [0..(Capacity - 1) -> Nat], {stored', taken'} \subseteq Nat
  PROVE  QueueInv'
<1>0. QueueTypeOK /\ CallsCounted /\ CloseOrder
  BY DEF QueueInv
<1>1. CallsCounted' /\ inFlight' \in Nat /\ waiting' \in [{"push", "pop"} -> Nat]
  BY <1>0, CountsFollow
<1>2. qpc' \in [Threads -> Labels]
  BY <1>0 DEF QueueTypeOK, At, Labels
<1>3. emptySlots' \in 0..Capacity /\ filledSlots' \in 0..Capacity
  <2>1. CountAt(Pushers, HoldSteps)' \in Nat /\ CountAt(Poppers, HoldSteps)' \in Nat
    BY <1>0, Moves DEF Moved
  <2>2. /\ emptySlots' + CountAt(Pushers, HoldSteps)' + size' <= Capacity
        /\ filledSlots' + CountAt(Poppers, HoldSteps)' <= size'
    BY DEF TokensBounded
  <2>3. Capacity \in Nat /\ size' \in Nat /\ size' <= Capacity
    BY QueueAssumption
  <2>4. ASSUME NEW e \in Nat, NEW f \in Nat, NEW n \in Nat, NEW k \in Nat, NEW z \in Nat,
               NEW c \in Nat, e + n + z <= c, f + k <= z
        PROVE  e \in 0..c /\ f \in 0..c
    BY <2>4
  <2> QED BY <2>1, <2>2, <2>3, <2>4
<1>4. QueueTypeOK'
  BY <1>0, <1>1, <1>2, <1>3 DEF QueueTypeOK, Labels
<1>5. CloseOrder'
  BY <1>0 DEF CloseOrder, Open, QueueTypeOK
<1> QED BY <1>1, <1>4, <1>5, SoundParts DEF QueueInv

(* ... and a step that takes or gives neither token nor lock only has to   *)
(* count.                                                                  *)
LEMMA PlainStep ==
  ASSUME QueueInv, NEW t \in Threads, NEW l \in Labels, At(t, l), WellCounted(t, l),
         closer \in {"none", "waiting"}, UNCHANGED <<qstate, slots, ring, owner, closer>>,
         l \in HoldSteps <=> qpc[t] \in HoldSteps,
         l \in {"locked", "unlock"} <=> qpc[t] \in {"locked", "unlock"}
  PROVE  QueueInv'
<1>0. /\ QueueTypeOK /\ LockHeld /\ RingAligned /\ TokensBounded /\ RingSound /\ TokensExact
      /\ UNCHANGED <<qstate, emptySlots, filledSlots, buffer, head, tail, size, stored, taken>>
  BY SoundParts DEF QueueInv, slots, ring
<1>1. /\ CountAt(Pushers, HoldSteps)' = CountAt(Pushers, HoldSteps)
      /\ CountAt(Poppers, HoldSteps)' = CountAt(Poppers, HoldSteps)
  BY <1>0, Moves DEF Moved
<1>2. TokensBounded' /\ TokensExact' /\ RingSound' /\ RingAligned'
  BY <1>0, <1>1 DEF TokensBounded, TokensExact, RingSound, RingAligned, Open
<1>3. LockHeld'
  BY <1>0 DEF LockHeld, QueueTypeOK, At
<1>4. /\ owner' \in Threads \cup {NoThread}
      /\ emptySlots' \in Nat /\ filledSlots' \in Nat /\ size' \in 0..Capacity
      /\ {head', tail'} \subseteq 0..(Capacity - 1)
      /\ buffer' \in [0..(Capacity - 1) -> Nat] /\ {stored', taken'} \subseteq Nat
  BY <1>0 DEF QueueTypeOK
<1> QED BY <1>2, <1>3, <1>4, ThreadStep

-----------------------------------------------------------------------------
(* actrust_queue_push and actrust_queue_pop, the steps that take or give   *)
(* neither a token nor the buffer lock.                                    *)
LEMMA QueuePlain ==
  ASSUME QueueInv, NEW t \in Threads,
         \/ \E how \in {"poll", "wait"} : Admit(t, how)
         \/ NoToken(t) \/ Expired(t) \/ Denied(t) \/ WaitAgain(t) \/ LeaveDenied(t)
  PROVE  QueueInv'
<1> USE DEF Labels, CallSteps, WaitSteps, HoldSteps, WellCounted, StopWaiting, counts
<1>1. ASSUME NEW how \in {"poll", "wait"}, Admit(t, how) PROVE QueueInv'
  <2>1. closer = "none"
    BY <1>1 DEF Admit, QueueInv, CloseOrder
  <2> QED BY <1>1, <2>1, PlainStep DEF Admit
<1>2. ASSUME NoToken(t) PROVE QueueInv'
  <2>1. closer \in {"none", "waiting"}
    BY <1>2, CallBeforeDestroy DEF NoToken
  <2>2. CASE qpc[t] = "poll"
    BY <1>2, <2>1, <2>2, PlainStep DEF NoToken
  <2>3. CASE qpc[t] = "wait"
    BY <1>2, <2>1, <2>3, PlainStep DEF NoToken
  <2> QED BY <1>2, <2>2, <2>3 DEF NoToken
<1>3. ASSUME Denied(t) PROVE QueueInv'
  <2>1. closer \in {"none", "waiting"}
    BY <1>3, CallBeforeDestroy DEF Denied
  <2>2. CASE Open
    <3>1. At(t, "denied") /\ WellCounted(t, "denied") /\ qpc[t] \in {"missed", "slice"}
      BY <1>3, <2>2 DEF Denied
    <3> QED BY <1>3, <2>1, <3>1, PlainStep DEF Denied
  <2>3. CASE ~Open
    <3>1. At(t, "idle") /\ WellCounted(t, "idle") /\ qpc[t] \in {"missed", "slice"}
      BY <1>3, <2>3 DEF Denied
    <3> QED BY <1>3, <2>1, <3>1, PlainStep DEF Denied
  <2> QED BY <2>2, <2>3
<1>4. ASSUME WaitAgain(t) PROVE QueueInv'
  <2>1. closer \in {"none", "waiting"}
    BY <1>4, CallBeforeDestroy DEF WaitAgain
  <2> QED BY <1>4, <2>1, PlainStep DEF WaitAgain
<1>5. ASSUME LeaveDenied(t) PROVE QueueInv'
  <2>1. closer \in {"none", "waiting"}
    BY <1>5, CallBeforeDestroy DEF LeaveDenied
  <2> QED BY <1>5, <2>1, PlainStep DEF LeaveDenied
<1>6. ASSUME Expired(t) PROVE QueueInv'
  <2>1. closer \in {"none", "waiting"}
    BY <1>6, CallBeforeDestroy DEF Expired
  <2> QED BY <1>6, <2>1, PlainStep DEF Expired
<1> QED BY <1>1, <1>2, <1>3, <1>4, <1>5, <1>6

(* A step that leaves ring and lock alone and moves one token between the  *)
(* thread's semaphore and the thread.                                      *)
LEMMA TokenStep ==
  ASSUME QueueInv, NEW t \in Threads, NEW l \in Labels, At(t, l), WellCounted(t, l),
         closer \in {"none", "waiting"}, UNCHANGED <<qstate, ring, owner, closer>>,
         \/ Tokens(t) > 0 /\ AddOwn(t, -1) /\ l \in HoldSteps /\ qpc[t] \notin HoldSteps
         \/ AddOwn(t, 1) /\ l \notin HoldSteps /\ qpc[t] \in HoldSteps
         \/ ~Open /\ UNCHANGED slots /\ l \notin HoldSteps /\ qpc[t] \in HoldSteps,
         l \notin {"locked", "unlock"}, qpc[t] \notin {"locked", "unlock"}
  PROVE  QueueInv'
<1>0. /\ QueueTypeOK /\ LockHeld /\ RingAligned /\ TokensBounded /\ RingSound /\ TokensExact
      /\ UNCHANGED <<qstate, buffer, head, tail, size, stored, taken>>
  BY SoundParts DEF QueueInv, ring
<1>1. Moved(Pushers, HoldSteps, t, l) /\ Moved(Poppers, HoldSteps, t, l)
  BY <1>0, Moves
<1>2. RingSound' /\ RingAligned'
  BY <1>0 DEF RingSound, RingAligned
<1>3. LockHeld'
  BY <1>0 DEF LockHeld, QueueTypeOK, At
<1>4. /\ owner' \in Threads \cup {NoThread} /\ size' \in 0..Capacity
      /\ {head', tail'} \subseteq 0..(Capacity - 1)
      /\ buffer' \in [0..(Capacity - 1) -> Nat] /\ {stored', taken'} \subseteq Nat
  BY <1>0 DEF QueueTypeOK
<1>5. /\ emptySlots' \in Nat /\ filledSlots' \in Nat /\ TokensBounded' /\ TokensExact'
  <2>1. emptySlots \in Nat /\ filledSlots \in Nat /\ size \in Nat /\ Capacity \in Nat
    BY <1>0, QueueAssumption DEF QueueTypeOK
  <2>2. CASE t \in Pushers
    <3>1. t \notin Poppers
      BY <2>2, QueueAssumption
    <3> QED BY <1>0, <1>1, <2>1, <2>2, <3>1
            DEF Moved, AddOwn, Tokens, TokensBounded, TokensExact, Open, slots
  <2>3. CASE t \notin Pushers
    <3>1. t \in Poppers
      BY <2>3 DEF Threads
    <3> QED BY <1>0, <1>1, <2>1, <2>3, <3>1
            DEF Moved, AddOwn, Tokens, TokensBounded, TokensExact, Open, slots
  <2> QED BY <2>2, <2>3
<1> QED BY <1>2, <1>3, <1>4, <1>5, ThreadStep

(* The semaphore: a token is taken; with it, a closing queue refuses.      *)
LEMMA QueueTokens ==
  ASSUME QueueInv, NEW t \in Threads, TakeToken(t) \/ Granted(t)
  PROVE  QueueInv'
<1> USE DEF Labels, CallSteps, WaitSteps, HoldSteps, WellCounted, StopWaiting, counts
<1>1. ASSUME TakeToken(t) PROVE QueueInv'
  <2>1. closer \in {"none", "waiting"}
    BY <1>1, CallBeforeDestroy DEF TakeToken
  <2>2. CASE qpc[t] = "poll"
    BY <1>1, <2>1, <2>2, TokenStep DEF TakeToken
  <2>3. CASE qpc[t] = "wait"
    BY <1>1, <2>1, <2>3, TokenStep DEF TakeToken
  <2> QED BY <1>1, <2>2, <2>3 DEF TakeToken
<1>2. ASSUME Granted(t) PROVE QueueInv'
  <2>1. closer \in {"none", "waiting"}
    BY <1>2, CallBeforeDestroy DEF Granted
  <2>2. CASE Open
    <3>1. At(t, "granted") /\ WellCounted(t, "granted") /\ qpc[t] \in {"polled", "waited"}
      BY <1>2, <2>2 DEF Granted
    <3> QED BY <1>2, <2>1, <2>2, <3>1, PlainStep DEF Granted
  <2>3. CASE ~Open
    <3>1. At(t, "idle") /\ WellCounted(t, "idle") /\ qpc[t] \in {"polled", "waited"}
      BY <1>2, <2>3 DEF Granted
    <3>2. CASE qpc[t] = "polled"
      BY <1>2, <2>1, <2>3, <3>1, <3>2, TokenStep DEF Granted
    <3>3. CASE qpc[t] # "polled"
      BY <1>2, <2>1, <2>3, <3>1, <3>3, TokenStep DEF Granted
    <3> QED BY <3>2, <3>3
  <2> QED BY <2>2, <2>3
<1> QED BY <1>1, <1>2

(* Index arithmetic modulo the capacity.                                   *)
LEMMA RingStep ==
  ASSUME NEW h \in 0..(Capacity - 1), NEW k \in 0..Capacity
  PROVE  (h + k) % Capacity = IF h + k < Capacity THEN h + k ELSE h + k - Capacity
BY QueueAssumption, SMTT(30)

(* A message stored in a ring that is not full comes after all the others. *)
LEMMA RingStore ==
  ASSUME QueueTypeOK, RingSound, RingAligned, size < Capacity, Store
  PROVE  /\ RingSound' /\ RingAligned' /\ size' \in 0..Capacity
         /\ {head', tail'} \subseteq 0..(Capacity - 1)
         /\ buffer' \in [0..(Capacity - 1) -> Nat] /\ {stored', taken'} \subseteq Nat
<1>1. /\ head \in 0..(Capacity - 1) /\ tail \in 0..(Capacity - 1)
      /\ size \in 0..(Capacity - 1) /\ Capacity \in Nat \ {0}
      /\ buffer \in [0..(Capacity - 1) -> Nat] /\ stored \in Nat /\ taken \in Nat
  BY QueueAssumption DEF QueueTypeOK
<1>2. /\ buffer' = [buffer EXCEPT ![tail] = stored + 1]
      /\ tail' = (tail + 1) % Capacity /\ size' = size + 1 /\ stored' = stored + 1
      /\ head' = head /\ taken' = taken
  BY DEF Store, Forward
<1>3. tail = IF head + size < Capacity THEN head + size ELSE head + size - Capacity
  <2>1. size \in 0..Capacity
    BY <1>1
  <2> QED BY <1>1, <2>1, RingStep DEF RingAligned
<1>4. tail' = IF tail + 1 < Capacity THEN tail + 1 ELSE tail + 1 - Capacity
  <2>1. 1 \in 0..Capacity
    BY <1>1
  <2> QED BY <1>1, <1>2, <2>1, RingStep
<1>5. RingAligned'
  <2>1. size + 1 \in 0..Capacity
    BY <1>1
  <2>2. (head + (size + 1)) % Capacity =
          IF head + (size + 1) < Capacity THEN head + (size + 1) ELSE head + (size + 1) - Capacity
    BY <1>1, <2>1, RingStep
  <2>3. tail' = IF head + (size + 1) < Capacity THEN head + (size + 1)
                                               ELSE head + (size + 1) - Capacity
    BY <1>1, <1>3, <1>4
  <2> QED BY <1>2, <2>2, <2>3 DEF RingAligned
<1>6. RingSound'
  <2>1. stored' = taken' + size'
    BY <1>1, <1>2 DEF RingSound
  <2>2. ASSUME NEW i \in 0..(size' - 1)
        PROVE  buffer'[(head' + i) % Capacity] = taken' + 1 + i
    <3>1. i \in 0..size /\ i \in 0..Capacity
      BY <1>1, <1>2
    <3>2. (head + i) % Capacity = IF head + i < Capacity THEN head + i ELSE head + i - Capacity
      BY <1>1, <3>1, RingStep
    <3>3. CASE i = size
      BY <1>1, <1>2, <3>3 DEF RingAligned, RingSound
    <3>4. CASE i # size
      <4>1. i \in 0..(size - 1) /\ (head + i) % Capacity # tail
            /\ (head + i) % Capacity \in 0..(Capacity - 1)
        <5>1. PICK r : r = (head + i) % Capacity
          OBVIOUS
        <5>2. r = IF head + i < Capacity THEN head + i ELSE head + i - Capacity
          BY <3>2, <5>1
        <5>3. i \in 0..(size - 1) /\ r # tail /\ r \in 0..(Capacity - 1)
          BY <1>1, <1>3, <3>1, <3>4, <5>2
        <5> QED BY <5>1, <5>3
      <4> QED BY <1>1, <1>2, <4>1 DEF RingSound
    <3> QED BY <3>3, <3>4
  <2> QED BY <2>1, <2>2 DEF RingSound
<1>7. /\ size' \in 0..Capacity /\ {head', tail'} \subseteq 0..(Capacity - 1)
      /\ stored' \in Nat /\ taken' \in Nat
  BY <1>1, <1>2, <1>4
<1>8. buffer' \in [0..(Capacity - 1) -> Nat]
  BY <1>1, <1>2
<1> QED BY <1>5, <1>6, <1>7, <1>8

(* The message taken from a ring that is not empty is the oldest one.      *)
LEMMA RingTake ==
  ASSUME QueueTypeOK, RingSound, RingAligned, size > 0, Take
  PROVE  /\ RingSound' /\ RingAligned' /\ size' \in 0..Capacity
         /\ {head', tail'} \subseteq 0..(Capacity - 1)
         /\ buffer' \in [0..(Capacity - 1) -> Nat] /\ {stored', taken'} \subseteq Nat
<1>1. /\ head \in 0..(Capacity - 1) /\ tail \in 0..(Capacity - 1)
      /\ size \in 1..Capacity /\ Capacity \in Nat \ {0}
      /\ buffer \in [0..(Capacity - 1) -> Nat] /\ stored \in Nat /\ taken \in Nat
  BY QueueAssumption DEF QueueTypeOK
<1>2. /\ taken' = buffer[head] /\ head' = (head + 1) % Capacity /\ size' = size - 1
      /\ buffer' = buffer /\ tail' = tail /\ stored' = stored
  BY DEF Take, Forward
<1>3. taken' = taken + 1
  <2>1. 0 \in 0..Capacity /\ 0 \in 0..(size - 1) /\ head + 0 = head /\ head < Capacity
    BY <1>1
  <2>2. (head + 0) % Capacity = head
    BY <1>1, <2>1, RingStep
  <2>3. buffer[(head + 0) % Capacity] = taken + 1 + 0
    BY <2>1 DEF RingSound
  <2> QED BY <1>1, <1>2, <2>2, <2>3
<1>4. head' = IF head + 1 < Capacity THEN head + 1 ELSE head + 1 - Capacity
  <2>1. 1 \in 0..Capacity
    BY <1>1
  <2> QED BY <1>1, <1>2, <2>1, RingStep
<1>5. head' \in 0..(Capacity - 1)
  BY <1>1, <1>4
<1>6. ASSUME NEW i \in 0..(size - 1), NEW k \in 1..size, k = i + 1
      PROVE  (head' + i) % Capacity = (head + k) % Capacity
  <2>1. i \in 0..Capacity /\ k \in 0..Capacity
    BY <1>1, <1>6
  <2>2. (head' + i) % Capacity = IF head' + i < Capacity THEN head' + i ELSE head' + i - Capacity
    BY <1>5, <2>1, RingStep
  <2>3. (head + k) % Capacity = IF head + k < Capacity THEN head + k ELSE head + k - Capacity
    BY <1>1, <2>1, RingStep
  <2> QED BY <1>1, <1>4, <1>6, <2>2, <2>3
<1>7. RingAligned'
  <2>1. size - 1 \in 0..(size - 1) /\ size \in 1..size /\ size = (size - 1) + 1
    BY <1>1
  <2>2. (head' + (size - 1)) % Capacity = (head + size) % Capacity
    BY <1>6, <2>1
  <2> QED BY <1>2, <2>2 DEF RingAligned
<1>8. RingSound'
  <2>1. stored' = taken' + size'
    BY <1>1, <1>2, <1>3 DEF RingSound
  <2>2. ASSUME NEW i \in 0..(size' - 1)
        PROVE  buffer'[(head' + i) % Capacity] = taken' + 1 + i
    <3>1. i \in 0..(size - 1) /\ i + 1 \in 1..size /\ i + 1 \in 0..(size - 1)
      BY <1>1, <1>2
    <3>2. (head' + i) % Capacity = (head + (i + 1)) % Capacity
      BY <1>6, <3>1
    <3>3. buffer[(head + (i + 1)) % Capacity] = taken + 1 + (i + 1)
      BY <3>1 DEF RingSound
    <3> QED BY <1>1, <1>2, <1>3, <3>1, <3>2, <3>3
  <2> QED BY <2>1, <2>2 DEF RingSound
<1> QED BY <1>1, <1>2, <1>3, <1>5, <1>7, <1>8

(* queue->lock is taken by one thread at a time, with its token in hand.   *)
LEMMA QueueLock ==
  ASSUME QueueInv, NEW t \in Threads, LockBuffer(t)
  PROVE  QueueInv'
<1>0. /\ QueueTypeOK /\ LockHeld /\ RingAligned /\ TokensBounded /\ RingSound /\ TokensExact
      /\ UNCHANGED <<qstate, emptySlots, filledSlots, buffer, head, tail, size, stored, taken>>
      /\ qpc[t] = "granted" /\ owner = NoThread /\ At(t, "locked") /\ owner' = t
  BY SoundParts DEF QueueInv, LockBuffer, slots, ring
<1>1. closer \in {"none", "waiting"} /\ WellCounted(t, "locked") /\ UNCHANGED closer
  BY <1>0, CallBeforeDestroy DEF LockBuffer, CallSteps, WaitSteps, WellCounted, counts
<1>2. /\ CountAt(Pushers, HoldSteps)' = CountAt(Pushers, HoldSteps)
      /\ CountAt(Poppers, HoldSteps)' = CountAt(Poppers, HoldSteps)
  BY <1>0, Moves DEF Moved, HoldSteps
<1>3. TokensBounded' /\ TokensExact' /\ RingSound' /\ RingAligned'
  BY <1>0, <1>2 DEF TokensBounded, TokensExact, RingSound, RingAligned, Open
<1>4. LockHeld'
  BY <1>0, QueueAssumption DEF LockHeld, QueueTypeOK, At, Threads
<1>5. /\ owner' \in Threads \cup {NoThread}
      /\ emptySlots' \in Nat /\ filledSlots' \in Nat /\ size' \in 0..Capacity
      /\ {head', tail'} \subseteq 0..(Capacity - 1)
      /\ buffer' \in [0..(Capacity - 1) -> Nat] /\ {stored', taken'} \subseteq Nat
  BY <1>0 DEF QueueTypeOK
<1>6. "locked" \in Labels
  BY DEF Labels
<1> QED BY <1>0, <1>1, <1>3, <1>4, <1>5, <1>6, ThreadStep

(* Under both locks: the token of one kind becomes one of the other, and   *)
(* a token in hand is a slot that is free, or a message that is there.     *)
LEMMA QueueTransfer ==
  ASSUME QueueInv, NEW t \in Threads, Transfer(t)
  PROVE  QueueInv'
<1>0. /\ QueueTypeOK /\ LockHeld /\ RingAligned /\ TokensBounded /\ RingSound /\ TokensExact
      /\ qpc[t] = "locked" /\ At(t, "unlock") /\ UNCHANGED <<qstate, owner, closer>>
  BY SoundParts DEF QueueInv, Transfer
<1>1. closer \in {"none", "waiting"} /\ WellCounted(t, "unlock") /\ UNCHANGED closer
  BY <1>0, CallBeforeDestroy DEF Transfer, CallSteps, WaitSteps, WellCounted, counts
<1>2. Moved(Pushers, HoldSteps, t, "unlock") /\ Moved(Poppers, HoldSteps, t, "unlock")
  BY <1>0, Moves
<1>3. /\ "unlock" \notin HoldSteps /\ qpc[t] \in HoldSteps /\ "unlock" \in Labels
  BY <1>0 DEF HoldSteps, Labels
<1>4. /\ emptySlots \in Nat /\ filledSlots \in Nat /\ size \in Nat /\ Capacity \in Nat
      /\ owner' \in Threads \cup {NoThread}
  BY <1>0, QueueAssumption DEF QueueTypeOK
<1>5. LockHeld'
  BY <1>0 DEF LockHeld, QueueTypeOK, At
<1>6. /\ t \in Pushers => CountAt(Pushers, HoldSteps) > 0
      /\ t \in Poppers => CountAt(Poppers, HoldSteps) > 0
  BY <1>3, CountPositive DEF Threads
<1>7. CASE Open /\ t \in Pushers
  <2>1. filledSlots' = filledSlots + 1 /\ emptySlots' = emptySlots /\ Store /\ t \notin Poppers
    BY <1>7, QueueAssumption DEF Transfer
  <2>2. size < Capacity
    BY <1>0, <1>2, <1>4, <1>6, <1>7 DEF TokensExact, Moved
  <2>3. /\ RingSound' /\ RingAligned' /\ size' \in 0..Capacity
        /\ {head', tail'} \subseteq 0..(Capacity - 1)
        /\ buffer' \in [0..(Capacity - 1) -> Nat] /\ {stored', taken'} \subseteq Nat
    BY <1>0, <2>1, <2>2, RingStore
  <2>4. size' = size + 1
    BY <2>1 DEF Store
  <2>5. TokensExact' /\ TokensBounded' /\ emptySlots' \in Nat /\ filledSlots' \in Nat
    BY <1>0, <1>2, <1>3, <1>4, <1>7, <2>1, <2>4 DEF TokensExact, TokensBounded, Moved, Open
  <2> QED BY <1>0, <1>1, <1>3, <1>4, <1>5, <2>3, <2>5, ThreadStep
<1>8. CASE Open /\ t \notin Pushers
  <2>1. t \in Poppers /\ emptySlots' = emptySlots + 1 /\ filledSlots' = filledSlots /\ Take
    BY <1>8 DEF Transfer, Threads
  <2>2. size > 0
    BY <1>0, <1>2, <1>4, <1>6, <1>8, <2>1 DEF TokensExact, Moved
  <2>3. /\ RingSound' /\ RingAligned' /\ size' \in 0..Capacity
        /\ {head', tail'} \subseteq 0..(Capacity - 1)
        /\ buffer' \in [0..(Capacity - 1) -> Nat] /\ {stored', taken'} \subseteq Nat
    BY <1>0, <2>1, <2>2, RingTake
  <2>4. size' = size - 1
    BY <2>1 DEF Take
  <2>5. TokensExact' /\ TokensBounded' /\ emptySlots' \in Nat /\ filledSlots' \in Nat
    BY <1>0, <1>2, <1>3, <1>4, <1>8, <2>1, <2>4 DEF TokensExact, TokensBounded, Moved, Open
  <2> QED BY <1>0, <1>1, <1>3, <1>4, <1>5, <2>3, <2>5, ThreadStep
<1>9. CASE ~Open
  <2>1. AddOwn(t, 1) /\ UNCHANGED <<buffer, head, tail, size, stored, taken>>
    BY <1>9 DEF Transfer, ring
  <2>2. TokensExact' /\ TokensBounded' /\ emptySlots' \in Nat /\ filledSlots' \in Nat
    <3>1. CASE t \in Pushers
      <4>1. t \notin Poppers
        BY <3>1, QueueAssumption
      <4> QED BY <1>0, <1>2, <1>3, <1>4, <1>9, <2>1, <3>1, <4>1
              DEF TokensExact, TokensBounded, Moved, Open, AddOwn
    <3>2. CASE t \notin Pushers
      <4>1. t \in Poppers
        BY <3>2 DEF Threads
      <4> QED BY <1>0, <1>2, <1>3, <1>4, <1>9, <2>1, <3>2, <4>1
              DEF TokensExact, TokensBounded, Moved, Open, AddOwn
    <3> QED BY <3>1, <3>2
  <2>3. RingSound' /\ RingAligned'
    BY <1>0, <2>1 DEF RingSound, RingAligned
  <2>4. /\ size' \in 0..Capacity /\ {head', tail'} \subseteq 0..(Capacity - 1)
        /\ buffer' \in [0..(Capacity - 1) -> Nat] /\ {stored', taken'} \subseteq Nat
    BY <1>0, <2>1 DEF QueueTypeOK
  <2> QED BY <1>0, <1>1, <1>3, <1>4, <1>5, <2>2, <2>3, <2>4, ThreadStep
<1> QED BY <1>7, <1>8, <1>9

(* queue->lock is given up, the last a call does; destroy may be waiting.  *)
LEMMA QueueUnlock ==
  ASSUME QueueInv, NEW t \in Threads, UnlockBuffer(t)
  PROVE  QueueInv'
<1>0. /\ QueueTypeOK /\ CallsCounted /\ LockHeld /\ RingAligned /\ TokensBounded /\ CloseOrder
      /\ RingSound /\ TokensExact
      /\ UNCHANGED <<qstate, inFlight, waiting, emptySlots, filledSlots, buffer, head, tail,
                     size, stored, taken, closer>>
      /\ qpc[t] = "unlock" /\ At(t, "idle") /\ owner' = NoThread
  BY SoundParts DEF QueueInv, UnlockBuffer, counts, slots, ring
<1>1. /\ CountAt(Pushers, HoldSteps)' = CountAt(Pushers, HoldSteps)
      /\ CountAt(Poppers, HoldSteps)' = CountAt(Poppers, HoldSteps)
  BY <1>0, Moves DEF Moved, HoldSteps
<1>2. CallsCounted'
  BY <1>0, CountsFollow DEF WellCounted, CallSteps, WaitSteps
<1>3. TokensBounded' /\ TokensExact' /\ RingSound' /\ RingAligned'
  BY <1>0, <1>1 DEF TokensBounded, TokensExact, RingSound, RingAligned, Open
<1>4. LockHeld'
  BY <1>0, QueueAssumption DEF LockHeld, QueueTypeOK, At, Threads
<1>5. QueueTypeOK' /\ CloseOrder'
  BY <1>0 DEF QueueTypeOK, CloseOrder, Open, At
<1> QED BY <1>2, <1>3, <1>4, <1>5, SoundParts DEF QueueInv

(* actrust_queue_close and actrust_queue_destroy.                          *)
LEMMA QueueCloser == ASSUME QueueInv, CloserStep PROVE QueueInv'
<1>0. /\ QueueTypeOK /\ CallsCounted /\ LockHeld /\ RingAligned /\ TokensBounded /\ CloseOrder
      /\ RingSound /\ TokensExact
      /\ UNCHANGED <<inFlight, waiting, emptySlots, filledSlots, buffer, head, tail,
                     size, stored, taken, owner, qpc>>
  BY SoundParts DEF QueueInv, CloserStep, Close, AwaitQuiescent, Destroy, counts, slots, ring
<1>1. CallsCounted' /\ LockHeld' /\ RingAligned' /\ RingSound' /\ TokensBounded'
  BY <1>0 DEF CallsCounted, LockHeld, RingAligned, RingSound, TokensBounded, CountAt
<1>2. Open' => Open
  BY <1>0 DEF CloserStep, Close, AwaitQuiescent, Destroy, Open
<1>3. TokensExact'
  BY <1>0, <1>2 DEF TokensExact, CountAt
<1>4. QueueTypeOK' /\ CloseOrder'
  BY <1>0 DEF CloserStep, Close, AwaitQuiescent, Destroy, Quiescent, Open, QueueTypeOK,
     CloseOrder
<1> QED BY <1>1, <1>3, <1>4, SoundParts DEF QueueInv

(* Every step of the bounded queue, or of others, keeps its invariant.     *)
LEMMA QueueNext ==
  ASSUME QueueInv, (\E t \in Threads : QueueStep(t)) \/ CloserStep \/ UNCHANGED queueVars
  PROVE  QueueInv'
<1>1. ASSUME NEW t \in Threads, QueueStep(t) PROVE QueueInv'
  BY <1>1, QueuePlain, QueueTokens, QueueLock, QueueTransfer, QueueUnlock DEF QueueStep
<1>2. CASE UNCHANGED queueVars
  BY <1>2 DEF queueVars, counts, slots, ring, QueueInv, QueueTypeOK, QueueSound, CallsCounted,
     LockHeld, RingAligned, TokensBounded, CloseOrder, Open, Holds, CountAt
<1> QED BY <1>1, <1>2, QueueCloser

-----------------------------------------------------------------------------
(* What one user's move does to the number of users.                       *)
LEMMA ActiveMoved ==
  ASSUME NtpTypeOK, NEW u \in Users, NEW l, Move(u, l)
  PROVE  /\ Cardinality(Active) \in Nat /\ Cardinality(Active)' \in Nat
         /\ (l \in UserSteps <=> upc[u] \in UserSteps) =>
              Cardinality(Active)' = Cardinality(Active)
         /\ l \in UserSteps /\ upc[u] \notin UserSteps =>
              Cardinality(Active)' = Cardinality(Active) + 1
         /\ l \notin UserSteps /\ upc[u] \in UserSteps =>
              Cardinality(Active)' = Cardinality(Active) - 1
         /\ upc[u] \in UserSteps => Cardinality(Active) > 0
<1>1. IsFiniteSet(Active) /\ IsFiniteSet(Active')
  BY NtpAssumption, FS_Subset DEF Active
<1>2. /\ Cardinality(Active) \in Nat /\ Cardinality(Active') \in Nat
      /\ Cardinality(Active) = 0 <=> Active = {}
  BY <1>1, FS_CardinalityType, FS_EmptySet
<1>3. /\ (l \in UserSteps <=> upc[u] \in UserSteps) => Active' = Active
      /\ l \in UserSteps /\ upc[u] \notin UserSteps =>
           Active' = Active \cup {u} /\ u \notin Active
      /\ l \notin UserSteps /\ upc[u] \in UserSteps =>
           Active' = Active \ {u} /\ u \in Active
      /\ upc[u] \in UserSteps => u \in Active
  BY DEF NtpTypeOK, Move, Active
<1>4. /\ u \notin Active => Cardinality(Active \cup {u}) = Cardinality(Active) + 1
      /\ u \in Active => Cardinality(Active \ {u}) = Cardinality(Active) - 1
  BY <1>1, FS_AddElement, FS_RemoveElement
<1>5. CASE l \in UserSteps <=> upc[u] \in UserSteps
  BY <1>2, <1>3, <1>5
<1>6. CASE l \in UserSteps /\ upc[u] \notin UserSteps
  BY <1>2, <1>3, <1>4, <1>6
<1>7. CASE l \notin UserSteps /\ upc[u] \in UserSteps
  BY <1>2, <1>3, <1>4, <1>7
<1> QED BY <1>5, <1>6, <1>7

(* The client as actrust_ntp_init leaves it.                               *)
LEMMA NtpStart == NtpInit => NtpInv
<1> SUFFICES ASSUME NtpInit PROVE NtpInv
  OBVIOUS
<1>1. Active = {} /\ Cardinality({}) = 0
  BY FS_EmptySet DEF NtpInit, Active, UserSteps
<1>2. NtpTypeOK
  <2>1. ~synced /\ synced \in BOOLEAN
    BY DEF NtpInit
  <2> QED BY <2>1, NtpAssumption DEF NtpInit, NtpTypeOK
<1>3. UsersCounted /\ DeinitOrder
  BY <1>1 DEF NtpInit, UsersCounted, DeinitOrder
<1>4. LocksHeld
  BY NtpAssumption DEF NtpInit, LocksHeld
<1> QED BY <1>2, <1>3, <1>4 DEF NtpInv

(* The state of the client's clock: only Sync writes it, and only with an  *)
(* offset that ntp_offset_is_acceptable has let pass.                      *)
ClockOK ==
  /\ synced \in BOOLEAN /\ offset \in Int
  /\ synced /\ MaxOffset > 0 => offset \in -MaxOffset..MaxOffset

(* No step stores an offset beyond the limit.                              *)
LEMMA ClockNext ==
  ASSUME NtpTypeOK, (\E u \in Users : UserStep(u)) \/ DeinitStep \/ UNCHANGED ntpVars
  PROVE  ClockOK'
<1>1. ASSUME NEW u \in Users, Sync(u) PROVE ClockOK'
  <2>1. PICK o \in Offsets : Acceptable(o) /\ synced' = TRUE /\ offset' = o
    BY <1>1 DEF Sync
  <2>2. offset' \in Int /\ (MaxOffset > 0 => offset' \in -MaxOffset..MaxOffset)
    BY <2>1, NtpAssumption DEF Acceptable
  <2> QED BY <2>1, <2>2 DEF ClockOK
<1>2. CASE UNCHANGED <<synced, offset>>
  BY <1>2 DEF ClockOK, NtpTypeOK
<1> QED
  BY <1>1, <1>2 DEF UserStep, Admitted, LockOperation, NoSync, UnlockOperation, Depart,
     UnlockAdmission, DeinitStep, DeinitClose, DeinitIdle, DeinitDestroy, ntpVars

(* A user's step: entering, working and leaving.                           *)
LEMMA NtpUser ==
  ASSUME NtpInv, NEW u \in Users, UserStep(u), ClockOK'
  PROVE  NtpInv'
<1>0. NtpTypeOK /\ UsersCounted /\ LocksHeld /\ DeinitOrder
  BY DEF NtpInv
<1> DEFINE Rest ==
      /\ ntp \in {"open", "closing", "freed", "stuck"} /\ users \in Nat /\ idleSem \in Nat
      /\ {admission, operation} \subseteq Users \cup {NoUser}
      /\ upc \in [Users -> {"idle", "admitted", "inside", "finished", "leaving", "posted"}]
      /\ deinit \in {"none", "waiting", "destroying", "done"}
<1>1. SUFFICES Rest' /\ UsersCounted' /\ LocksHeld' /\ DeinitOrder'
  BY DEF NtpInv, NtpTypeOK, ClockOK
<1>u. upc[u] \in UserSteps => deinit \in {"none", "waiting"} /\ users > 0 /\ idleSem = 0
  <2>1. upc[u] \in UserSteps => u \in Active
    BY DEF Active
  <2>2. IsFiniteSet(Active)
    BY NtpAssumption, FS_Subset DEF Active
  <2>3. Cardinality(Active) = 0 <=> Active = {}
    BY <2>2, FS_EmptySet
  <2> QED BY <1>0, <2>1, <2>3 DEF UsersCounted, DeinitOrder, NtpTypeOK
<1>2. ASSUME Admitted(u) PROVE Rest' /\ UsersCounted' /\ LocksHeld' /\ DeinitOrder'
  <2>1. Cardinality(Active)' = Cardinality(Active) + 1 /\ Move(u, "admitted") /\ users' = users + 1
    BY <1>0, <1>2, ActiveMoved DEF Admitted, UserSteps
  <2>2. UsersCounted' /\ Rest'
    BY <1>0, <1>2, <2>1 DEF UsersCounted, Admitted, Move, NtpTypeOK
  <2>3. LocksHeld' /\ DeinitOrder'
    BY <1>0, <1>2 DEF LocksHeld, DeinitOrder, Admitted, Move, NtpTypeOK
  <2> QED BY <2>2, <2>3
<1>3. ASSUME LockOperation(u) PROVE Rest' /\ UsersCounted' /\ LocksHeld' /\ DeinitOrder'
  <2>1. Cardinality(Active)' = Cardinality(Active) /\ Move(u, "inside") /\ users' = users
    BY <1>0, <1>3, ActiveMoved DEF LockOperation, UserSteps
  <2>2. UsersCounted' /\ Rest'
    BY <1>0, <1>3, <2>1 DEF UsersCounted, LockOperation, Move, NtpTypeOK
  <2>3. LocksHeld'
    BY <1>0, <1>3, NtpAssumption DEF LocksHeld, LockOperation, Move, NtpTypeOK
  <2>4. DeinitOrder'
    BY <1>0, <1>3, <1>u DEF DeinitOrder, LockOperation, UserSteps, NtpTypeOK
  <2> QED BY <2>2, <2>3, <2>4
<1>4. ASSUME Sync(u) \/ NoSync(u) PROVE Rest' /\ UsersCounted' /\ LocksHeld' /\ DeinitOrder'
  <2>0. /\ upc[u] = "inside" /\ Move(u, "finished")
        /\ UNCHANGED <<ntp, users, admission, operation, idleSem, deinit>>
    BY <1>4 DEF Sync, NoSync
  <2>1. Cardinality(Active)' = Cardinality(Active)
    BY <1>0, <2>0, ActiveMoved DEF UserSteps
  <2>2. UsersCounted' /\ Rest'
    BY <1>0, <2>0, <2>1 DEF UsersCounted, Move, NtpTypeOK
  <2>3. LocksHeld' /\ DeinitOrder'
    BY <1>0, <2>0 DEF LocksHeld, DeinitOrder, Move, NtpTypeOK
  <2> QED BY <2>2, <2>3
<1>5. ASSUME UnlockOperation(u) PROVE Rest' /\ UsersCounted' /\ LocksHeld' /\ DeinitOrder'
  <2>1. Cardinality(Active)' = Cardinality(Active) /\ Move(u, "leaving") /\ users' = users
    BY <1>0, <1>5, ActiveMoved DEF UnlockOperation, UserSteps
  <2>2. UsersCounted' /\ Rest'
    BY <1>0, <1>5, <2>1 DEF UsersCounted, UnlockOperation, Move, NtpTypeOK
  <2>3. LocksHeld'
    BY <1>0, <1>5, NtpAssumption DEF LocksHeld, UnlockOperation, Move, NtpTypeOK
  <2>4. DeinitOrder'
    BY <1>0, <1>5, <1>u DEF DeinitOrder, UnlockOperation, UserSteps, NtpTypeOK
  <2> QED BY <2>2, <2>3, <2>4
<1>6. ASSUME Depart(u) PROVE Rest' /\ UsersCounted' /\ LocksHeld' /\ DeinitOrder'
  <2>0. deinit \in {"none", "waiting"} /\ users > 0 /\ idleSem = 0
    BY <1>6, <1>u DEF Depart, UserSteps
  <2>1. Cardinality(Active)' = Cardinality(Active) - 1 /\ Move(u, "posted") /\ users' = users - 1
    BY <1>0, <1>6, ActiveMoved DEF Depart, UserSteps
  <2>2. UsersCounted' /\ Rest'
    BY <1>0, <1>6, <2>0, <2>1 DEF UsersCounted, Depart, Move, NtpTypeOK
  <2>3. LocksHeld'
    BY <1>0, <1>6, NtpAssumption DEF LocksHeld, Depart, Move, NtpTypeOK
  <2>4. DeinitOrder'
    BY <1>0, <1>6, <2>0 DEF DeinitOrder, Depart, NtpTypeOK
  <2> QED BY <2>2, <2>3, <2>4
<1>7. ASSUME UnlockAdmission(u) PROVE Rest' /\ UsersCounted' /\ LocksHeld' /\ DeinitOrder'
  <2>1. Cardinality(Active)' = Cardinality(Active) /\ Move(u, "idle") /\ users' = users
    BY <1>0, <1>7, ActiveMoved DEF UnlockAdmission, UserSteps
  <2>2. UsersCounted' /\ Rest'
    BY <1>0, <1>7, <2>1 DEF UsersCounted, UnlockAdmission, Move, NtpTypeOK
  <2>3. LocksHeld'
    BY <1>0, <1>7, NtpAssumption DEF LocksHeld, UnlockAdmission, Move, NtpTypeOK
  <2>4. DeinitOrder'
    BY <1>0, <1>7 DEF DeinitOrder, UnlockAdmission, NtpTypeOK
  <2> QED BY <2>2, <2>3, <2>4
<1> QED BY <1>2, <1>3, <1>4, <1>5, <1>6, <1>7 DEF UserStep

(* actrust_ntp_deinit: it goes on when the last user has counted itself    *)
(* out, and frees nothing that somebody still holds.                       *)
LEMMA NtpNext ==
  ASSUME NtpInv, (\E u \in Users : UserStep(u)) \/ DeinitStep \/ UNCHANGED ntpVars
  PROVE  NtpInv'
<1>0. NtpTypeOK /\ UsersCounted /\ LocksHeld /\ DeinitOrder
  BY DEF NtpInv
<1>1. ClockOK'
  BY <1>0, ClockNext
<1>2. ASSUME NEW u \in Users, UserStep(u) PROVE NtpInv'
  BY <1>1, <1>2, NtpUser
<1>3. ASSUME DeinitStep \/ UNCHANGED ntpVars PROVE NtpInv'
  <2>1. UNCHANGED <<users, admission, operation, upc>>
    BY <1>3 DEF DeinitStep, DeinitClose, DeinitIdle, DeinitDestroy, ntpVars
  <2>2. UsersCounted' /\ LocksHeld'
    BY <1>0, <2>1 DEF UsersCounted, LocksHeld, Active
  <2>3. DeinitOrder' /\ NtpTypeOK'
    <3>1. /\ ntp' \in {"open", "closing", "freed", "stuck"} /\ idleSem' \in Nat
          /\ deinit' \in {"none", "waiting", "destroying", "done"} /\ DeinitOrder'
      BY <1>0, <1>3 DEF DeinitStep, DeinitClose, DeinitIdle, DeinitDestroy, ntpVars,
         DeinitOrder, NtpTypeOK
    <3> QED BY <1>0, <1>1, <2>1, <3>1 DEF NtpTypeOK, ClockOK
  <2> QED BY <2>2, <2>3 DEF NtpInv
<1> QED BY <1>2, <1>3

-----------------------------------------------------------------------------
(* Both invariants hold in every reachable state.                          *)
LEMMA HelpersAlways == Spec => [](QueueInv /\ NtpInv)
<1>1. Init => QueueInv /\ NtpInv
  BY QueueStart, NtpStart DEF Init
<1>2. QueueInv /\ NtpInv /\ [Next]_vars => (QueueInv /\ NtpInv)'
  <2> SUFFICES ASSUME QueueInv, NtpInv, [Next]_vars PROVE QueueInv' /\ NtpInv'
    OBVIOUS
  <2>1. (\E t \in Threads : QueueStep(t)) \/ CloserStep \/ UNCHANGED queueVars
    BY DEF Next, vars
  <2>2. (\E u \in Users : UserStep(u)) \/ DeinitStep \/ UNCHANGED ntpVars
    BY DEF Next, vars
  <2> QED BY <2>1, <2>2, QueueNext, NtpNext
<1> QED BY <1>1, <1>2, PTL DEF Spec

(* Indices, token counts and sizes of the bounded queue stay in range, and *)
(* a clock offset in use is within the limit of ntp_offset_is_acceptable.  *)
THEOREM HelpersTypeCorrect == Spec => []TypeOK
<1>1. QueueInv /\ NtpInv => TypeOK
  BY DEF QueueInv, NtpInv, TypeOK
<1> QED BY <1>1, HelpersAlways, PTL

(* For every capacity and any number of pushing and popping threads the    *)
(* bounded queue hands each message out once and in order, and while it is *)
(* open its tokens match its slots.                                        *)
THEOREM BoundedQueueSound == Spec => []QueueSound
<1>1. QueueInv => QueueSound
  BY DEF QueueInv
<1> QED BY <1>1, HelpersAlways, PTL

(* actrust_queue_destroy and actrust_ntp_deinit free nothing a thread is   *)
(* still inside of, whatever calls were in progress when they began.       *)
THEOREM HelpersFreedQuiet == Spec => []FreedOnlyQuiet
<1>1. QueueInv /\ NtpInv => FreedOnlyQuiet
  <2> SUFFICES ASSUME QueueInv, NtpInv PROVE FreedOnlyQuiet
    OBVIOUS
  <2>1. ASSUME qstate = "FREED", NEW t \in Threads PROVE qpc[t] = "idle"
    <3>1. closer = "done" /\ owner = NoThread
      BY <2>1 DEF QueueInv, CloseOrder
    <3>2. qpc[t] \notin CallSteps
      BY <3>1, CallBeforeDestroy
    <3>3. qpc[t] # "unlock"
      BY <3>1, QueueAssumption DEF QueueInv, LockHeld, Threads
    <3> QED BY <3>2, <3>3 DEF QueueInv, QueueTypeOK, CallSteps
  <2>2. ASSUME ntp = "freed", NEW u \in Users PROVE upc[u] = "idle"
    <3>0. NtpTypeOK /\ UsersCounted /\ LocksHeld /\ DeinitOrder
      BY DEF NtpInv
    <3>1. users = 0 /\ operation = NoUser /\ admission = NoUser
      BY <2>2, <3>0 DEF DeinitOrder, NtpTypeOK
    <3>2. IsFiniteSet(Active)
      BY NtpAssumption, FS_Subset DEF Active
    <3>3. Active = {}
      BY <3>0, <3>1, <3>2, FS_EmptySet DEF UsersCounted
    <3>4. upc[u] \notin UserSteps /\ upc[u] # "posted"
      BY <3>0, <3>1, <3>3, NtpAssumption DEF Active, LocksHeld
    <3> QED BY <3>0, <3>4 DEF NtpTypeOK, UserSteps
  <2> QED BY <2>1, <2>2 DEF FreedOnlyQuiet
<1> QED BY <1>1, HelpersAlways, PTL
=============================================================================
