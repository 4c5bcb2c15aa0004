----------------------------- MODULE NtpClient -----------------------------
(***************************************************************************)
(* The NTP client (ntp.c): sync and the two getters are admitted under     *)
(* admission_lock, serialised by operation_lock, and counted, so that      *)
(* actrust_ntp_deinit can wait for the last of them.                       *)
(***************************************************************************)
EXTENDS Integers, FiniteSets

CONSTANTS Users,     \* the threads that use the handle
          Offsets,   \* the clock offsets a server may answer
          MaxOffset, \* CONFIG_ACTRUST_NTP_MAX_OFFSET_MS, 0 for no limit
          NoUser

ASSUME NtpAssumption ==
  IsFiniteSet(Users) /\ NoUser \notin Users /\ Offsets \subseteq Int /\ MaxOffset \in Nat

VARIABLES
  ntp,                  \* "open", "closing", "freed", or "stuck" for a failed deinit
  users,                \* active_users
  admission, operation, \* the holders of the two locks
  idleSem,              \* the count of idle_sem
  synced, offset,       \* synced, last_offset_ms
  upc,                  \* the users' positions
  deinit                \* the position of actrust_ntp_deinit

ntpVars == <<ntp, users, admission, operation, idleSem, synced, offset, upc, deinit>>

NtpInit ==
  /\ ntp = "open" /\ users = 0 /\ admission = NoUser /\ operation = NoUser /\ idleSem = 0
  /\ synced = FALSE /\ offset = 0
  /\ upc = [u \in Users |-> "idle"] /\ deinit = "none"

Move(u, l) == upc' = [upc EXCEPT ![u] = l]

(* ntp_operation_acquire; a closing client refuses.                        *)
Admitted(u) ==
  /\ upc[u] = "idle" /\ ntp = "open" /\ admission = NoUser
  /\ users' = users + 1
  /\ Move(u, "admitted")
  /\ UNCHANGED <<ntp, admission, operation, idleSem, synced, offset, deinit>>

LockOperation(u) ==
  /\ upc[u] = "admitted" /\ operation = NoUser
  /\ operation' = u
  /\ Move(u, "inside")
  /\ UNCHANGED <<ntp, users, admission, idleSem, synced, offset, deinit>>

(* ntp_offset_is_acceptable.                                               *)
AcceptableAbove(o) == MaxOffset = 0 \/ o <= MaxOffset   \* mutation: one side only
Acceptable(o) == MaxOffset = 0 \/ (o >= -MaxOffset /\ o <= MaxOffset)

(* The body of actrust_ntp_sync: an acceptable answer is committed.        *)
Sync(u) ==
  /\ upc[u] = "inside"
  /\ \E o \in Offsets : Acceptable(o) /\ synced' = TRUE /\ offset' = o
  /\ Move(u, "finished")
  /\ UNCHANGED <<ntp, users, admission, operation, idleSem, deinit>>

(* A sync that fails on the way, and the getters, change nothing.          *)
NoSync(u) ==
  /\ upc[u] = "inside"
  /\ Move(u, "finished")
  /\ UNCHANGED <<ntp, users, admission, operation, idleSem, synced, offset, deinit>>

(* ntp_operation_release: the last user posts idle_sem, and only then      *)
(* gives admission_lock up.                                                *)
UnlockOperation(u) ==
  /\ upc[u] = "finished"
  /\ operation' = NoUser
  /\ Move(u, "leaving")
  /\ UNCHANGED <<ntp, users, admission, idleSem, synced, offset, deinit>>

DepartSilently(u) ==   \* mutation: idle_sem is not posted
  /\ upc[u] = "leaving" /\ admission = NoUser
  /\ admission' = u /\ users' = users - 1
  /\ Move(u, "posted")
  /\ UNCHANGED <<ntp, operation, idleSem, synced, offset, deinit>>
Depart(u) ==
  /\ upc[u] = "leaving" /\ admission = NoUser
  /\ admission' = u /\ users' = users - 1
  /\ idleSem' = IF ntp = "closing" /\ users = 1 THEN idleSem + 1 ELSE idleSem
  /\ Move(u, "posted")
  /\ UNCHANGED <<ntp, operation, synced, offset, deinit>>

UnlockAdmission(u) ==
  /\ upc[u] = "posted"
  /\ admission' = NoUser
  /\ Move(u, "idle")
  /\ UNCHANGED <<ntp, users, operation, idleSem, synced, offset, deinit>>

(* actrust_ntp_deinit.                                                     *)
DeinitClose ==
  /\ deinit = "none" /\ ntp = "open" /\ admission = NoUser
  /\ ntp' = "closing"
  /\ deinit' = IF users > 0 THEN "waiting" ELSE "destroying"
  /\ UNCHANGED <<users, admission, operation, idleSem, synced, offset, upc>>

DeinitIdle ==
  /\ deinit = "waiting" /\ idleSem > 0
  /\ idleSem' = idleSem - 1 /\ deinit' = "destroying"
  /\ UNCHANGED <<ntp, users, admission, operation, synced, offset, upc>>

(* A lock that is held cannot be destroyed: deinit fails, and a second one *)
(* is refused because closing stays set.                                   *)
DeinitDestroy ==
  /\ deinit = "destroying"
  /\ ntp' = IF operation = NoUser /\ admission = NoUser THEN "freed" ELSE "stuck"
  /\ deinit' = "done"
  /\ UNCHANGED <<users, admission, operation, idleSem, synced, offset, upc>>

UserStep(u) ==
  \/ Admitted(u) \/ LockOperation(u) \/ Sync(u) \/ NoSync(u) \/ UnlockOperation(u)
  \/ Depart(u) \/ UnlockAdmission(u)
DeinitStep == DeinitClose \/ DeinitIdle \/ DeinitDestroy

-----------------------------------------------------------------------------
(* The shape of the client's state; an offset that is used has passed      *)
(* ntp_offset_is_acceptable.                                               *)
NtpTypeOK ==
  /\ ntp \in {"open", "closing", "freed", "stuck"} /\ users \in Nat /\ idleSem \in Nat
  /\ {admission, operation} \subseteq Users \cup {NoUser}
  /\ synced \in BOOLEAN /\ offset \in Int
  /\ synced /\ MaxOffset > 0 => offset \in -MaxOffset..MaxOffset
  /\ upc \in [Users -> {"idle", "admitted", "inside", "finished", "leaving", "posted"}]
  /\ deinit \in {"none", "waiting", "destroying", "done"}
=============================================================================
