---------------------------- MODULE MCLockOrder ----------------------------
(* LockOrder for TLC; MCLockOrder.cfg names the threads. *)
EXTENDS LockOrder
=============================================================================
