----------------------------- MODULE JobChannel -----------------------------
(***************************************************************************)
(* What the job queue between the public API and Core-Service promises     *)
(* (core_job.h, "FIFO queue carrying Job pointers from API to Service"):   *)
(* a bounded FIFO of distinct jobs that stops accepting once closed and    *)
(* may be torn down only when it is closed and empty.                      *)
(***************************************************************************)
EXTENDS Naturals, Sequences

CONSTANTS Jobs,   \* the pre-allocated job objects
          Depth   \* the capacity of the queue

VARIABLES fifo,   \* the accepted jobs, oldest first
          shut,   \* no further job is accepted
          gone    \* the queue's resources have been released

cvars == <<fifo, shut, gone>>

ChannelInit == fifo = <<>> /\ shut = FALSE /\ gone = FALSE

(* A job that is not already waiting is accepted at the back.              *)
Accept(j) ==
  /\ ~shut /\ ~gone
  /\ Len(fifo) < Depth
  /\ \A i \in 1..Len(fifo) : fifo[i] # j
  /\ fifo' = Append(fifo, j)
  /\ UNCHANGED <<shut, gone>>

(* The oldest job, and only that one, leaves.                              *)
Deliver ==
  /\ ~gone
  /\ fifo # <<>>
  /\ fifo' = Tail(fifo)
  /\ UNCHANGED <<shut, gone>>

Shut == ~shut /\ shut' = TRUE /\ UNCHANGED <<fifo, gone>>

Dismantle ==
  /\ shut /\ ~gone
  /\ fifo = <<>>
  /\ gone' = TRUE
  /\ UNCHANGED <<fifo, shut>>

ChannelNext == (\E j \in Jobs : Accept(j)) \/ Deliver \/ Shut \/ Dismantle

ChannelSpec == ChannelInit /\ [][ChannelNext]_cvars
=============================================================================
