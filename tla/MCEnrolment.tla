---------------------------- MODULE MCEnrolment ----------------------------
(* Enrolment for TLC; MCEnrolment.cfg gives the bounds. *)
EXTENDS Enrolment
=============================================================================
