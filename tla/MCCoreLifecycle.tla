--------------------------- MODULE MCCoreLifecycle ---------------------------
(* CoreLifecycle for TLC.  Application threads are interchangeable.        *)
EXTENDS CoreLifecycle, TLC

AppSymmetry == Permutations(Apps)
=============================================================================
