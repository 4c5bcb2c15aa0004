--------------------------- MODULE MCHelperTasks ---------------------------
(* HelperTasks for TLC.                                                    *)
EXTENDS HelperTasks

OffsetValues == {-2, 1}
=============================================================================
