------------------------------ MODULE MCKvStore ------------------------------
(* KvStore for TLC.  Keys and values are interchangeable.                  *)
EXTENDS KvStore, TLC

KeyValSymmetry == Permutations(Keys) \cup Permutations(Vals)
=============================================================================
