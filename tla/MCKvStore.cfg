SPECIFICATION Spec
CONSTANTS
  Keys = {k1, k2, k3}
  Vals = {v1, v2}
  Records = 2
  MaxGen = 4
  NoVal = NoVal
  NoCall = NoCall
SYMMETRY KeyValSymmetry
INVARIANTS TypeOK NeverBricked RecoveredConsistent
PROPERTY IsAtomicMap
