SPECIFICATION Spec
CONSTANTS
  NULL = NULL
  Ids = {s1, s2, s3}
  Archives = {a1, a2}
  Kinds <- Files
  MaxHeld = 2
  MaxOpens = 1
SYMMETRY Symmetry
INVARIANTS
  NoDanglingSource
  RefcountIsAccurate
  NoOpenIsForgotten
  CallingConventions
