CONSTANTS
  Address = {a1, a2}
  Slot = {p, q}
  Null = Null
  Name = {f, g}
  Eq = eq
  NumVars = {1, 2}
  Coefficient = {2}
  Modulus = 3
  MaxFactors = 2
  MaxProducts = 2
SPECIFICATION Spec
SYMMETRY Symmetry
INVARIANTS TypeOK DenotesHistory LookupExact AuxInfoCovers
CHECK_DEADLOCK FALSE
