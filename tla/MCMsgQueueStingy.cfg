SPECIFICATION Spec
CONSTANTS
  Ids = {a}
  Consumers = {c1, c2}
  None = none
  MaxLen = 2
SYMMETRY Symmetry
INVARIANTS Stingy
