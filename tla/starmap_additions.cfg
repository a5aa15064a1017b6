SPECIFICATION Spec
CONSTANTS
  N = 2
  n1 = n1
  n2 = n2
  e1 = e1
  Objs = {n1, n2}
  Existing = {n1}
  Kind <- KindOf
  MaxEvents = 3
CHECK_DEADLOCK FALSE
INVARIANT
  AdditionsKept
