SPECIFICATION Spec
CONSTANTS
  Node = {n1, n2}
  Agent = {a1}
  Source = {s1, s2}
  Message = {m1, m2}
  MaxTries = 2
  None = None
SYMMETRY Symmetric
INVARIANTS LocalAddresseeServed
CHECK_DEADLOCK FALSE
