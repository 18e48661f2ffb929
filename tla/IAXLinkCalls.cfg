CONSTANTS
  Sessions = {s1, s2}
  MaxQueue = 1
  CallIds = {c1, c2}
  Reuse = FALSE
SPECIFICATION Spec
SYMMETRY Symmetry
INVARIANTS SessionsOwned EachCallItsSession HeldIsSilent
