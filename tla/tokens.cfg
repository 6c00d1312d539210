SPECIFICATION Spec
CONSTANTS
  k1 = k1 k2 = k2 k3 = k3 r1 = r1 r2 = r2
  Keys = {k1, k2, k3}
  Subjects <- MCSubjects
  Stripped <- MCStripped
  Blank = " "
  Tokens <- MCTokens
  Requests = {r1, r2}
  MaxCachedKeys = 2
  Lifespan = 0
  LastTick = 1
  MaxRotations = 1
INVARIANTS RotationLocksNobodyOut WithdrawnKeysStayOut
SYMMETRY Symmetry
