SPECIFICATION FairSpec
CONSTANTS
  m1 = m1  m2 = m2  m3 = m3  b1 = b1  b2 = b2
  Migrators = {m1, m2, m3}
  Bridges = {b1, b2}
  Last = 3
  Release <- MCRelease
  Alters <- MCAlters
  MaxFaults = 2
INVARIANTS Contiguous ReadyMeansUsable
PROPERTY NewestGetsReady
