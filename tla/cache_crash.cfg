SPECIFICATION Spec
CONSTANTS
  k1 = k1
  k2 = k2
  k3 = k3
  m1 = m1
  m2 = m2
  h1 = h1
  h2 = h2
  b1 = b1
  b2 = b2
  None = None
  Torn = Torn
  Keys = {k1, k2, k3}
  Models = {m1, m2}
  Hashes = {h1, h2}
  Bodies = {b1, b2}
  BodySize <- SameSize
  Roles = {"Executor"}
  Uses <- PrefixUse
  MaxRam = 1
  MaxTime = 0
  Faults = {"decode", "ssd_write", "crash"}
INVARIANTS HotIsLossless ColdIsConsistent
