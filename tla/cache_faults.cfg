SPECIFICATION Spec
CONSTANTS
  k1 = k1
  k2 = k2
  k3 = k3
  m1 = m1
  m2 = m2
  h1 = h1
  h2 = h2
  b1 = b1
  b2 = b2
  None = None
  Torn = Torn
  Keys = {k1, k2, k3}
  Models = {m1}
  Hashes = {h1}
  Bodies = {b1}
  BodySize <- SameSize
  Roles = {"Critic", "Executor", "Retriever"}
  Uses <- AnyUse
  MaxRam = 2
  MaxTime = 2
  Faults = {"decode", "load_state", "save_state", "ssd_write"}
SYMMETRY Symm
INVARIANTS ClientTypeOK StandbyBounded StandbyHasMetadata HotIsValidated
PROPERTY EvictionRespectsPriority
