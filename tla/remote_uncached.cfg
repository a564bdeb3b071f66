SPECIFICATION Spec
CONSTANTS
  r1 = r1
  r2 = r2
  r3 = r3
  s1 = s1
  s2 = s2
  h1 = h1
  h2 = h2
  None = None
  Torn = Torn
  Large = Large
  Requests = {r1, r2, r3}
  MaxAttempts = 2
  Calls <- AllAttempts
  Rpc <- Uncached
  Keys = {s1, s2}
  Models = {Large}
  Hashes = {h1, h2}
  Roles = {"Executor"}
  Bodies <- AllBodies
  BodySize <- SameSize
  MaxRam = 2
  MaxTime = 0
  Faults = {}
  ServerFaults = {}
  NetFaults = {}
INVARIANTS NoForeignContext
