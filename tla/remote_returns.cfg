SPECIFICATION FairSpec
CONSTANTS
  r1 = r1
  r2 = r2
  r3 = r3
  s1 = s1
  s2 = s2
  h1 = h1
  h2 = h2
  None = None
  Torn = Torn
  Large = Large
  Requests = {r1}
  MaxAttempts = 3
  Calls <- AllAttempts
  Rpc <- Sessions
  Keys = {s1, s2}
  Models = {Large}
  Hashes = {h1, h2}
  Roles = {"Executor"}
  Bodies <- AllBodies
  BodySize <- SameSize
  MaxRam = 1
  MaxTime = 0
  Faults = {"decode", "save_state"}
  ServerFaults = {"eval", "generate"}
  NetFaults = {"timeout", "disconnect"}
PROPERTY DispatcherReturns
