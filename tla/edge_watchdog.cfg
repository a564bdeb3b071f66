SPECIFICATION FairSpec
CONSTANTS
  r1 = r1
  r2 = r2
  r3 = r3
  r4 = r4
  r5 = r5
  p1 = p1
  p2 = p2
  s1 = s1
  m1 = m1
  m2 = m2
  h1 = h1
  h2 = h2
  None = None
  Torn = Torn
  Requests = {r1, r2, r3}
  Task <- OneModel
  Keys = {p1, s1}
  Models = {m1}
  Hashes = {h1, h2}
  Roles = {"Executor"}
  Bodies <- AllBodies
  BodySize <- SameSize
  MaxRam = 1
  MaxTime = 0
  Faults = {"decode", "save_state", "ssd_write"}
  EdgeFaults = {"generate", "eval", "timeout"}
PROPERTY CallersReturn
