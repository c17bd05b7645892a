SPECIFICATION Spec
CONSTANTS
  alice = alice
  bob = bob
  r1 = r1
  r2 = r2
  s1 = s1
  s2 = s2
  User = {alice, bob}
  Repo = {r1, r2}
  Spindle = {s1, s2}
  RepoOwner <- Owners
  SpindleOwner = alice
  MayPush <- Pushers
  KnotUser = {alice, bob}
  Push <- Pushes
  Engine = {"nixery"}
  Outcome = {"success"}
  None = None
  QueueSize = 1
  MaxOps = 3
  MaxStatus = 4
  MaxSecond = 1
SYMMETRY Spindles
INVARIANTS
  
  ShownIsLatest
  PushAnswered
  
CHECK_DEADLOCK FALSE
