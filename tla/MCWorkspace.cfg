CONSTANTS
  p1 = p1
  p2 = p2
  x = x
  y = y
  Salt = {"s0", "s1"}
  Model = {"m0", "m1", "m2"}
  Provider = {"local-hash", "other"}
  NoSalt = "s0"
  DefaultModel = "m0"
  LocalHash = "local-hash"
  Key = Key
  Unset = Unset
  Empty = Empty
  Null = Null
  Invalid = Invalid
  Proc <- TwoProcs
  Name = {x, y}
  Path = {"repo"}
  Local <- MCLocal
  Env <- MCEnv
  Project <- MCProject
  MaxCommands = 3
  MaxEdits = 1
  MaxFaults = 1
SPECIFICATION Spec
SYMMETRY Symmetry
INVARIANTS TypeOK SavesAreTruthful PathsAreRegisteredOnce ReplayIsExact
CHECK_DEADLOCK FALSE
