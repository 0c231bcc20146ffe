SPECIFICATION FairSpec
CONSTANTS
  Object = {o1, o2}
  Temp = Temp
  Unbound = Unbound
  Idle = Idle
  NA = NA
  Class = {kll, fi, theta}
  Weighted = {fi}
  Freezing = {theta}
  Item = {a}
  Weight <- MCWeight
  Seed = {1, 2}
  DEFAULT_SEED = 1
  PROBE = 1
  MAX_LENGTH = 2
  MAX_SEEN = 2
INVARIANTS
  TypeOK
  SeedsAgree
PROPERTIES
  UpdateAbsorbsPrefix
  FailuresChangeNothing
  CallsReturn
