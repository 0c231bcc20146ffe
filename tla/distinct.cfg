SPECIFICATION MCSpec
CONSTANTS
  Hash = {1, 2, 3}
  MAX_THETA = 4
  Sketch = {s1, s2}
  Widths = {1, 2, 4}
  DEFAULT_WIDTH = 2
  MIN_WIDTH = 1
  MAX_WIDTH = 4
  HllSketch = {s1, s2}
  Coupon <- MCCoupon
  Config <- MCConfig
  LG_INIT_LIST_SIZE = 1
  LG_INIT_SET_SIZE = 1
  MIN_SET_LG_K = 2
  SET_MARGIN = 0
  AUX_TOKEN = 2
  SPLIT = 3
  MAX_VALUE = 4
  Filter = {s1, s2}
  Value = {1, 2}
  Capacity = 3
  DIRTY_BITS_VALUE = 7
  FilterConfig = {1, 2}
  BitsOf <- MCBitsOf
SYMMETRY Symmetry
INVARIANTS
  TypesOK
  SampleExact
  EmptyFlagSound
  UpdateSketchKeepsWidth
  JaccardOneMeansEqual
  StorageWellFormed
  RegistersExact
  SummariesExact
  HipOnlyInOrder
  MergeCommutes
  HllRestored
  CpcExact
  MembersRecognised
PROPERTIES
  MergeKeepsWidth
  ImplementsTheta
