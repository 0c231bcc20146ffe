SPECIFICATION MCSpec
CONSTANTS
  Item = {i1, i2, i3}
  Sketch = {s1, s2}
  MapSizes = {2, 4}
  LOAD_NUM = 1
  LOAD_DEN = 2
  MAX_SAMPLE_SIZE = 2
  MaxWeight = 6
  CMSketch = {c1, c2}
  Counted = {0, 1, 2, 3}
  EmptyString = 0
  CMConfig <- MCConfig
  BucketOf <- MCBucketOf
  SeedHash <- MCSeedHash
  CountedWeight <- MCWeight
  MaxCounted = 4
SYMMETRY Symmetry
INVARIANTS
  TypesOK
  BoundsBracketTruth
  ErrorWithinShare
  TotalWeightExact
  FrequentItemsSound
  EstimatesBracketTruth
  TableSound
PROPERTIES
  RestoresFaithful
  ImplementsFrequentItems
