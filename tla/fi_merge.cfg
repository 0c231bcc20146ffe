SPECIFICATION Spec
CONSTANTS
  Item = {i1, i2, i3, i4}
  Sketch = {s1, s2}
  MapSizes = {2, 4}
  LOAD_NUM = 3
  LOAD_DEN = 4
  MAX_SAMPLE_SIZE = 3
  MaxWeight = 6
INVARIANT UpperBoundGuaranteed
