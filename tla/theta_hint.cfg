SPECIFICATION Spec
CONSTANTS
  Hash = {1, 2, 3, 4, 5}
  MAX_THETA = 6
  Sketch = {s1, s2}
  Widths = {1, 2, 4}
  DEFAULT_WIDTH = 2
  MIN_WIDTH = 1
  MAX_WIDTH = 4
SYMMETRY Symmetry
INVARIANT RoundTripUnionsAtWidth
