SPECIFICATION EbppsOnly
CONSTANTS
  Sketch = {s1, s2}
  Item = {1, 2}
  K = {2, 3}
  M = 2
  NoView = NoView
  NoItem = NoItem
  MAX_HELD = 7
  MAX_N = 8
SYMMETRY Symmetry
INVARIANT PresenceProportional
