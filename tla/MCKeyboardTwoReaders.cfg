SPECIFICATION Spec
CONSTANTS
  Size = 3
  Readers = {r1, r2}
  MaxKeys = 4
INVARIANT NoByteTwice
