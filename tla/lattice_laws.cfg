CONSTANTS
  Objects = {o1, o2, o3}
  Kinds = {"max", "min", "and", "or", "union", "intersect", "pair", "array", "vector", "timestamp", "map", "tombstones"}
  MaxInputs = 2
  Numbers = {0, 1, 2, 3}
  Timestamps = {0, 1, 2}
  Strings = {0, 1}
  SetElements = {1, 2}
  MapKeys = {1}
  ArraySize = 2
  VectorSize = 2
SYMMETRY ObjectSymmetry
SPECIFICATION Spec
INVARIANTS LeastUpperBound SameInputsSameValue ComparisonAgrees
