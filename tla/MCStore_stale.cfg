\* Two threads save, the process may crash at any time.
SPECIFICATION Spec
CONSTANTS
  Savers = {s1, s2}
  MaxId = 1
  MaxChanges = 3
SYMMETRY SaverSymmetry
INVARIANT
  RemovedAreGone
