\* Two threads save whenever they like, and anything fails at any time.
SPECIFICATION Spec
CONSTANTS
  Savers = {s1, s2}
  MaxId = 2
  MaxChanges = 4
CONSTRAINT Calm
SYMMETRY SaverSymmetry
INVARIANTS
  TypeOK
  RemovedStaysRemoved
  IdsAreFresh
PROPERTY
  ImplementsDurableList
