\* Two downloads that want the name and the scratch pair of each other, and perhaps
\* the name of a file that is there already.
SPECIFICATION Spec
CONSTANTS
  Url = Url
  Ids = {r1, r2}
  Stem <- OneStem
  MaxNumber = 3
  MaxDepth = 2
SYMMETRY RowSymmetry
INVARIANT
  TypeOK
PROPERTIES
  UsersFilesStay
  OverwriteNeedsARace
