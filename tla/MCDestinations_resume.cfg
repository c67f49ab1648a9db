\* One download and a file that has its name.
SPECIFICATION Spec
CONSTANTS
  Url = Url
  Ids = {r1}
  Stem <- OwnStem
  MaxNumber = 3
  MaxDepth = 2
INVARIANT
  ResumeFindsPair
