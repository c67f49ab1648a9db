\* Two downloads of one name; one is removed with its file while it moves.
SPECIFICATION Spec
CONSTANTS
  Url = Url
  Ids = {r1, r2}
  Stem <- OwnStem
  MaxNumber = 3
  MaxDepth = 2
PROPERTY
  PurgeTakesOwnFile
