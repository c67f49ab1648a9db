\* Two downloads of one name whose URLs differ in the query only.
SPECIFICATION Spec
CONSTANTS
  Url = Url
  Ids = {r1, r2}
  Stem <- OneStem
  MaxNumber = 3
  MaxDepth = 2
INVARIANT
  DeliveredIsOwn
