SPECIFICATION MCSpec
CONSTANTS
  Programs = {"heap", "derivative", "painted", "bin_search", "max_array", "find_div", "multiset"}
  Elements = {1, 2, 3}
  SizeT = 16
  MaxSize = 6
  Coefs = {3}
  Exps = {1, 2, 3, 11}
  MaxTerms = 3
  Coordinates = {0, 1, 2, 3}
  MaxSegments = 3
  Values <- SmallIntegers
  MaxLength = 5
  MaxNumber = 200
  BagValues = {1, 2, 3}
  BagSize = 4
INVARIANTS HeapInv DerivesTerms MeasuresPaint PlacesAreBest CollectionsAreExact
PROPERTIES ImplementsQueue CallReturns
CHECK_DEADLOCK FALSE
