SPECIFICATION FairSpec
CONSTANTS
  End = End
  Undefined = Undefined
  PageSize = 2
  QueryMargin = 2
  InitialQuerySize = 2
  ButtonSizes = {1, 3}
  MaxSafeInteger = 100
  MaxStored = 3
  MaxZgrams = 4
  MaxResets = 1
  MaxFailures = 1
INVARIANT ShownInOrder
INVARIANT NothingMissing
INVARIANT EstimatesAreTrue
PROPERTY EventuallyServed
CHECK_DEADLOCK FALSE
