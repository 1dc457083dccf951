SPECIFICATION Spec
CONSTANTS
  User = 1
  Query = {1, 2}
  PageSize = 2
  WordsOf <- MCWordsOf
  MentionsOf <- MCMentionsOf
  Drafts <- MCDrafts
  Batches <- MCBatches
  Graffiti = {}
  NumShards = 1
  FlushThreshold = 3
  CacheCapacity = 1
  MaxZgrams = 2
  MaxMetadata = 2
  MaxBuilds = 1
  MaxDays = 0
  MaxLookups = 1
  Browsers = {b1, b2}
  FilterNames = {f1}
  MaxTime = 3
  MaxProposals = 3
  MaxInterruptions = 2
INVARIANTS PageShowsTheMetadata PageShowsTheCounts FiltersAgree
CHECK_DEADLOCK FALSE
