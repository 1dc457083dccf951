SPECIFICATION Spec
CONSTANTS
  WordsOf <- MCWordsOf
  MentionsOf <- MCMentionsOf
  Drafts <- MCDrafts
  Graffiti <- MCGraffiti
  Offers <- MCOffers
  Batches <- MCBatches
  NumShards = 2
  FlushThreshold = 3
  CacheCapacity = 1
  MaxZgrams = 2
  MaxMetadata = 2
  MaxBuilds = 1
  MaxDays = 1
INVARIANTS MetadataMatchesLog PlusPlusCountsMatch WordsMatchZgrams CacheIsTrue
CHECK_DEADLOCK FALSE
