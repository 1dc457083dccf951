\* Every query over every sequence of posts, both directions, small chunks.
SPECIFICATION Spec
CONSTANTS
  RelSpace = 100
  BufferCapacity = 2
  ChunkSize = 2
  FieldTags <- MCFieldTags
  AnyTerm = AnyTerm
  None = None
  Texts <- MCTexts
  Queries <- MCQueries
  MaxZgrams = 4
  Counts = {1, 2}
  QueryMargin = 1
INVARIANTS
  ResultsAreTheAnswer
