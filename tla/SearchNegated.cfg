\* And(a, Not(b)) with a buffer that fills before the first b.
SPECIFICATION Spec
CONSTANTS
  RelSpace = 100
  BufferCapacity = 1
  ChunkSize = 2
  FieldTags <- MCFieldTags
  AnyTerm = AnyTerm
  None = None
  Texts <- MCNegatedTexts
  Queries <- MCNegatedQueries
  MaxZgrams = 4
  Counts = {1, 2}
  QueryMargin = 1
INVARIANTS
  ResultsMatch
