SPECIFICATION Spec
CONSTANTS
  LookAlikes <- MCLookAlikes
  MaxPlusPlusKeySize = 2
  FieldTags <- MCFieldTags
  AnyTerm <- MCAnyTerm
  Asked <- MCAsked
  RawTexts <- MCRawTexts
  Zgrams <- MCZgrams
  NearMargin = 3
  IdModulus = 100000
INVARIANT QueryMeansWhatItSays
INVARIANT LiterallyFindsItself
CHECK_DEADLOCK FALSE
