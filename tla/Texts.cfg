SPECIFICATION Spec
CONSTANTS
  LookAlikes <- MCLookAlikes
  MaxPlusPlusKeySize = 2
  Texts <- MCTexts
  Vocabulary <- MCVocabulary
  Utterances <- MCUtterances
  Probes <- MCProbes
  MaxWords = 2
INVARIANT AcceptsWhatThePatternMeans
INVARIANT TriesHoldTheWords
INVARIANT MatchesAreFoundOnce
INVARIANT TokensAreTheWords
INVARIANT ScanFindsEveryMention
CHECK_DEADLOCK FALSE
