SPECIFICATION FairSpec
CONSTANTS
  NumChannels = 2
  Fds = {3, 4}
  Says <- MCSays
  HangsUp = {1}
  Garbled = {1}
  MaxSends = 1
INVARIANT MessagesComeWhole
INVARIANT ShutdownIsLast
INVARIANT EndedChannelsAreForgotten
PROPERTY SendsAreWritten
PROPERTY ShutdownEnds
CHECK_DEADLOCK FALSE
