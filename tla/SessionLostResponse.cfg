SPECIFICATION FairSpec
CONSTANTS
  MaxConns = 3
  MaxBreaks = 1
  MaxRequests = 1
  MaxClicks = 0
  MaxAnswers = 1
  MaxRestarts = 0
PROPERTIES
  ResponsesArrive
CHECK_DEADLOCK FALSE
