SPECIFICATION FairSpec
CONSTANTS
  MaxConns = 4
  MaxBreaks = 2
  MaxRequests = 2
  MaxClicks = 0
  MaxAnswers = 1
  MaxRestarts = 0
PROPERTIES
  EventuallyAttached
  RequestsExecuted
  ResponsesArriveUnlessRaced
CHECK_DEADLOCK FALSE
