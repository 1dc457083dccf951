SPECIFICATION Spec
CONSTANTS
  MaxConns = 3
  MaxBreaks = 1
  MaxRequests = 2
  MaxClicks = 1
  MaxAnswers = 1
  MaxRestarts = 1
INVARIANTS
  TypeOK
  ExecutedInOrderOnce
  DeliveredInOrderOnce
  ProcessorSurvives
  DeliveryInvariant
  RequestInvariant
PROPERTIES
  ImplementsStream
CHECK_DEADLOCK FALSE
