SPECIFICATION Spec
CONSTANTS
  Messages <- AllMessages
  MAX_HEADERS = 3
  MAX_BODY = 8
  READ_CHUNK = 6
  INT_MAX = 127
  LONG_MAX = 1023
  MaxRequests = 2
  Faults = {"realloc", "db"}
INVARIANTS TypeOK RequestInv  AnsweredWhenComplete AnswersWhatWasAsked
CHECK_DEADLOCK FALSE
