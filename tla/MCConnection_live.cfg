SPECIFICATION FinishingSpec
CONSTANTS
  c1 = c1
  c2 = c2
  Conns = {c1, c2}
  LISTEN = LISTEN
  RespLen = 2
  RcvCap = 2
  SndCap = 1
  MAX_IO_EVENTS = 3
  SIZE_MAX = 7
  Pipelining = FALSE
  Faults = {}
PROPERTIES IdleConnectionsClosed RequestsAnswered
