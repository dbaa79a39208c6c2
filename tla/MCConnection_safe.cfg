SPECIFICATION Spec
CONSTANTS
  c1 = c1
  c2 = c2
  c3 = c3
  Conns = {c1, c2, c3}
  LISTEN = LISTEN
  RespLen = 1
  RcvCap = 1
  SndCap = 1
  MAX_IO_EVENTS = 1
  SIZE_MAX = 3
  Pipelining = TRUE
  Faults = {"accept", "malloc", "epoll_ctl", "sigpipe"}
CONSTRAINT OneIdle
SYMMETRY ConnSymmetry
INVARIANTS TypeOK ConnInv ConnectionsWatched  NoLostWakeup
CHECK_DEADLOCK FALSE
