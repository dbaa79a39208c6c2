SPECIFICATION FairSpec
CONSTANTS
  m1 = m1
  m2 = m2
  NumWorkers = 2
  Monitors = {m1, m2}
  FdRoom = 1
  MaxStarts = 2
  Faults = {"open_db", "setup_ipc", "listen", "start_worker", "pthread_create", "pselect", "sigpipe"}
INVARIANTS TypeOK CaskInv StatusTruthful WalkSafe SocketRemoved
PROPERTIES ShutdownEnds MonitorsServed
CHECK_DEADLOCK FALSE
