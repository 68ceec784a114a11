\* As the fixture of test/server.cpp: run() in a thread of its own, stop() and the
\* destructor in another.
CONSTANTS
  c1 = c1
  None = None
  Conns = {c1}
  Fds <- OneFd
  KeyIsFd = TRUE
  PeersClose = FALSE
  Faults = FALSE
  MaxCloses = 0
  Workers = 1
  MaxWork = 0
  Cares <- TestCares
SPECIFICATION StopSpec
INVARIANT
  NoMisuse
\* The server may have been destroyed.
CHECK_DEADLOCK FALSE
