\* There are descriptors for all, peers close, and nobody calls close_connection.
CONSTANTS
  c1 = c1
  c2 = c2
  c3 = c3
  None = None
  Conns = {c1, c2, c3}
  Fds <- ThreeFds
  KeyIsFd = TRUE
  PeersClose = TRUE
  Faults = FALSE
  MaxCloses = 0
  Workers = 1
SPECIFICATION FairSpec
PROPERTY
  EveryPeerServed
\* All connections may have come and gone.
CHECK_DEADLOCK FALSE
