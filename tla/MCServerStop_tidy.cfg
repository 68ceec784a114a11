\* Applications that call close_connection once for each connection that has seen
\* its peer close, and take the one or the other care.
CONSTANTS
  c1 = c1
  c2 = c2
  c3 = c3
  None = None
  Conns = {c1, c2, c3}
  Fds <- TwoFds
  KeyIsFd = TRUE
  PeersClose = TRUE
  Faults = TRUE
  MaxCloses = 1
  Workers = 2
  MaxWork = 1
  Cares <- TidyCares
SPECIFICATION FairStop
INVARIANTS
  StopTypeOK
  OwnsItsDescriptor
  NoDescriptorLeak
  NoMisuseWithCare
  NothingDeadIsUsed
  NothingOutlives
PROPERTIES
  OnlyClosedAreRemovedWhileUp
  ClosedIsRemoved
  StopEnds
\* The server may have been destroyed.
CHECK_DEADLOCK FALSE
