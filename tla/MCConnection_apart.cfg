\* The server, with header and message in two records.
CONSTANTS
  ping = ping
  bare = bare
  full1 = full1
  full2 = full2
  lost = lost
  None = None
  Pings <- MCPings
  Bare <- MCBare
  Full <- MCFull
  Known <- MCKnown
  Ways <- ApartWays
  Pieces = 5
  MaxInits = 3
SPECIFICATION FairConnection
PROPERTY
  EveryRequestHandled
\* The handshake may fail for good, and the peer have nothing left to send.
CHECK_DEADLOCK FALSE
