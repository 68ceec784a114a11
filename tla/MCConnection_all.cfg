\* From the handshake to the last request.
CONSTANTS
  ping = ping
  bare = bare
  full1 = full1
  full2 = full2
  lost = lost
  None = None
  Pings <- MCPings
  Bare <- MCBare
  Full <- MCFull
  Known <- MCKnown
  Ways <- AllWays
  Pieces = 5
  MaxInits = 3
SPECIFICATION FairConnection
INVARIANTS
  ConnectionTypeOK
  RoomIsLeft
  HandledInOrder
  HandledAsSent
  KeysAgree
  UndefinedOnlyAfterFailure
  RequestsMeetTheKey
PROPERTIES
  EveryRequestHandled
  EveryRequestAnswered
  SecureHostIsConfirmed
\* The handshake may fail for good, and the peer have nothing left to send.
CHECK_DEADLOCK FALSE
