\* Two threads send three messages; the kernel takes two bytes at a time.
CONSTANTS
  a = a
  b = b
  c = c
  t1 = t1
  t2 = t2
  Nobody = Nobody
  Threads = {t1, t2}
  Messages = {a, b, c}
  Length <- Lengths
  Room = 2
SPECIFICATION FairSpec
INVARIANTS
  TypeOK
  SentIsWhole
PROPERTIES
  ImplementsMessageWire
  EverySendReturns
\* All messages may have been sent.
CHECK_DEADLOCK FALSE
