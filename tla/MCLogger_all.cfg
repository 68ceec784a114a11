\* From the first call of get() on.
CONSTANTS
  t1 = t1
  t2 = t2
  None = None
  Threads = {t1, t2}
  Limit = 2
  MaxCalls = 2
SPECIFICATION FairSpec
INVARIANTS
  TypeOK
  CreatedInFirstCall
  WrittenAsLogged
PROPERTIES
  ImplementsBoundedLog
  EveryCallReturns
\* All calls may have been made.
CHECK_DEADLOCK FALSE
