\* Counters run past W32 = 8, so that read_from truncates the read index.
CONSTANTS
  a = a
  b = b
  Requested = 4
  DefaultCapacity = 8
  W32 = 8
  Bytes <- MCBytes
  Zero = a
  Junk = Junk
  Initial <- NoData
  Inputs <- MCInputs
  MultiDelims <- MCMultiDelims
  SteadySource = TRUE
  MaxIndex = 11
SPECIFICATION Spec
INVARIANT
  TypeOK
PROPERTY
  ImplementsByteQueue
