\* Data arrives between the two callbacks of a split write.
CONSTANTS
  a = a
  b = b
  Requested = 4
  DefaultCapacity = 8
  W32 = 8
  Bytes <- MCBytes
  Zero = a
  Junk = Junk
  Initial <- NoData
  Inputs <- MCInputs
  MultiDelims <- MCMultiDelims
  SteadySource = FALSE
  MaxIndex = 8
SPECIFICATION Spec
PROPERTY
  SplitWriteIsContiguous
