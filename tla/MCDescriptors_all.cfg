\* Callers that keep every rule.
CONSTANTS
  s1 = s1
  s2 = s2
  s3 = s3
  Nobody = Nobody
  Objects <- MCObjects
  Fds <- MCFds
  Breaches = {}
SYMMETRY Symmetry
SPECIFICATION Spec
INVARIANTS
  TypeOK
  OwnsItsDescriptor
  NoDescriptorLeak
  FreshBuffer
