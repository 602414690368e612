CONSTANTS
  r1 = r1
  r2 = r2
  r3 = r3
  Request = {r1, r2, r3}
  Block = {b1, b2, b3, b4}
  BlocksPerRequest = 2
  NoRequest = NoRequest
  QueueLimit = 3
  Stream = {r1, r3}
  StreamSteps <- MixedSteps
  ProofTokens = 2
  MayLeave = {r1}
  DecodeMayHang = FALSE
SPECIFICATION Spec
SYMMETRY BlockSymmetry
INVARIANTS
  TypeOK
  LeaseExclusive
  OwnershipCheckPasses
  StepIsolated
  ResultIsFinal
  QueuedExact
  ResultReadyAtStreamEnd
PROPERTY
  ImplementsService
CHECK_DEADLOCK FALSE
