CONSTANTS
  r1 = r1
  r2 = r2
  r3 = r3
  Request = {r1, r2}
  Block = {b1, b2}
  BlocksPerRequest = 1
  NoRequest = NoRequest
  QueueLimit = 2
  Stream = {r1}
  StreamSteps <- OneStream
  ProofTokens = 2
  MayLeave = {r1}
  DecodeMayHang = TRUE
SPECIFICATION FairSpec
INVARIANT
  LeaseCoversDecode
CHECK_DEADLOCK FALSE
