CONSTANTS
  RingSlots = 4
  MaxChain = 3
  MaxPublications = 3
SPECIFICATION FairSpec
INVARIANTS
  TypeOK
  AnnouncedComplete
  ChainVisibleWithFirstHeader
PROPERTIES
  ImplementsFairStream
CHECK_DEADLOCK FALSE
