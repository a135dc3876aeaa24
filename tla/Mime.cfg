SPECIFICATION FairMimeSpec
CONSTANTS
  Messages <- MCMessages
  Root <- MCRoot
  MaxBounds = 4
  MaxAttach = 2
INVARIANTS ExactlyOnce
PROPERTIES DecodingEnds
CHECK_DEADLOCK FALSE
