\* Four blocks, each announcing or ending a feature; reorganisations and stops
\* at every point.
CONSTANTS
  b1 = b1
  b2 = b2
  b3 = b3
  b4 = b4
  Block = {b1, b2, b3, b4}
  ContractBlock = {b1, b3}
  MaxHeight = 3
  MaxHistory = 0
  MaxCrashes = 1
  MaxDisconnects = 2
  Transaction <- MCTransaction
  Feature = {"metadex", "fees"}
  Unknown = {"later"}
  InitialBlock <- MCInitialBlock
  Never = 99
  MIN_ACTIVATION_BLOCKS = 1
  MAX_ACTIVATION_BLOCKS = 2
  Version = 1
  Versions = {1, 2}
  MaxBlock = 4
SPECIFICATION NodeSpec
INVARIANTS PendingIsTrue LiveIsAnnounced TooOldStops StateFollowsChain ActivationsFollowChain
PROPERTIES CatchesUp
CHECK_DEADLOCK FALSE
