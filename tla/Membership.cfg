SPECIFICATION Spec
CONSTANTS
  P = P
  A = A
  B = B
  A1 = A1
  A2 = A2
  p1 = p1
  p2 = p2
  Filters = {P}
  Cover <- MCCover
  Changes <- NoChanges
  GenesisGrid = {P}
  Provers = {p1, p2}
  Digests = {d1, d2}
  Genesis = Genesis
  NoRequest = NoRequest
  NoCheckpoint = NoCheckpoint
  Unread = Unread
  EpochFrames = 2
  PassFrames = 1
  EffectiveDelay = 2
  FenceAfterEpochs = 2
  EarlyFenceAfterEpochs = 1
  EarlyFenceFrame = 3
  FencedEligibilityFrame = 1
  MembershipBoundary = 3
  FirstSessionBoundary = 3
  MaxDrain = 2
  MaxGeneration = 4
  MaxFrame = 8
  MaxAppFrame = 3
  MaxProposals = 0
SYMMETRY ProverSymmetry
INVARIANTS
  TypeOK
  TerminalIsExecutedTip
  FramesNeverReused
  ActivationNeverRefused
PROPERTIES
  HistoryImmutable
  FencedSuccessorKeepsTurn
