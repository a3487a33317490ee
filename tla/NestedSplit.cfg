SPECIFICATION Spec
CONSTANTS
  P = P
  A = A
  B = B
  A1 = A1
  A2 = A2
  p1 = p1
  p2 = p2
  Filters = {P, A, B, A1, A2}
  Cover <- MCCover
  Changes <- NestedSplits
  GenesisGrid = {P}
  Provers = {p1, p2}
  Digests = {d1}
  Genesis = Genesis
  NoRequest = NoRequest
  NoCheckpoint = NoCheckpoint
  Unread = Unread
  EpochFrames = 2
  PassFrames = 1
  EffectiveDelay = 1
  FenceAfterEpochs = 1
  EarlyFenceAfterEpochs = 1
  EarlyFenceFrame = 3
  FencedEligibilityFrame = 1
  MembershipBoundary = 1
  FirstSessionBoundary = 100
  MaxDrain = 1
  MaxGeneration = 2
  MaxFrame = 5
  MaxAppFrame = 1
  MaxProposals = 2
INVARIANTS
  LiveRangesDisjoint
