SPECIFICATION Spec
CONSTANTS
  m1 = m1
  m2 = m2
  m3 = m3
  m4 = m4
  Members <- Pair
  Faulty = {}
  Quorums <- PairQuorums
  Leader <- PairLeader
  MaxView = 3
  Generation = 1
  DrainFrames = 2
  PrivateChain = 2
  None = None
INVARIANTS TypeOK SingleHistory SealEndsSession SealedCheckpointCertified TipsAgree
CHECK_DEADLOCK FALSE
