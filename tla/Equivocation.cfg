SPECIFICATION Spec
CONSTANTS
  m1 = m1
  m2 = m2
  m3 = m3
  m4 = m4
  Members <- Four
  Faulty = {m4}
  Quorums <- FourQuorums
  Leader <- Equivocating
  MaxView = 2
  Generation = 1
  DrainFrames = 0
  PrivateChain = 2
  None = None
SYMMETRY Voters
INVARIANTS SingleHistory SealEndsSession SealedCheckpointCertified TipsAgree
CHECK_DEADLOCK FALSE
