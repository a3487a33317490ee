SPECIFICATION Spec
CONSTANTS
  p = p
  a = a
  b = b
  q = q
  r = r
  Filters = {p, a, b, q, r}
  GenesisGrid = {a, b}
  Changes <- MCChanges
  EpochFrames = 2
  RejoinWindow = 2
  Slots = 3
  MaxFrame = 8
  MaxOps = 5
INVARIANTS TypeOK KickedHoldsNothing LeftProverHoldsNothing EpochClaimHeld
  FreshMemberRegistered NoticeServed
PROPERTIES AuditRootsKept
