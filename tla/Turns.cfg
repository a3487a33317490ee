SPECIFICATION FairSpec
CONSTANTS
  Workers = {w1, w2, w3, w4}
  Turns = 1
  PriorityRun = 1
INVARIANTS
  TypeOK
  TurnsConserved
  FreeTurnsUnwanted
  WaitersListen
  OvertakingBounded
PROPERTIES
  WaitersServed
