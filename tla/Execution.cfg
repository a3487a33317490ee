SPECIFICATION Spec
CONSTANTS
  N = 4
  Direct = {1, 2, 4}
  Oversized = {2}
  MaxQueued = 1
  MaxAttempts = 2
  MaxAhead = 2
  CheckMargin = 1
  Pipelines = {TRUE, FALSE}
  Recoveries = {TRUE, FALSE}
  MaxCrashes = 1
  MaxFaults = 2
INVARIANTS
  TypeOK
  CursorIsFrontier
  NoFrameSkipped
  MarkerResolvable
  ReceiptCurrent
PROPERTIES
  
  ImplementsLedger
