SPECIFICATION Spec
CONSTANTS
  MaxMsgs = 5
  MaxPieces = 3
INVARIANTS DeliveredWhole DeliveredExactlyUncut
CHECK_DEADLOCK FALSE
