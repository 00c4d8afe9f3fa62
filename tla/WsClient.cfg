SPECIFICATION FairSpec
CONSTANTS
  ui = ui
  signaling = signaling
  None = None
  Senders = {ui, signaling}
  Owner = ui
  Countdown = 5
  MaxMsgs = 3
  MaxConn = 2
INVARIANTS NoMsgAccurate PointerIsLive
PROPERTIES ExitDrains ImplementsChannel StopReturnsOrStranded WritesAndRetries
