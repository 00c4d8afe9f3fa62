SPECIFICATION Spec
CONSTANTS
  ui = ui
  signaling = signaling
  None = None
  Senders = {ui, signaling}
  Owner = ui
  Countdown = 5
  MaxMsgs = 1
  MaxConn = 2
INVARIANT DisconnectReported
