SPECIFICATION FairSpec
CONSTANTS
  ui = ui
  signaling = signaling
  None = None
  Senders = {ui, signaling}
  Owner = ui
  Countdown = 2
  MaxMsgs = 2
  MaxConn = 1
PROPERTY ThreadExits
