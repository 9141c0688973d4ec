SPECIFICATION Spec
CONSTANTS
  Receivers = {r1}
  None = None
  Size = 2
  MESSAGES_PER_RUN = 2
  MaxFds = 2
  Unsendable = {}
  MaxMessages = 1
  MaxLines = 1
INVARIANT
  NeedToSendLater
CHECK_DEADLOCK FALSE
