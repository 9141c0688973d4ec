SPECIFICATION Spec
CONSTANTS
  Receivers = {r1, r2}
  None = None
  Size = 2
  MESSAGES_PER_RUN = 2
  MaxFds = 2
  Unsendable = {}
  MaxMessages = 2
  MaxLines = 2
INVARIANTS
  TypeOK
  OneReceiver
  NoSplice
  SubscribedFirst
  CostOfConnection
  CommandsInOrder
PROPERTIES
  SentInOrder
  LossNoticed
CHECK_DEADLOCK FALSE
