SPECIFICATION Spec
CONSTANTS
  Document <- TwoThreadsDocument
  Publishes <- MCPublishes
  Null = Null
  Wrap = 65536
  MIN_SLEEP_TIME_MS = 10
  RAND_MAX = 3
  Size = 1
  MESSAGES_PER_RUN = 1
  Signals = {"SIGUSR1"}
  MaxPublished <- MCMaxPublishedTwo
PROPERTIES
  JoinReturns
CHECK_DEADLOCK FALSE
