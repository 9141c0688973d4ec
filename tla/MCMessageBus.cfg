SPECIFICATION Spec
CONSTANTS
  Document <- TwoThreadsDocument
  Publishes <- MCPublishes
  Null = Null
  Wrap = 65536
  MIN_SLEEP_TIME_MS = 10
  RAND_MAX = 3
  Size = 2
  MESSAGES_PER_RUN = 1
  Signals = {"SIGINT", "SIGUSR1"}
  MaxPublished <- MCMaxPublished
INVARIANTS
  TypeOK
  InOrderExactlyOnce
  NothingLeftBehind
  ConfiguredThreadsRun
  LogOpen
PROPERTIES
  SignalObeyed
  EventuallyHandled
CHECK_DEADLOCK FALSE
