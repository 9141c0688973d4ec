SPECIFICATION Spec
CONSTANTS
  MaxUnsigned = 9999
  IntWrap = 1000
  MaxExponent10 = 30
  Digits10 = 6
  Chunks <- MCChunks
  MaxChunks = 2
  Numbers <- MCNumbers
  Decimals <- MCDecimals
  CommandTypes <- MCCommandTypes
  Values <- MCValues
  Others <- MCOthers
  MaxMembers = 3
  Fields <- MCFields
  Times = {0, 1, 2, 3, 4, 5}
  Binaries <- MCBinaries
  Sizes = {15, 16, 23, 24}
  ShortFloats <- MCShortFloats
  Documents <- MCDocuments
  MaxValues = 2
  ReadFirst = TRUE
  Wrap = 11
  MIN_SLEEP_TIME_MS = 2
  RAND_MAX = 7
INVARIANTS
  SentIsRead
  CommandAsSent
  RestIsNoCommand
  EventAsReceived
  SleepsInRange
  BinaryIsRead
  DiffIsPatch
  FlatIsRestored
CHECK_DEADLOCK FALSE
