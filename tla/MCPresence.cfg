SPECIFICATION Spec
CONSTANTS
  Devices <- RegisteredDevices
  Document <- RepairedDocument
  Null = Null
  Wrap = 65536
  MIN_SLEEP_TIME_MS = 10
  RAND_MAX = 3
  IN_RANGE_MAX = 10
  IN_RANGE_UP_COUNT = 10
  IN_RANGE_DOWN_COUNT = 2
  Size = 2
INVARIANTS
  TypeOK
  SubscribersKnow
PROPERTIES
  DetectsRange
  OnlyChanges
