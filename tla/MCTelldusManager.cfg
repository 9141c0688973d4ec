SPECIFICATION Spec
CONSTANTS
  TELLDUS_ACTIVE = TRUE
  Devices = {"lamp", "fan"}
  RawSize = 2
  Size = 2
  RAW_MESSAGES_PER_RUN = 2
  MESSAGES_PER_RUN = 1
  TELLDUSDEVICE_RETRANSMIT = 3
  Unparsable = {2}
  Commands <- MCCommands
  MaxEvents = 5
INVARIANTS
  TypeOK
  EventsAccounted
  NoDeletedDevice
  NoLateCallback
  DevicesFollow
  StopFinishesCommands
PROPERTIES
  ImplementsChannel
  EventuallyReported
  DestructorEnds
CHECK_DEADLOCK FALSE
