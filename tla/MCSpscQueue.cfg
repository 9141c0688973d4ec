SPECIFICATION Spec
CONSTANTS
  ElemtType = {e1, e2}
  Size = 3
  Blank = Blank
INVARIANTS
  TypeOK
  NoDataRace
  GuardedPopSucceeds
PROPERTY
  ImplementsFifo
CHECK_DEADLOCK TRUE
