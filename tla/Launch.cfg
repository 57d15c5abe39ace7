SPECIFICATION FairSpec
CONSTANT
  MaxLaunches = 3
INVARIANT
  TypeOK
  NothingLeft
  OwnSockets
  Served
PROPERTY
  CallsEnd
  Patient
CHECK_DEADLOCK FALSE
