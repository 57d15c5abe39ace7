SPECIFICATION FairSpec
CONSTANT
  MaxCommands = 1
  MaxFailures = 1
  MaxLines = 0
PROPERTY
  RunOnlyWithGuest
CHECK_DEADLOCK FALSE
