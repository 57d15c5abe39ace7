SPECIFICATION FairSpec
CONSTANT
  MaxCommands = 3
  MaxFailures = 2
  MaxLines = 1
INVARIANT
  TypeOK
  NothingCutOff
PROPERTY
  StartsGuarded
  NeverAlone
  NothingStays
  Settles
CHECK_DEADLOCK FALSE
