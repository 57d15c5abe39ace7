SPECIFICATION FairSpec
CONSTANTS
  Clients = {c1, c2}
  Nobody = Nobody
  MaxOut = 2
  MaxIn = 1
  MaxFaults = 1
CHECK_DEADLOCK FALSE
INVARIANTS
  TypeOK TranscriptFirst Gapless NoGhost
PROPERTIES
  RecordedUnlessStalled LetGo
