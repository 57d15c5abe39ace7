SPECIFICATION Spec
CONSTANTS
  t1 = t1  t2 = t2  lib = lib  glibc = glibc  b1 = b1  b2 = b2
  Toplevels <- TwoToplevels
  Paths <- FourPaths
  Closure <- ClosureOf
  Upstream <- ServedAbove
  Builds <- TwoBuilds
  None = None
  MaxRuns = 2
CHECK_DEADLOCK FALSE
INVARIANTS
  TypeOK ReaderServed Complete
PROPERTIES
  ImplementsService
