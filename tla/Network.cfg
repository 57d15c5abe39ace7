SPECIFICATION FairSpec
CONSTANTS
  eth0 = eth0  eth1 = eth1
  Ifaces <- TwoIfaces
  WithDns <- TwoIfaces
  WithRoute <- TwoIfaces
  Google = Google
  Blank = Blank
  Absent = Absent
  Sites <- GoodSites
  MaxErrors = 2
CHECK_DEADLOCK FALSE
INVARIANTS
  TypeOK FallbackTakenBack UpMeansConfigured
PROPERTIES
  Downloads
