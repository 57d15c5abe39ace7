SPECIFICATION FairSpec
CONSTANTS
  eth0 = eth0  eth1 = eth1
  Ifaces <- OneIface
  WithDns <- OneIface
  WithRoute <- OneIface
  Google = Google
  Blank = Blank
  Absent = Absent
  Sites <- LateSites
  MaxErrors = 2
CHECK_DEADLOCK FALSE
PROPERTIES
  Downloads
