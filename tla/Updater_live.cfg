SPECIFICATION FairSpec
CONSTANTS
  a = a  b = b  c = c  other = other
  k1 = k1  k2 = k2  i1 = i1  i2 = i2  l1 = l1  l2 = l2
  Systems <- ThreeSystems
  Others <- OtherPaths
  NotAPath = NotAPath
  None = None
  Torn = Torn
  Files <- BootFiles
  Kernel <- KernelOf
  Initrd <- InitrdOf
  Loaders <- LoaderBuilds
  Loader <- LoaderOf
  LoaderName = LoaderName
  Keep = 2
  Faults = {"net", "power", "install", "mount", "nvram", "esp"}
  MaxFaults = 1
  MaxPublish = 2
  MaxGen = 3
PROPERTY
  ComesUp ConvergesOrLeftover
