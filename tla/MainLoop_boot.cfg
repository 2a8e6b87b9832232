SPECIFICATION FairSpec
CONSTANTS
  Boards = {"mb", "ppc", "zynq", "zynqSfp", "zynqmp", "zcu102"}
  SiRegs = 2
  PhyWrites = 2
  DhcpTimeout = 3
  CoarseInterval = 2
  LinkInterval = 4
  RxLimit = 5
INVARIANTS TypeOK BusQuiet Si5324Programmed NoTickBeforeNetif AddressSet
PROPERTIES BootEnds TimersServed LinkAndRxWatched
CHECK_DEADLOCK FALSE
