SPECIFICATION FairSpec
CONSTANTS
  Writable <- MCWritable
  Status <- MCStatus
  Unused <- MCUnused
  Words <- MCWords
  FirstAddr = 0
  ZeroWord = 0
  None = None
INVARIANT Handshake
PROPERTIES ImplementsRegisterBus AccessesEnd
