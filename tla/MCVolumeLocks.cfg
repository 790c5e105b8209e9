CONSTANTS
  IDs = {volume, nodeVolume}
  Clients = {c1, c2, c3, c4}
  None = None
SPECIFICATION Spec
INVARIANTS CountersAreHolders Exclusion
PROPERTY ImplementsReaderWriterLock
