CONSTANTS
  Capacity = 2
  MaxUnits = 7
SPECIFICATION FairSpec
INVARIANTS
  TypeOK
  InOrderExactlyOnce
  DecodeIsolated
PROPERTIES
  ImplementsChannel
  Delivered
