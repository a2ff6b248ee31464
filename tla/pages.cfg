SPECIFICATION Spec
CONSTANTS
  ann = ann
  bob = bob
  Servers = {ann, bob}
  Served <- MCServed
  Stands <- MCStands
  SizeAt <- MCSizeAt
  Samples <- MCSamples
  PageBytes = 3
  PagesMax = 3
  BufferMax = 2
  TTL = 1
  MaxTime = 3
  MaxLost = 1
  MaxAnswers = 2
INVARIANTS
  TypeOK
  CutsArePaginations
  FreshSetsAreKept
  
PROPERTY
  DeliversWhole
CHECK_DEADLOCK FALSE
