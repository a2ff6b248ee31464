SPECIFICATION FairSpec
CONSTANTS
  ann = ann
  bob = bob
  cyd = cyd
  annAt = annAt
  bobAt = bobAt
  bobLater = bobLater
  cydAt = cydAt
  Nodes = {ann, bob, cyd}
  Addresses = {annAt, bobAt, bobLater, cydAt}
  Validators = {ann, bob}
  Home <- MCHome
  Places <- MCPlaces
  Static = {annAt}
  OwnLike <- MCOwnPort
  SamePort <- MCOwnPort
  MaxFailures = 2
  MaxLate = 1
  MaxFaults = 2
INVARIANTS
  TypeOK
PROPERTIES
  MeshForms
  GhostsLeave
CHECK_DEADLOCK FALSE
