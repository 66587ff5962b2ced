SPECIFICATION Spec
CONSTANTS
  Casts <- RequestsOnly
  Total = 2
  Offers <- WholeOrPart
  Policies <- OnePolicy
  Lapsing = {}
  MaxLinks = 2
  MaxRows = 2
  MaxFaults = 0
INVARIANTS
  StraysAccountedFor
  NoPaidLinkClosed
PROPERTIES
  ImplementsAccount
  ClosedInFull
CHECK_DEADLOCK FALSE
