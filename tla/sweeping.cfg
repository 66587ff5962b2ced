SPECIFICATION FairSpec
CONSTANTS
  Casts <- OneDaemon
  Total = 2
  Offers <- CodeOrPlan
  Policies <- TwoPolicies
  Lapsing = {1}
  MaxLinks = 1
  MaxRows = 1
  MaxFaults = 1
INVARIANTS
  FollowUpsBounded
PROPERTIES
  NeverChasedIfPaid
  OverdueHandled
  PaidIsNoticed
CHECK_DEADLOCK FALSE
