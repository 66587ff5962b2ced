SPECIFICATION Spec
CONSTANTS
  Scenes <- AllScenes
  Drafts <- SomeDrafts
  Payloads <- SomePayloads
  Discounts <- SomeDiscounts
INVARIANTS
  SuspicionNeverFrees
  PromiseOnNamedDay
  DraftFitsSandbox
  OwnAskAccepted
CHECK_DEADLOCK FALSE
