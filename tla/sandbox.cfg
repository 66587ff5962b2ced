SPECIFICATION Spec
CONSTANTS
  SomePolicies <- ManyPolicies
  Proposals <- ManyProposals
INVARIANTS
  LooseningIsMonotone
CHECK_DEADLOCK FALSE
