SPECIFICATION Spec
CONSTANTS
  Events = {}
  Txns = {"t1", "t2"}
  Requests = {}
  Cases = {"c1", "c2"}
  Calls = {}
  Operators = {"o1"}
  Mail <- MandateMail
  CaseTxn <- OwnCase
  CaseInputs <- PlannedCases
  Amount <- Rupees
  RetryCount <- SomeRetried
  Policies <- VoiceOnOff
  Advice <- FewAdvice
  Discounts = {0}
  HandSet = {"RECOVERED"}
  Hours = {12}
  Days = {3}
  MaxDeliveries = 0
  MaxFaults = 0
  MaxEdits = 0
INVARIANTS
  ScreenedNeverContacted
  QuietHoursOnlyDefer
PROPERTIES
  RecoveredBySettlement
CHECK_DEADLOCK FALSE
