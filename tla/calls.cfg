SPECIFICATION Spec
CONSTANTS
  Events = {"e1", "e2", "e3"}
  Txns = {"t1"}
  Requests = {"r1"}
  Cases = {}
  Calls = {k1, k2}
  Operators = {}
  Mail <- MandateMail
  CaseTxn <- NoCase
  CaseInputs <- NoInputs
  Amount <- Rupees
  RetryCount <- Unretried
  Policies <- VoiceOnOff
  Advice <- VoiceAdvice
  Discounts = {0}
  HandSet = {}
  Hours = {12}
  Days = {20}
  MaxDeliveries = 1
  MaxFaults = 1
  MaxEdits = 1
INVARIANTS
  VoiceOvershoot
CHECK_DEADLOCK FALSE
SYMMETRY CallSymmetry
