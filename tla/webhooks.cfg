SPECIFICATION Spec
CONSTANTS
  Events = {"e1", "e2", "e3"}
  Txns = {"t1"}
  Requests = {r1, r2}
  Cases = {}
  Calls = {}
  Operators = {"o1"}
  Mail <- MixedMail
  CaseTxn <- NoCase
  CaseInputs <- NoInputs
  Amount <- Rupees
  RetryCount <- Unretried
  Policies <- JustOpen
  Advice <- VoiceAdvice
  Discounts = {0, 20}
  HandSet = {"ESCALATED"}
  Hours = {12, 21}
  Days = {3, 20}
  MaxDeliveries = 2
  MaxFaults = 1
  MaxEdits = 0
INVARIANTS
  TypeOK
  OneRunPerEvent
  AuditTrailsDispatch
  NoOrphanedDiagnosis
PROPERTIES
  EscalationHasTicket
CHECK_DEADLOCK FALSE
SYMMETRY RequestSymmetry
