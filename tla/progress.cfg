SPECIFICATION FairSpec
CONSTANTS
  Events = {"e1", "e2", "e3"}
  Txns = {"t1"}
  Requests = {"r1", "r2"}
  Cases = {}
  Calls = {}
  Operators = {}
  Mail <- MixedMail
  CaseTxn <- NoCase
  CaseInputs <- NoInputs
  Amount <- Rupees
  RetryCount <- Unretried
  Policies <- JustOpen
  Advice <- VoiceAdvice
  Discounts = {0}
  HandSet = {}
  Hours = {12, 21}
  Days = {20}
  MaxDeliveries = 2
  MaxFaults = 1
  MaxEdits = 0
PROPERTIES
  EveryDeliveryAnswered
  EventWorked
  ImplementsInbox
CHECK_DEADLOCK FALSE
