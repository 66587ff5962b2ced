SPECIFICATION Spec
CONSTANTS
  Requests = {"s", "a", "x"}
  JobOf <- Jobs1
  Policy <- OpenPolicy
  Case <- Mandate
  Prior <- Called
  Choices <- Picks
  Hush = {FALSE}
  MaxEvents = 1
INVARIANTS
  TypeOK
  CallsAudited
  EscalatedHasTicket
  ThreadInOrder
  StreamEnds
PROPERTIES
  StopHolds
CHECK_DEADLOCK FALSE
