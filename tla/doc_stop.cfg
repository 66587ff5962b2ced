SPECIFICATION Spec
CONSTANTS
  Requests = {"s", "a", "b"}
  JobOf <- Jobs1
  Policy <- OpenPolicy
  Case <- Mandate
  Prior <- Called
  Choices <- Picks
  Hush = {FALSE}
  MaxEvents = 0
CHECK_DEADLOCK FALSE
PROPERTIES
  StopNotOverridden
