SPECIFICATION Spec
CONSTANTS
  Runs = {"a", "b"}
  Janitors = {"j"}
  CasesOf <- TwoCases
  Book = {"m1"}
  Scenarios <- MCScenarios
  Draws <- MCDraws
  BookStates = {"RECOVERED"}
  Saved <- OpenPolicy
  Policies <- OneEdit
  HandStates = {"CANCELLED"}
  JevSays = {"unavailable"}
  Weathers <- SomeWeather
  Advice = {"MANDATE_REFRESH"}
  Width = 1
  Visited = {"a1", "m1"}
  Keep = {1}
  MaxLives = 1
  MaxUpsets = 2
INVARIANTS
  DecidedUnderSnapshot
  SummaryAgrees
PROPERTIES
  MerchantBookIntact
  PruneSparesLive
CHECK_DEADLOCK FALSE
