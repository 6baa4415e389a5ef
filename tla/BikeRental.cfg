\* Three rentable bicycles and one out of service, a station of one dock and one of
\* three, two rentals; the clock stands still.
SPECIFICATION Spec
CONSTANTS
  b1 = b1
  b2 = b2
  b3 = b3
  b4 = b4
  Bicycles = {b1, b2, b3, b4}
  OutOfService = {b4}
  Stations = {"st1", "st2"}
  Capacity <- MCCapacity
  r1 = r1
  r2 = r2
  RentalIds = {r1, r2}
  Fares <- MCFares
  Instants = {0}
  CreateCommands <- MCCreateCommands
  ReturnCommands <- MCReturnCommands
  UnknownBicycle = UnknownBicycle
  UnknownStation = UnknownStation
  None = None
SYMMETRY Symmetry
INVARIANTS
  TypeOK
  NoDoubleAssignment
  HeldIffRented
  InventoryCounts
  StatusDerived
  PaidIffConfirmed
  DistinctReferences
  EveryHeldBicycleReturnable
  CommitCannotRaise
  AnswersDocumented
  AvailableCanBeRented
  ShownCanBeReturned
PROPERTIES
  ImplementsAllocation
  LegalTransitions
  FailedRequestLeavesNoTrace
