\* Two bicycles, two rentals under two fares, and a clock that moves both ways.
SPECIFICATION Spec
CONSTANTS
  b1 = b1
  b2 = b2
  Bicycles = {b1, b2}
  OutOfService = {}
  Stations = {"st2"}
  Capacity <- MCCapacity
  r1 = r1
  r2 = r2
  RentalIds = {r1, r2}
  Fares <- MCFaresInForce
  Instants <- MCInstants
  CreateCommands <- MCCreateCommands
  ReturnCommands <- MCReturnCommands
  UnknownBicycle = UnknownBicycle
  UnknownStation = UnknownStation
  None = None
SYMMETRY Symmetry
INVARIANTS
  BilledAtLeastEstimate
  BilledLeastCover
PROPERTIES
  ClosedByLastReturn
  ItemsOnlyReturned
  PaymentsFinal
