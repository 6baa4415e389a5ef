\* Three requests of any kind, one at a time, on two bicycles and two stations: the
\* promises that hold when requests do not overlap.
SPECIFICATION Spec
CONSTANTS
  b1 = b1
  b2 = b2
  Bicycles = {b1, b2}
  Stations = {"st", "st2"}
  Capacity <- MCCapacity
  q1 = q1
  q2 = q2
  q3 = q3
  Requests = {q1, q2, q3}
  Orders <- AnyOrders
  Threads = 1
  None = None
SYMMETRY Symmetry
CHECK_DEADLOCK FALSE
INVARIANTS
  NoDoubleAssignment
  InventoryCounts
  ChargedMeansRented
  HeaderDerived
  HeldIffRented
PROPERTIES
  ImplementsAllocation
