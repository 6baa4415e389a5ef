\* Four requests of any kind, two at a time, on two bicycles: what holds whatever the
\* interleaving.  The batch ends when every request is answered.
SPECIFICATION Spec
CONSTANTS
  b1 = b1
  b2 = b2
  Bicycles = {b1, b2}
  Stations = {"st"}
  Capacity <- MCCapacity
  q1 = q1
  q2 = q2
  q3 = q3
  q4 = q4
  Requests = {q1, q2, q3, q4}
  Orders <- AnyOrders
  Threads = 2
  None = None
SYMMETRY Symmetry
CHECK_DEADLOCK FALSE
INVARIANTS
  TypeOK
  ActiveRentalPaid
  CompleteMeansReturned
  LosersNotCharged
  NoBicycleLost
