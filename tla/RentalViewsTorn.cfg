\* A return of a rental of two bicycles and a GET beside it: what the GET may be shown.
SPECIFICATION Spec
CONSTANTS
  b1 = b1
  b2 = b2
  Items <- MCItems
  Header = Header
  p1 = p1
  Returns = {p1}
  g1 = g1
  Gets = {g1}
  Threads = 2
  Instants = {1, 2}
  None = None
CHECK_DEADLOCK FALSE
INVARIANTS
  ItemViewWhole
