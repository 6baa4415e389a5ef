\* Two returns and a GET of a rental of two bicycles, two at a time, the clock read at two
\* instants.  The batch ends when every request is answered.
SPECIFICATION Spec
CONSTANTS
  b1 = b1
  b2 = b2
  Items <- MCItems
  Header = Header
  p1 = p1
  p2 = p2
  Returns = {p1, p2}
  g1 = g1
  Gets = {g1}
  Threads = 2
  Instants = {1, 2}
  None = None
SYMMETRY Symmetry
CHECK_DEADLOCK FALSE
INVARIANTS
  TypeOK
  ViewNotAhead
  ViewAmountDated
  AnsweredReturnsSeen
  SettledRecord
