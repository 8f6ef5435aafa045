SPECIFICATION Spec
CONSTANTS
  c1 = c1
  c2 = c2
  f1 = f1
  f2 = f2
  r1 = r1
  r2 = r2
  r3 = r3
  None = None
  Clients <- MCClients
  Fds <- MCFds
  Responses <- MCResponses
  MaxPieces = 2
SYMMETRY MCSymmetry
INVARIANTS
  PairsAnswered
CHECK_DEADLOCK FALSE
