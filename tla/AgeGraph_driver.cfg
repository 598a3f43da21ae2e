CONSTANTS
  n1 = n1  n2 = n2  e1 = e1  e2 = e2  La = La  Lb = Lb
  d1 = d1  d2 = d2  p1 = p1  p2 = p2  c1 = c1  c2 = c2
  IDs = {n1, n2}
  EdgeIDs = {e1, e2}
  NoID = NoID
  Labels = {La, Lb}
  Times = {10, 15, 20}
  NoTime = NoTime
  Data = {d1, d2}
  Procs = {p1, p2}
  Client <- MCClient
  Calls <- MCCalls
  MaxCalls = 4
  MaxFaults = 1
  MaxDeletes = 1
  MaxTraversed = 3
SPECIFICATION Spec
PROPERTY ImplementsContract
INVARIANT DriversReadAlike
CHECK_DEADLOCK FALSE
