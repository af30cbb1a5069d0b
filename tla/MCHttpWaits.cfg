INIT Init
NEXT Next
CONSTANTS
  N = 3
  Connections = {c1, c2}
INVARIANTS WaitsForRequests
CHECK_DEADLOCK FALSE
