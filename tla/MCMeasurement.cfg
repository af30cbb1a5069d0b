SPECIFICATION Spec
CONSTANTS
  Workers = {w1, w2}
  N_REQUEST = 3
  Statuses = {200, 204}
  N = 2
INVARIANTS ClientTypeOK RequestsConserved AllAnswered RestartsKeepServer
PROPERTIES MeasurementEnds
CHECK_DEADLOCK FALSE
