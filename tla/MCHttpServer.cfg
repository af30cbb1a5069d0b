SPECIFICATION Spec
CONSTANTS
  N = 3
  Connections = {c1, c2}
INVARIANTS TypeOK OthersServe ConnectorOutlivesHandlers WaitersAreHeld
PROPERTIES EveryConnectionSettled
CHECK_DEADLOCK FALSE
