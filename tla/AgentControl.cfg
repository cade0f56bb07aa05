SPECIFICATION FairSpec
CHECK_DEADLOCK FALSE
CONSTANTS
  MaxRequests = 2
  Pane = {1, 2}
  MaxMishaps = 1
INVARIANTS OwnRequests
PROPERTIES StartConfirmed ControlsReach GoesOffline
