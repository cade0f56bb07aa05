SPECIFICATION Spec
CHECK_DEADLOCK FALSE
CONSTANTS
  MaxRequests = 2
  Pane = {1}
  MaxMishaps = 0
PROPERTIES DisconnectionConfirms
