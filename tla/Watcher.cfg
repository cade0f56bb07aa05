SPECIFICATION FairSpec
CHECK_DEADLOCK FALSE
CONSTANTS
  Message = {1, 2, 3}
  Urgent = {3}
  Stop = {}
  Sender = {"a", "b"}
  SenderOf <- MCSenderOf
  NoSender = "none"
  IdleLooks = 1
  ClaimLimit = 2
  MaxMishaps = 1
INVARIANTS TypeOK AckedWereSubmitted ConsumedOnce NoOvertaking
PROPERTIES UrgentLeave AllLeave
