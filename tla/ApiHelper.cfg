SPECIFICATION FairSpec
CHECK_DEADLOCK FALSE
CONSTANTS
  Message = {1, 2}
  Command = {c1, c2}
  Me = me
  Other = other
  ClaimLimit = 2
  MaxMishaps = 2
INVARIANTS TypeOK HandlesClear HeldAreOnFile
PROPERTIES AllSettled
