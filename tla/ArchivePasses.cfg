SPECIFICATION FairSpec
CONSTANTS
  Message = {1, 2}
  Agent = {1, 2}
  Reporter = {1}
  Group = {1, 2}
  Body = {1}
  NoBody = 0
  Parties <- MCParties
  GroupOf <- MCGroupOf
  SummaryId <- MCSummaryId
  ArchiveAge = 1
  PeriodLength = 2
  TempAge = 0
  SegmentSize = 1
  SegmentsPerPass = 2
  MaxClock = 3
  Renamed = {2}
  MaxNames = 2
  MaxMishaps = 1
INVARIANTS NothingLost MessagesListedOnce ConversationsHold
PROPERTIES OldRowsLeave TempsGo
