SPECIFICATION Spec
CONSTANTS
  Message = {}
  Agent = {1}
  Reporter = {1}
  Renamed = {}
  Group = {1, 2}
  Body = {1}
  NoBody = 0
  Parties <- MCParties
  GroupOf <- MCGroupOf
  SummaryId <- MCSummaryId
  ArchiveAge = 1
  PeriodLength = 2
  TempAge = 1
  SegmentSize = 1
  SegmentsPerPass = 2
  MaxClock = 4
  MaxNames = 1
  MaxMishaps = 1
PROPERTY FinalizedRowsGone
