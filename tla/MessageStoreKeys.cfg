CONSTANTS
  Agent = {a1}
  Message = {m1, m2}
  ClaimId = {c1}
  RequestKey = {k1}
  Body = {b1, b2}
  Handler = {h1, h2}
  Janitor = janitor
  LeaseSeconds = {1}
  Limit = {1}
  ArchiveAge = 0
  NoClaim = NoClaim
  NoKey = NoKey
  MaxClock = 2
  MaxRestarts = 1
SPECIFICATION FairSpec
ACTION_CONSTRAINT Keyed
INVARIANTS
  AnsweredOnce
PROPERTIES
  LeasesEnd
