CONSTANTS
  Agent = {a1}
  Message = {m1, m2}
  ClaimId = {c1, c2}
  RequestKey = {}
  Body = {b1}
  Handler = {h1, h2}
  Janitor = janitor
  LeaseSeconds = {1}
  Limit = {2}
  ArchiveAge = 3
  NoClaim = NoClaim
  NoKey = NoKey
  MaxClock = 3
  MaxRestarts = 1
SPECIFICATION Spec
SYMMETRY Symmetry
INVARIANTS
  SettledOnce
  GaugesCount
PROPERTIES
  LeaseExclusive
  ImplementsMailbox
