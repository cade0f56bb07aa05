SPECIFICATION FairSpec
ACTION_CONSTRAINT LateUsers
CHECK_DEADLOCK FALSE
CONSTANTS
  Launcher = {l1, l2, l3}
  Starter = {l3}
  NoLauncher = none
  MaxUserPanes = 1
  MaxServers = 2
  MaxMishaps = 2
INVARIANTS TypeOK OneWatcher
PROPERTIES PanesStayOnFile UsersPanesStay WatcherStays
