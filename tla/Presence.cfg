SPECIFICATION FairSpec
CONSTANTS
  TmuxAgent = {tmux}
  ApiAgent = {api}
  Group = {g1, g2}
  Session = {s1, s2}
  NoSession = no_session
  Handler = {h1}
  Janitor = janitor
  Timeout = 1
  ApiLife = 2
  MaxLag = 1
  MaxRestarts = 1
INVARIANTS ApiGroupsOpen
PROPERTIES OnlySilentExpire SilentGoOffline ArchivedGroupsSettle
