SPECIFICATION FairSpec
CONSTANTS
  TmuxAgent = {tmux}
  ApiAgent = {api}
  Group = {g1}
  Session = {s1}
  NoSession = no_session
  Handler = {h1}
  Janitor = janitor
  Timeout = 1
  ApiLife = 2
  MaxLag = 1
  MaxRestarts = 1
PROPERTIES UnheardGoOffline
