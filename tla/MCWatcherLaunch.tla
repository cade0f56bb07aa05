---------------------------- MODULE MCWatcherLaunch ----------------------------
(***************************************************************************)
(* WatcherLaunch with users who open panes in a tmux server that has come  *)
(* up again: the panes of the first have numbers that no other pane had.   *)
(***************************************************************************)
EXTENDS WatcherLaunch

LateUsers == (\E p \in panes' \ panes : p.pid = Users) => server = MaxServers
================================================================================
