----------------------------- MODULE MCTurnLoop -----------------------------
(* TLC instances of TurnLoop: the sets of commands its configurations give  *)
(* the user, by what a run is about.                                        *)
EXTENDS TurnLoop

\* every command but the ones that cut the running turn: what a queued steer
\* has to survive when turns only end by themselves
UncutCommands == AllCommands \ {"Cancel", "Fork"}
=============================================================================
