---------------------------- MODULE MCBackground ----------------------------
(***************************************************************************)
(* The background tasks of the server that share no state, on small        *)
(* instances: a behaviour is about the engine's reload loop or about the   *)
(* latency tests, and the other does not move.                             *)
(***************************************************************************)
EXTENDS Engine, LatencyTester

VARIABLE task

BackgroundInit == task \in {"reload", "test"} /\ Init /\ TesterInit

BackgroundNext ==
  /\ UNCHANGED task
  /\ \/ task = "reload" /\ Next /\ UNCHANGED testerVars
     \/ task = "test" /\ TesterNext /\ UNCHANGED vars

\* Nothing of the task that does not move is enabled, so its fairness asks for nothing.
BackgroundSpec ==
  /\ BackgroundInit
  /\ [][BackgroundNext]_<<task, vars, testerVars>>
  /\ Fairness /\ TesterFairness
=============================================================================
