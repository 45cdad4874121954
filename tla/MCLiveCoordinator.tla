-------------------------- MODULE MCLiveCoordinator --------------------------
(* Instances of LiveCoordinator for TLC.  The selection of the session is  *)
(* the subject of SessionExecution; one is enough here.                    *)
EXTENDS LiveCoordinator

MCResolvable == Strategies \X Modes
=============================================================================
