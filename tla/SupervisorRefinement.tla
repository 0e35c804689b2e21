------------------------ MODULE SupervisorRefinement ------------------------
(***************************************************************************)
(* The supervisor implements the reconciler: its observation is the        *)
(* snapshot of the last pass, and a bot runs while one of its processes is *)
(* alive.                                                                  *)
(***************************************************************************)
EXTENDS Supervisor

RunningBots == {b \in Bots : LiveOf(b) # {}}

R == INSTANCE Reconciler WITH observed <- desired_running, running <- RunningBots

(* Every behaviour of the supervisor, faults included, is one of the       *)
(* reconciler: bots are launched only on an observation, and those         *)
(* observed undesired are retired.                                         *)
ImplementsReconciler == R!Spec
=============================================================================
