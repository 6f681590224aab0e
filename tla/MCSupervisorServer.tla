-------------------------- MODULE MCSupervisorServer --------------------------
(***************************************************************************)
(* TLC's instance of the supervisor server: a behaviour is followed until  *)
(* two recoveries overlap, which the run of StartAnswers is about.         *)
(***************************************************************************)
EXTENDS SupervisorServer

UntilOverlapSpec == SupervisorInit /\ [][~overlapped /\ SupervisorNext]_supervisorVars /\ Fairness
=============================================================================
