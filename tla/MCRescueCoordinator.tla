------------------------ MODULE MCRescueCoordinator ------------------------
(* RescueCoordinator on small instances.                                   *)
EXTENDS RescueCoordinator

============================================================================
