-------------------------------- MODULE MCMmu --------------------------------
(* Instances of KkmMmu for TLC.                                             *)
EXTENDS KkmMmu
=============================================================================
