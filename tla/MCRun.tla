-------------------------------- MODULE MCRun --------------------------------
(* Instances of KkmRun for TLC: a small stack, two values, two faults.      *)
EXTENDS KkmRun
=============================================================================
