------------------------------ MODULE MCVectors ------------------------------
(* Instances of KkmVectors for TLC.                                         *)
EXTENDS KkmVectors

(* All vectors but the control protection and the VMM communication         *)
(* exception.                                                               *)
Known == AllVectors \ {21, 29}
=============================================================================
