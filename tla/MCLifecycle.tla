----------------------------- MODULE MCLifecycle -----------------------------
(* Instances of KkmLifecycle for TLC.  The specification treats all threads *)
(* alike, so they are symmetric; slots are searched in order and are not.   *)
EXTENDS KkmLifecycle, TLC

ThreadSymmetry == Permutations(Threads)
=============================================================================
