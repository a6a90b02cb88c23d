-------------------------------- MODULE MCInit --------------------------------
(* Instances of KkmInit for TLC.                                            *)
EXTENDS KkmInit, TLC

Symmetry == Permutations(Processes)

(* Only what the driver cleans up after, or anything at all.                *)
CleanOrAll == {CleanFailures, CleanFailures \cup {"low", "pud", "pmd", "pt"}}
=============================================================================
