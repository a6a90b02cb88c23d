------------------------------ MODULE KkmRegions ------------------------------
(***************************************************************************)
(* What KKM_MEMORY promises: a kontainer has a set of numbered regions.  A *)
(* call adds one under a number that has none, or takes one away; it never *)
(* changes a region in place and never touches another one.                *)
(***************************************************************************)
EXTENDS Functions

CONSTANTS
  Numbers,  (* the numbers of regions                                      *)
  Region    (* what a region may be                                        *)

VARIABLE regions   (* the regions there are, by their numbers              *)

Init == regions = << >>

Add(n, r) ==
  /\ n \in Numbers \ DOMAIN regions
  /\ regions' = [m \in DOMAIN regions \cup {n} |->
                   IF m = n THEN r ELSE regions[m]]

Remove(n) ==
  /\ n \in DOMAIN regions
  /\ regions' = Restrict(regions, DOMAIN regions \ {n})

Next == \E n \in Numbers : Remove(n) \/ \E r \in Region : Add(n, r)

Spec == Init /\ [][Next]_regions
=============================================================================
