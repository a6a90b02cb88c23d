------------------------------ MODULE MCSwitch ------------------------------
(* Instances of KkmSwitch for TLC.                                          *)
EXTENDS KkmSwitch, TLC

CONSTANTS c1, c2, t1, t2, k1, k2, A, B

TwoKontexts == (t1 :> k1) @@ (t2 :> k2)

(* Two threads of one monitor, or of two.                                   *)
TogetherOrApart == {(k1 :> A) @@ (k2 :> A), (k1 :> A) @@ (k2 :> B)}
=============================================================================
