------------------------------- MODULE MCMemory -------------------------------
(* Instances of KkmMemory for TLC: three slots, the last two the private    *)
(* area's, areas of 8 pages.                                                *)
EXTENDS KkmMemory, TLC

Mr(size, gpa, addr) ==
  [memory_size |-> size, guest_phys_addr |-> gpa, userspace_addr |-> addr]

(* One unaligned region and one slot too many, both refused.                *)
AskedApart ==
  (0 :> {Mr(4, 4, 36), Mr(3, 4, 36)}) @@ (1 :> {Mr(2, 20, 60), Mr(4, 20, 70)})
  @@ (2 :> {Mr(2, 28, 80)}) @@ (4 :> {Mr(2, 4, 90)})

(* Two slots, regions that may overlap.                                     *)
AskedOverlapping ==
  (0 :> {Mr(4, 4, 36)}) @@ (1 :> {Mr(4, 6, 60), Mr(4, 12, 38)})

(* Bottom and top, their ends, the private area and beyond.                 *)
TriedAll == {3, 4, 15, 16, 18, 20, 21, 23, 48, 59, 60}
TriedNone == {}
=============================================================================
