----------------------------- MODULE KkmHandles -----------------------------
(***************************************************************************)
(* What a kontainer promises to the holders of its descriptors, without    *)
(* slots, threads, counters or a lock: it exists from its creation to the  *)
(* moment its own file and the last of its kontexts are gone, it is freed  *)
(* in that very step, and it never counts more than Capacity kontexts.     *)
(***************************************************************************)
EXTENDS Naturals

CONSTANT Capacity

VARIABLES
  object,    (* the kontainer: none, alive or freed                        *)
  owner,     (* its own file is held                                       *)
  kontexts,  (* kontexts it counts                                         *)
  leaving    (* kontexts no longer counted that still refer to it          *)

vars == <<object, owner, kontexts, leaving>>

Init == object = "none" /\ owner = FALSE /\ kontexts = 0 /\ leaving = 0

Create ==
  /\ object = "none"
  /\ object' = "alive" /\ owner' = TRUE
  /\ UNCHANGED <<kontexts, leaving>>

(* A kontext can only be added through the kontainer's file.               *)
Register ==
  /\ owner /\ kontexts < Capacity
  /\ kontexts' = kontexts + 1
  /\ UNCHANGED <<object, owner, leaving>>

Leave ==
  /\ kontexts > 0
  /\ kontexts' = kontexts - 1 /\ leaving' = leaving + 1
  /\ UNCHANGED <<object, owner>>

FreeIfLast ==
  object' = IF ~owner' /\ kontexts' = 0 /\ leaving' = 0
              THEN "freed" ELSE object

Gone ==
  /\ leaving > 0
  /\ leaving' = leaving - 1
  /\ UNCHANGED <<owner, kontexts>>
  /\ FreeIfLast

Disown ==
  /\ owner
  /\ owner' = FALSE
  /\ UNCHANGED <<kontexts, leaving>>
  /\ FreeIfLast

Next == Create \/ Register \/ Leave \/ Gone \/ Disown

Spec == Init /\ [][Next]_vars
=============================================================================
