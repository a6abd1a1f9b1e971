---------------------------- MODULE MCGuestHeap -----------------------------
(* GuestHeap for TLC: objects are interchangeable names.                   *)
EXTENDS GuestHeap, TLC

Symmetry == Permutations(Objects)
=============================================================================
