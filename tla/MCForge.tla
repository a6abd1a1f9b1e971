------------------------------ MODULE MCForge -------------------------------
(* Forge with two jobs: one writes the manifest that lists it, the other   *)
(* is listed elsewhere.                                                    *)
EXTENDS Forge, TLC

MCListed == <<"schema">>
MCUnlisted == <<"faults">>
MCOwner == [manifest |-> "schema", faults_rs |-> "faults"]
Symmetry == Permutations(Stamps)
=============================================================================
