------------------------------ MODULE Generated ------------------------------
(***************************************************************************)
(* The Rust the Lean side emits with a certificate, side by side: the      *)
(* circuit evaluator and its order totals, fed tick by tick, and the order *)
(* machine with its typestate.  Neither calls the other.                   *)
(***************************************************************************)
EXTENDS Integers, Sequences

CONSTANTS Modulus, Inputs, MaxTicks, MaxEvents

ASSUME GeneratedAssumption == Modulus \in Nat \ {0} /\ Inputs \subseteq Int

VARIABLES s, order, trail, fired

Dbsp == INSTANCE Circuit
Life == INSTANCE OrderMachine WITH status <- order

EmittedInit == Dbsp!Init /\ Life!Init

EmittedNext ==
  \/ Dbsp!Next /\ UNCHANGED <<order, trail, fired>>
  \/ Life!Next /\ UNCHANGED s

EmittedSpec == EmittedInit /\ [][EmittedNext]_<<s, order, trail, fired>>

-----------------------------------------------------------------------------

\* The emitted incremental circuit computes the changes of the batch circuit, under
\* operators that undo each other, run apart on pairs and solve their feedback.
IncrementalAgrees == Dbsp!IncrementalAgrees /\ Dbsp!StreamLaws

\* The order typestate admits the lives of the order machine and no others.
TypestateFollows == Life!TypestateFollows
=============================================================================
