---------------------------- MODULE MCHostRouter ----------------------------
(* HostRouter with the demo component, one of whose functions answers with *)
(* an enum, and a component that lacks the function the host expects.      *)
EXTENDS HostRouter

CONSTANTS demo, skewed, valid, calls

Leaf(kind) == [kind |-> kind, fields |-> 0, within |-> {kind}]
Option(ty) == [kind |-> "option", fields |-> 0, within |-> {"option"} \cup ty.within]
Fun(params, results) == [params |-> params, results |-> results]

MCExports ==
  [c \in {demo, skewed} |-> [f \in {valid, calls} |->
     CASE f = valid -> IF c = demo THEN Fun(<<Leaf("variant")>>, <<Leaf("bool")>>) ELSE NoExport
       [] f = calls -> Fun(<<>>, <<IF c = demo THEN Option(Leaf("enum")) ELSE Leaf("u64")>>)]]

\* The entry for `calls` does not parse.
MCExpected == <<<<valid, 2>>, <<calls>>>>
=============================================================================
