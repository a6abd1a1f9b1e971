--------------------------- MODULE MCOracleProbe ----------------------------
(* OracleProbe on a component that answers some rows rightly, some wrongly *)
(* (a digit off, a prefix, nothing), traps, or lacks the function.         *)
EXTENDS OracleProbe, TLC

CONSTANTS demo, total

MCRow(expected, answer, parses, stream) ==
  [expected |-> expected, answer |-> answer, parses |-> parses, stream |-> stream]
MCRowKinds ==
  {MCRow(<<"4", "2">>, <<"4", "2">>, TRUE, FALSE), MCRow(<<"4", "2">>, <<"4", "3">>, TRUE, FALSE),
   MCRow(<<"4", "2">>, <<"4">>, TRUE, FALSE), MCRow(<<"4">>, <<"trap">>, TRUE, FALSE),
   MCRow(<<>>, <<"missing">>, TRUE, FALSE), MCRow(<<"4">>, <<"4">>, FALSE, FALSE),
   MCRow(<<"1", "2">>, <<"1", "2">>, TRUE, TRUE), MCRow(<<"1">>, <<"trap">>, TRUE, TRUE)}
MCExports == demo :> (total :> [params |-> <<>>, results |-> <<>>])
MCExpected == <<>>
=============================================================================
