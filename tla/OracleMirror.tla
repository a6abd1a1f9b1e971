---------------------------- MODULE OracleMirror ----------------------------
(***************************************************************************)
(* The comparison of an expected with an observed outcome                  *)
(* (generated/rust/oracle_mirror_generated.rs): two tables of rows, read   *)
(* in order, the first row that matches decides.  An outcome is an error   *)
(* identity or none, and a payload: a sequence of characters.              *)
(***************************************************************************)
EXTENDS Integers, Sequences, FiniteSetsExt

Value(p) == [error |-> "none", payload |-> p]
TrapOutcome == [error |-> "trap", payload |-> <<>>]

Row(mode, expected, got, result) ==
  [mode |-> mode, expected |-> expected, got |-> got, result |-> result]

COMPARE_TABLE == <<
  Row("ignore", "some", "any", "pass"),
  Row("ignore", "any", "some", "pass"),
  Row("ignore", "none", "none", "payload"),
  Row("identity", "some", "some", "id"),
  Row("identity", "none", "none", "pass"),
  Row("identity", "any", "any", "fail"),
  Row("full", "some", "some", "id+payload"),
  Row("full", "none", "none", "payload"),
  Row("full", "any", "any", "fail") >>

\* Mutant of CLASSIFY_TABLE: two categories are swapped.
CLASSIFY_SWAPPED == <<
  Row("classify", "none", "none", "valueMismatch"),
  Row("classify", "none", "some", "expectedErrorGotValue"),
  Row("classify", "some", "none", "expectedValueGotError"),
  Row("classify", "some", "some", "idDependent") >>

CLASSIFY_TABLE == <<
  Row("classify", "none", "none", "valueMismatch"),
  Row("classify", "none", "some", "expectedValueGotError"),
  Row("classify", "some", "none", "expectedErrorGotValue"),
  Row("classify", "some", "some", "idDependent") >>

pat_matches(p, error) == p = "any" \/ (p = "none" <=> error = "none")

FirstMatch(table, mode, e, g) ==
  LET matching == {i \in DOMAIN table : /\ table[i].mode = mode
                                        /\ pat_matches(table[i].expected, e.error)
                                        /\ pat_matches(table[i].got, g.error)}
  IN table[Min(matching)].result

\* Mutant of compare: payloads are compared by their length.
compare_lengths(mode, e, g) ==
  LET result == FirstMatch(COMPARE_TABLE, mode, e, g)
  IN CASE result = "pass" -> TRUE
       [] result = "fail" -> FALSE
       [] result = "payload" -> Len(e.payload) = Len(g.payload)
       [] result = "id" -> e.error = g.error
       [] result = "id+payload" -> e.error = g.error /\ Len(e.payload) = Len(g.payload)

compare(mode, e, g) ==
  LET result == FirstMatch(COMPARE_TABLE, mode, e, g)
  IN CASE result = "pass" -> TRUE
       [] result = "fail" -> FALSE
       [] result = "payload" -> e.payload = g.payload
       [] result = "id" -> e.error = g.error
       [] result = "id+payload" -> e.error = g.error /\ e.payload = g.payload

classify(e, g) ==
  LET result == FirstMatch(CLASSIFY_TABLE, "classify", e, g)
  IN IF result # "idDependent" THEN result
     ELSE IF e.error = g.error THEN "errorPayloadMismatch" ELSE "errorIdentityMismatch"

\* The first offset, from 0, at which two payloads differ; -1 if they are the same.
first_diff_at(a, b) ==
  LET differ == {i \in 1..(Len(a) + Len(b)) :
                   i > Len(a) \/ i > Len(b) \/ a[i] # b[i]}
  IN IF a = b THEN -1 ELSE (CHOOSE i \in differ : \A j \in differ : i <= j) - 1

\* A divergence, or none: then ok.
verdict(mode, e, g) ==
  IF compare(mode, e, g) THEN [ok |-> TRUE]
  ELSE [ok |-> FALSE, category |-> classify(e, g),
        payload_diff_at |-> first_diff_at(e.payload, g.payload)]
=============================================================================
