---------------------------- MODULE OracleProbe -----------------------------
(***************************************************************************)
(* The differential oracle's driver (crates/oracle-runner/src/main.rs):    *)
(* it replays the rows of a manifest, one after the other, on one runtime  *)
(* of HostRuntime and compares what the component answers with what the    *)
(* row expects.  explain replays one row of the manifest.                  *)
(*                                                                         *)
(* A row that the runtime cannot serve, because an earlier row trapped,    *)
(* the epoch moved or the tank is empty, is reported like a row the        *)
(* component answers wrongly.                                              *)
(***************************************************************************)
EXTENDS HostRuntime, OracleMirror, SequencesExt

CONSTANTS
  RowKinds,   \* rows: what they expect and what the component answers, as characters,
              \* <<"trap">> if it traps, <<"missing">> if it lacks the function
  MinRows,    \* a manifest of fewer rows is refused as vacuous
  MaxRows,    \* bound: rows of a manifest
  r           \* the runtime

ASSUME ProbeAssumption ==
  /\ MaxRows \in Nat /\ MinRows \in 1..MaxRows /\ Runtimes = {r}
  /\ \A row \in RowKinds :
       /\ DOMAIN row = {"expected", "answer", "parses", "stream"}
       /\ row.answer \in Seq(STRING) /\ row.expected \in Seq(STRING)

VARIABLES
  manifest,   \* the rows
  asked,      \* the positions of the rows to replay: all, or the one to explain
  todo,       \* those not replayed yet
  pc,         \* "load", "built", "starting", "rows", "done"
  failures,   \* the rows reported, with what they were compared with
  exit        \* "none", "0", "1"

vars == <<ticking, rt, manifest, asked, todo, pc, failures, exit>>

\* What the row's call would return on a runtime that can run it.
Answer(row) == IF row.answer \in {<<"trap">>, <<"missing">>} THEN TrapOutcome ELSE Value(row.answer)
RowValue(row) == Value(row.expected)

Init ==
  /\ HostInit
  /\ manifest \in BoundedSeq(RowKinds, MaxRows)
  /\ asked \in {[i \in 1..Len(manifest) |-> i]} \cup {<<i>> : i \in 1..Len(manifest)}
  /\ todo = asked
  /\ pc = "load" /\ failures = <<>> /\ exit = "none"

Ends(code) == pc' = "done" /\ exit' = code

Refuse ==
  /\ pc = "load" /\ Len(manifest) < MinRows
  /\ Ends("1")
  /\ UNCHANGED <<hostVars, manifest, asked, todo, failures>>

Build ==
  /\ pc = "load" /\ Len(manifest) >= MinRows
  /\ New(r)
  /\ pc' = "built"
  /\ UNCHANGED <<manifest, asked, todo, failures, exit>>

Start ==
  /\ pc = "built"
  /\ Instantiate
  /\ pc' = "starting"
  /\ UNCHANGED <<manifest, asked, todo, failures, exit>>

Started ==
  /\ pc = "starting"
  /\ \E c \in Components : MayStart(r, c) /\ Instantiated(r, c, FALSE)
  /\ pc' = "rows"
  /\ UNCHANGED <<manifest, asked, todo, failures, exit>>

StartFails ==
  /\ pc = "starting"
  /\ Drop(r)
  /\ Ends("1")
  /\ UNCHANGED <<manifest, asked, todo, failures>>

EpochTick ==
  /\ Tick
  /\ UNCHANGED <<manifest, asked, todo, pc, failures, exit>>

-----------------------------------------------------------------------------
(* One row.                                                                *)

Replaying == pc = "rows" /\ todo # <<>>
Current == manifest[Head(todo)]

\* The comparison of probe; the list of failures is what the two output formats print.
Observed(got) ==
  /\ failures' = LET v == verdict("full", RowValue(Current), got)
                 IN IF v.ok THEN failures
                    ELSE Append(failures, [row |-> Head(todo), got |-> got, verdict |-> v])
  /\ todo' = Tail(todo)
  /\ UNCHANGED <<manifest, asked, pc, exit>>

\* build_args: an argument does not parse, and the whole run ends.
RowArgs ==
  /\ Replaying /\ ~Current.parses
  /\ Ends("1")
  /\ UNCHANGED <<hostVars, manifest, asked, todo, failures>>

RowReturns ==
  /\ Replaying /\ Current.parses
  /\ Answer(Current) # TrapOutcome
  /\ Burn(r)
  /\ Observed(Answer(Current))

\* Mutant of RowTraps: a call the runtime refuses is waited for.
RowTrapsWaits ==
  /\ Replaying /\ Current.parses /\ ~Current.stream
  /\ Current.answer = <<"trap">>
  /\ Trap(r)
  /\ Observed(TrapOutcome)

\* Any error of the call is Outcome::trap.
RowTraps ==
  /\ Replaying /\ Current.parses /\ ~Current.stream
  /\ Current.answer = <<"trap">> \/ (~MayRun(r) /\ Current.answer # <<"missing">>)
  /\ Trap(r)
  /\ Observed(TrapOutcome)

RowMissing ==
  /\ Replaying /\ Current.parses /\ ~Current.stream
  /\ Current.answer = <<"missing">>
  /\ UNCHANGED hostVars
  /\ Observed(TrapOutcome)

\* The stream rows pass the error on, and the whole run ends.
StreamFails ==
  /\ Replaying /\ Current.parses /\ Current.stream
  /\ Answer(Current) = TrapOutcome \/ ~MayRun(r)
  /\ Trap(r)
  /\ Ends("1")
  /\ UNCHANGED <<manifest, asked, todo, failures>>

\* The row's guest code burns more of the tank.
Compute ==
  /\ Replaying /\ Current.parses
  /\ Burn(r)
  /\ UNCHANGED <<manifest, asked, todo, pc, failures, exit>>

Finish ==
  /\ pc = "rows" /\ todo = <<>>
  /\ Ends(IF failures # <<>> THEN "1" ELSE "0")
  /\ UNCHANGED <<hostVars, manifest, asked, todo, failures>>

Replay == RowArgs \/ RowReturns \/ RowTraps \/ RowMissing \/ StreamFails \/ Compute

Next == Refuse \/ Build \/ Start \/ Started \/ StartFails \/ EpochTick \/ Replay \/ Finish

Spec == Init /\ [][Next]_vars

\* The driver goes on; a call ends.
FairSpec == Spec /\ WF_vars(Refuse \/ Build \/ Start \/ Started \/ StartFails \/ Replay \/ Finish)

-----------------------------------------------------------------------------

TypeOK ==
  /\ HostTypeOK
  /\ manifest \in BoundedSeq(RowKinds, MaxRows)
  /\ asked \in Seq(1..MaxRows) /\ todo \in Seq(1..MaxRows)
  /\ pc \in {"load", "built", "starting", "rows", "done"}
  /\ exit \in {"none", "0", "1"}

Reported == {failures[k].row : k \in DOMAIN failures}
Replayed == Range(asked) \ Range(todo)
Real(i) == Answer(manifest[i]) # RowValue(manifest[i])

\* A probe that ends well replayed every row and each was answered as it expects; no trap,
\* tick or missing export is taken for agreement.
CleanProbeAgrees ==
  exit = "0" => todo = <<>> /\ \A i \in Range(asked) : ~Real(i)

\* A row blamed although the component answers it rightly is the mark of a runtime that
\* serves nobody any more: from there on every replayed row is blamed.
BlameSpreads ==
  \A k \in DOMAIN failures :
    ~Real(failures[k].row) => \A i \in Replayed : i >= failures[k].row => i \in Reported

\* The Lean match CompareMode.compare, arm by arm.
CompareArms(mode, e, g) ==
  CASE mode = "ignore" -> (e.error = "none" /\ g.error = "none") => e.payload = g.payload
    [] mode = "identity" -> e.error = g.error
    [] mode = "full" -> e = g

\* "The agreement is swept": the fold over the table is the match of Lean, in every mode,
\* for every pair of a row's expectation with an error or an answer.
MirrorsLean ==
  \A mode \in {"ignore", "identity", "full"}, row \in RowKinds :
    LET outcomes == {RowValue(row), Answer(row), TrapOutcome,
                     [error |-> "arityDrift", payload |-> row.expected]}
    IN \A e, g \in outcomes : compare(mode, e, g) = CompareArms(mode, e, g)

\* "A mismatch always names one of these": the category tells what kinds of outcome met,
\* and the offset is where the payloads part.  The comparison itself is that of Lean.
VerdictNames ==
  /\ MirrorsLean
  /\ \A k \in DOMAIN failures :
       LET e == RowValue(manifest[failures[k].row])
           g == failures[k].got
           v == failures[k].verdict
       IN /\ v.category = (IF g.error = "none" THEN "valueMismatch" ELSE "expectedValueGotError")
          /\ v.payload_diff_at = (IF e.payload = g.payload THEN -1
                                  ELSE Len(LongestCommonPrefix({e.payload, g.payload})))

\* The probe ends whatever the guest does and however it is interrupted: guest code is
\* metered, and a runtime that refuses a call answers at once.
ProbeEnds == <>(pc = "done")
=============================================================================
