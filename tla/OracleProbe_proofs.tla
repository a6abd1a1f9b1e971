------------------------- MODULE OracleProbe_proofs -------------------------
(***************************************************************************)
(* What a probe says of a component is true of it, for every set of rows,  *)
(* every length of a manifest and every tank: a clean probe means that     *)
(* every row is answered as expected, a row blamed wrongly is followed by  *)
(* blame only, and every verdict names what met.                           *)
(*                                                                         *)
(* The comparison is the one of Lean because in each mode the first row of *)
(* the table that matches is known; the probe's two claims then rest on    *)
(* what is replayed being a beginning of what was asked for (Queue), on    *)
(* what a failure says (Blame), and on a runtime that once refused a row   *)
(* being trapped for good (Spoilt).                                        *)
(***************************************************************************)
EXTENDS OracleProbe, SequenceTheorems, WellFoundedInduction, TLAPS

-----------------------------------------------------------------------------
(* The tables.                                                             *)

Matches(row, mode, e, g) ==
  row.mode = mode /\ pat_matches(row.expected, e.error) /\ pat_matches(row.got, g.error)

\* The first row that matches decides.
LEMMA FirstRow ==
  ASSUME NEW table, NEW mode, NEW e, NEW g, NEW n \in Nat, DOMAIN table = 1..n,
         NEW i \in 1..n, Matches(table[i], mode, e, g),
         \A j \in 1..n : j < i => ~Matches(table[j], mode, e, g)
  PROVE  FirstMatch(table, mode, e, g) = table[i].result
<1> DEFINE M == {j \in DOMAIN table : /\ table[j].mode = mode
                                      /\ pat_matches(table[j].expected, e.error)
                                      /\ pat_matches(table[j].got, g.error)}
<1>1. /\ i \in M /\ M \in SUBSET (1..n)
      /\ \A j \in M : i <= j
  BY DEF Matches
<1>2. FirstMatch(table, mode, e, g) = table[Min(M)].result
  BY DEF FirstMatch
<1> HIDE DEF M
<1>3. \A x \in M : (\A y \in M : x <= y) => x = i
  BY <1>1
<1>4. Min(M) = i
  BY <1>1, <1>3 DEF Min
<1> QED BY <1>2, <1>4

\* compare's fold over the table is the match of Lean.
LEMMA CompareIsArms ==
  ASSUME NEW e, NEW g, e = [error |-> e.error, payload |-> e.payload],
         g = [error |-> g.error, payload |-> g.payload],
         NEW mode \in {"ignore", "identity", "full"}
  PROVE  compare(mode, e, g) = CompareArms(mode, e, g)
<1>1. /\ DOMAIN COMPARE_TABLE = 1..9
      /\ COMPARE_TABLE[1] = Row("ignore", "some", "any", "pass")
      /\ COMPARE_TABLE[2] = Row("ignore", "any", "some", "pass")
      /\ COMPARE_TABLE[3] = Row("ignore", "none", "none", "payload")
      /\ COMPARE_TABLE[4] = Row("identity", "some", "some", "id")
      /\ COMPARE_TABLE[5] = Row("identity", "none", "none", "pass")
      /\ COMPARE_TABLE[6] = Row("identity", "any", "any", "fail")
      /\ COMPARE_TABLE[7] = Row("full", "some", "some", "id+payload")
      /\ COMPARE_TABLE[8] = Row("full", "none", "none", "payload")
      /\ COMPARE_TABLE[9] = Row("full", "any", "any", "fail")
  BY DEF COMPARE_TABLE
<1>2. /\ pat_matches("any", e.error) /\ pat_matches("any", g.error)
      /\ pat_matches("none", e.error) <=> e.error = "none"
      /\ pat_matches("some", e.error) <=> e.error # "none"
      /\ pat_matches("none", g.error) <=> g.error = "none"
      /\ pat_matches("some", g.error) <=> g.error # "none"
  BY DEF pat_matches
<1>3. \A i \in 1..9 : i \in {1, 2, 3, 4, 5, 6, 7, 8, 9}
  OBVIOUS
<1>4. DOMAIN COMPARE_TABLE = 1..9 /\ 9 \in Nat
  BY <1>1
<1>6. ASSUME NEW i \in 1..9, Matches(COMPARE_TABLE[i], mode, e, g),
             \A j \in 1..9 : j < i => ~Matches(COMPARE_TABLE[j], mode, e, g)
      PROVE  FirstMatch(COMPARE_TABLE, mode, e, g) = COMPARE_TABLE[i].result
  <2>1. /\ DOMAIN COMPARE_TABLE = 1..9 /\ 9 \in Nat /\ i \in 1..9
        /\ Matches(COMPARE_TABLE[i], mode, e, g)
        /\ \A j \in 1..9 : j < i => ~Matches(COMPARE_TABLE[j], mode, e, g)
    BY <1>4, <1>6
  <2>2. \A n \in Nat : \A k \in 1..n :
          /\ DOMAIN COMPARE_TABLE = 1..n /\ Matches(COMPARE_TABLE[k], mode, e, g)
          /\ \A j \in 1..n : j < k => ~Matches(COMPARE_TABLE[j], mode, e, g)
          => FirstMatch(COMPARE_TABLE, mode, e, g) = COMPARE_TABLE[k].result
    BY FirstRow
  <2> QED BY <2>1, <2>2, Zenon
<1>7. CASE mode = "ignore"
  <2>1. CASE e.error # "none"
    <3>1. FirstMatch(COMPARE_TABLE, mode, e, g) = "pass"
      BY <1>1, <1>2, <1>6, <1>7, <2>1 DEF Row, Matches
    <3> QED BY <1>7, <2>1, <3>1 DEF compare, CompareArms
  <2>2. CASE e.error = "none" /\ g.error # "none"
    <3>1. FirstMatch(COMPARE_TABLE, mode, e, g) = "pass"
      BY <1>1, <1>2, <1>3, <1>6, <1>7, <2>2 DEF Row, Matches
    <3> QED BY <1>7, <2>2, <3>1 DEF compare, CompareArms
  <2>3. CASE e.error = "none" /\ g.error = "none"
    <3>1. FirstMatch(COMPARE_TABLE, mode, e, g) = "payload"
      BY <1>1, <1>2, <1>3, <1>6, <1>7, <2>3 DEF Row, Matches
    <3> QED BY <1>7, <2>3, <3>1 DEF compare, CompareArms
  <2> QED BY <2>1, <2>2, <2>3
<1>8. CASE mode = "identity"
  <2>1. CASE e.error # "none" /\ g.error # "none"
    <3>1. FirstMatch(COMPARE_TABLE, mode, e, g) = "id"
      BY <1>1, <1>2, <1>3, <1>6, <1>8, <2>1 DEF Row, Matches
    <3> QED BY <1>8, <3>1 DEF compare, CompareArms
  <2>2. CASE e.error = "none" /\ g.error = "none"
    <3>1. FirstMatch(COMPARE_TABLE, mode, e, g) = "pass"
      BY <1>1, <1>2, <1>3, <1>6, <1>8, <2>2 DEF Row, Matches
    <3> QED BY <1>8, <2>2, <3>1 DEF compare, CompareArms
  <2>3. CASE (e.error = "none") # (g.error = "none")
    <3>1. FirstMatch(COMPARE_TABLE, mode, e, g) = "fail"
      BY <1>1, <1>2, <1>3, <1>6, <1>8, <2>3 DEF Row, Matches
    <3> QED BY <1>8, <2>3, <3>1 DEF compare, CompareArms
  <2> QED BY <2>1, <2>2, <2>3
<1>9. CASE mode = "full"
  <2>0. e = g <=> e.error = g.error /\ e.payload = g.payload
    OBVIOUS
  <2>1. CASE e.error # "none" /\ g.error # "none"
    <3>1. FirstMatch(COMPARE_TABLE, mode, e, g) = "id+payload"
      BY <1>1, <1>2, <1>3, <1>6, <1>9, <2>1 DEF Row, Matches
    <3> QED BY <1>9, <2>0, <3>1 DEF compare, CompareArms
  <2>2. CASE e.error = "none" /\ g.error = "none"
    <3>1. FirstMatch(COMPARE_TABLE, mode, e, g) = "payload"
      BY <1>1, <1>2, <1>3, <1>6, <1>9, <2>2 DEF Row, Matches
    <3> QED BY <1>9, <2>0, <2>2, <3>1 DEF compare, CompareArms
  <2>3. CASE (e.error = "none") # (g.error = "none")
    <3>1. FirstMatch(COMPARE_TABLE, mode, e, g) = "fail"
      BY <1>1, <1>2, <1>3, <1>6, <1>9, <2>3 DEF Row, Matches
    <3> QED BY <1>9, <2>0, <2>3, <3>1 DEF compare, CompareArms
  <2> QED BY <2>1, <2>2, <2>3
<1> QED BY <1>7, <1>8, <1>9

\* The category of a divergence from an expected value.
LEMMA ClassifyValue ==
  ASSUME NEW e, NEW g, e.error = "none"
  PROVE  classify(e, g) = IF g.error = "none" THEN "valueMismatch" ELSE "expectedValueGotError"
<1>1. /\ DOMAIN CLASSIFY_TABLE = 1..4 /\ 4 \in Nat
      /\ CLASSIFY_TABLE[1] = Row("classify", "none", "none", "valueMismatch")
      /\ CLASSIFY_TABLE[2] = Row("classify", "none", "some", "expectedValueGotError")
  BY DEF CLASSIFY_TABLE
<1>2. CASE g.error = "none"
  <2>1. Matches(CLASSIFY_TABLE[1], "classify", e, g)
    BY <1>1, <1>2 DEF Row, Matches, pat_matches
  <2>2. FirstMatch(CLASSIFY_TABLE, "classify", e, g) = CLASSIFY_TABLE[1].result
    <3>1. 1 \in 1..4 /\ \A j \in 1..4 : ~(j < 1)
      OBVIOUS
    <3>2. \A n \in Nat : \A k \in 1..n :
            /\ DOMAIN CLASSIFY_TABLE = 1..n /\ Matches(CLASSIFY_TABLE[k], "classify", e, g)
            /\ \A j \in 1..n : j < k => ~Matches(CLASSIFY_TABLE[j], "classify", e, g)
            => FirstMatch(CLASSIFY_TABLE, "classify", e, g) = CLASSIFY_TABLE[k].result
      BY FirstRow
    <3> QED BY <1>1, <2>1, <3>1, <3>2, Zenon
  <2> QED BY <1>1, <1>2, <2>2 DEF Row, classify
<1>3. CASE g.error # "none"
  <2>1. Matches(CLASSIFY_TABLE[2], "classify", e, g) /\ ~Matches(CLASSIFY_TABLE[1], "classify", e, g)
    BY <1>1, <1>3 DEF Row, Matches, pat_matches
  <2>2. FirstMatch(CLASSIFY_TABLE, "classify", e, g) = CLASSIFY_TABLE[2].result
    <3>1. 2 \in 1..4 /\ \A j \in 1..4 : j < 2 => j = 1
      OBVIOUS
    <3>2. \A n \in Nat : \A k \in 1..n :
            /\ DOMAIN CLASSIFY_TABLE = 1..n /\ Matches(CLASSIFY_TABLE[k], "classify", e, g)
            /\ \A j \in 1..n : j < k => ~Matches(CLASSIFY_TABLE[j], "classify", e, g)
            => FirstMatch(CLASSIFY_TABLE, "classify", e, g) = CLASSIFY_TABLE[k].result
      BY FirstRow
    <3> QED BY <1>1, <2>1, <3>1, <3>2, Zenon
  <2> QED BY <1>1, <1>3, <2>2 DEF Row, classify
<1> QED BY <1>2, <1>3

-----------------------------------------------------------------------------
(* Where payloads part.                                                    *)

\* A set of numbers has a least one.
LEMMA LeastOf ==
  ASSUME NEW T \in SUBSET Nat, T # {}
  PROVE  \E x \in T : \A y \in T : x <= y
<1>1. PICK x \in T : \A y \in T : ~(<<y, x>> \in OpToRel(<, Nat))
  BY NatLessThanWellFounded, WFMin
<1>2. ASSUME NEW y \in T PROVE x <= y
  <2>1. ~(y < x)
    BY <1>1 DEF OpToRel
  <2> QED BY <2>1
<1> QED BY <1>2

\* A beginning of a sequence, position by position.
LEMMA PrefixFacts ==
  ASSUME NEW S, NEW a \in Seq(S), NEW b \in Seq(S), NEW l \in 0..Len(a), l <= Len(b)
  PROVE  /\ SubSeq(a, 1, l) \in Seq(S) /\ Len(SubSeq(a, 1, l)) = l
         /\ \A i \in 1..l : SubSeq(a, 1, l)[i] = a[i]
         /\ SubSeq(a, 1, l) = SubSeq(b, 1, l) <=> \A i \in 1..l : a[i] = b[i]
<1>1. Len(a) \in Nat /\ Len(b) \in Nat /\ l \in Nat
  BY LenProperties
<1>2. /\ SubSeq(a, 1, l) \in Seq(S) /\ Len(SubSeq(a, 1, l)) = l
      /\ \A i \in 1..l : SubSeq(a, 1, l)[i] = a[i]
  BY <1>1, SubSeqProperties, ElementOfSeq
<1>3. /\ SubSeq(b, 1, l) \in Seq(S) /\ Len(SubSeq(b, 1, l)) = l
      /\ \A i \in 1..l : SubSeq(b, 1, l)[i] = b[i]
  BY <1>1, SubSeqProperties, ElementOfSeq
<1>4. ASSUME \A i \in 1..l : a[i] = b[i] PROVE SubSeq(a, 1, l) = SubSeq(b, 1, l)
  BY <1>2, <1>3, <1>4, SeqEqual
<1>5. ASSUME SubSeq(a, 1, l) = SubSeq(b, 1, l) PROVE \A i \in 1..l : a[i] = b[i]
  BY <1>2, <1>3, <1>5
<1> QED BY <1>2, <1>4, <1>5

\* What two sequences have in common, up to the first position at which they part.
LEMMA FirstDiff ==
  ASSUME NEW S, NEW a \in Seq(S), NEW b \in Seq(S), a # b
  PROVE  first_diff_at(a, b) = Len(LongestCommonPrefix({a, b}))
<1> DEFINE differ == {i \in 1..(Len(a) + Len(b)) : i > Len(a) \/ i > Len(b) \/ a[i] # b[i]}
           c == first_diff_at(a, b)
<1>1. Len(a) \in Nat /\ Len(b) \in Nat
  BY LenProperties
<1>2. differ \in SUBSET Nat /\ differ # {}
  <2>1. differ \in SUBSET Nat
    BY <1>1
  <2>2. CASE Len(a) = Len(b)
    <3>1. PICK i \in 1..Len(a) : a[i] # b[i]
      BY <2>2, SeqEqual
    <3>2. i \in differ
      BY <1>1, <3>1
    <3> QED BY <2>1, <3>2
  <2>3. CASE Len(a) < Len(b)
    <3>1. Len(a) + 1 \in differ
      BY <1>1, <2>3
    <3> QED BY <2>1, <3>1
  <2>4. CASE Len(b) < Len(a)
    <3>1. Len(b) + 1 \in differ
      BY <1>1, <2>4
    <3> QED BY <2>1, <3>1
  <2> QED BY <1>1, <2>2, <2>3, <2>4
<1>3. PICK d \in differ : \A j \in differ : d <= j
  <2> HIDE DEF differ
  <2> QED BY <1>2, LeastOf
<1>4. c = d - 1
  <2>1. c = (CHOOSE i \in differ : \A j \in differ : i <= j) - 1
    BY DEF first_diff_at
  <2> HIDE DEF differ, c
  <2>2. \A i \in differ : (\A j \in differ : i <= j) => i = d
    BY <1>2, <1>3
  <2>3. (CHOOSE i \in differ : \A j \in differ : i <= j) = d
    BY <1>3, <2>2
  <2> QED BY <2>1, <2>3
<1> HIDE DEF c
<1>5. /\ c \in Nat /\ c <= Len(a) /\ c <= Len(b)
      /\ \A i \in 1..c : a[i] = b[i]
      /\ d > Len(a) \/ d > Len(b) \/ a[d] # b[d]
  <2>1. d \in 1..(Len(a) + Len(b)) /\ (d > Len(a) \/ d > Len(b) \/ a[d] # b[d])
    BY <1>3
  <2>2. c \in Nat
    BY <1>1, <1>4, <2>1
  <2>3. c <= Len(a)
    <3>1. SUFFICES ASSUME c > Len(a) PROVE FALSE
      BY <1>1, <2>2
    <3>2. Len(a) + 1 \in differ /\ Len(a) + 1 < d
      BY <1>1, <1>4, <2>1, <2>2, <3>1
    <3> QED BY <1>1, <1>3, <2>1, <3>2
  <2>4. c <= Len(b)
    <3>1. SUFFICES ASSUME c > Len(b) PROVE FALSE
      BY <1>1, <2>2
    <3>2. Len(b) + 1 \in differ /\ Len(b) + 1 < d
      BY <1>1, <1>4, <2>1, <2>2, <3>1
    <3> QED BY <1>1, <1>3, <2>1, <3>2
  <2>5. ASSUME NEW i \in 1..c PROVE a[i] = b[i]
    <3>1. i \in 1..(Len(a) + Len(b)) /\ i < d
      BY <1>1, <1>4, <2>1, <2>2
    <3>2. i \notin differ
      BY <1>3, <2>1, <3>1
    <3> QED BY <3>1, <3>2
  <2> QED BY <2>1, <2>2, <2>3, <2>4, <2>5
<1> HIDE DEF differ
<1> DEFINE p == SubSeq(a, 1, c)
           common == CommonPrefixes({a, b})
<1>6. p \in common /\ Len(p) = c
  <2>1. c \in 0..Len(a) /\ c \in 0..Len(b)
    BY <1>1, <1>5
  <2>2. p \in Seq(S) /\ Len(p) = c /\ p = SubSeq(b, 1, c)
    BY <1>5, <2>1, PrefixFacts
  <2>3. SubSeq(p, 1, c) = p
    BY <2>2, SubSeqFull
  <2>4. IsPrefix(p, a) /\ IsPrefix(p, b)
    BY <1>5, <2>2, <2>3 DEF IsPrefix
  <2>5. p \in Prefixes(a)
    BY <2>1 DEF Prefixes
  <2> QED BY <2>2, <2>4, <2>5 DEF CommonPrefixes
<1>7. ASSUME NEW q \in common PROVE Len(q) \in Nat /\ Len(q) <= c
  <2>1. IsPrefix(q, a) /\ IsPrefix(q, b) /\ (q \in Prefixes(a) \/ q \in Prefixes(b))
    BY DEF CommonPrefixes
  <2>2. PICK e \in {a, b} : \E l \in 0..Len(e) : q = SubSeq(e, 1, l)
    BY <2>1 DEF Prefixes
  <2> PICK l \in 0..Len(e) : q = SubSeq(e, 1, l)
    BY <2>2
  <2>3. q \in Seq(S) /\ Len(q) = l /\ l \in Nat
    BY <1>1, <2>2, PrefixFacts
  <2>4. l <= Len(a) /\ l <= Len(b)
    BY <2>1, <2>3 DEF IsPrefix
  <2>5. SubSeq(a, 1, l) = SubSeq(b, 1, l)
    BY <2>1, <2>3 DEF IsPrefix
  <2>6. \A i \in 1..l : a[i] = b[i]
    <3>1. l \in 0..Len(a)
      BY <1>1, <2>3, <2>4
    <3> QED BY <2>4, <2>5, <3>1, PrefixFacts
  <2>7. d \in Nat /\ ~(d <= l)
    BY <1>1, <1>2, <1>3, <1>4, <1>5, <2>3, <2>4, <2>6
  <2> QED BY <1>4, <2>3, <2>7
<1> HIDE DEF p, common
<1>8. LongestCommonPrefix({a, b}) \in common /\ Len(p) <= Len(LongestCommonPrefix({a, b}))
  <2>1. \E q \in common : \A other \in common : Len(other) <= Len(q)
    BY <1>6, <1>7
  <2> QED BY <1>6, <2>1 DEF LongestCommonPrefix, common
<1> QED BY <1>5, <1>6, <1>7, <1>8 DEF c

-----------------------------------------------------------------------------
(* The invariant.                                                          *)

\* What a row can be compared with, and the report on row i when that was got.
Outcomes == {TrapOutcome} \cup {Answer(row) : row \in RowKinds}
ReportOn(i, got) ==
  [row |-> i, got |-> got, verdict |-> verdict("full", RowValue(manifest[i]), got)]
Reports == {ReportOn(i, got) : i \in 1..Len(manifest), got \in Outcomes}

Types ==
  /\ HostTypeOK
  /\ manifest \in Seq(RowKinds) /\ Len(manifest) <= MaxRows
  /\ asked \in Seq(1..Len(manifest)) /\ todo \in Seq(1..Len(manifest))
  /\ pc \in {"load", "built", "starting", "rows", "done"}
  /\ failures \in Seq(Reports)
  /\ exit \in {"none", "0", "1"}

\* The rows are replayed in the order of the manifest, and those left are an end of it.
Queue ==
  /\ \A a, b \in 1..Len(asked) : a < b => asked[a] < asked[b]
  /\ Len(todo) <= Len(asked)
  /\ \A n \in 1..Len(todo) : todo[n] = asked[Len(asked) - Len(todo) + n]

Phase ==
  /\ pc \in {"load", "built", "starting"} => todo = asked /\ failures = <<>>
  /\ pc # "done" => exit = "none"
  /\ exit = "0" => todo = <<>> /\ failures = <<>>

\* A failure is about a replayed row, and what it got differs; a replayed row without one is
\* answered as expected.
Blame ==
  /\ \A k \in DOMAIN failures :
       failures[k].row \in Replayed /\ failures[k].got # RowValue(manifest[failures[k].row])
  /\ \A i \in Replayed : i \in Reported \/ ~Real(i)

\* Who blamed a row wrongly has a runtime that trapped.
Spoilt == (\E k \in DOMAIN failures : ~Real(failures[k].row)) => rt[r].trapped

IInv == Types /\ Queue /\ Phase /\ Blame /\ Spoilt /\ BlameSpreads

-----------------------------------------------------------------------------
(* The runtime.                                                            *)

HostStep ==
  \/ New(r) \/ Instantiate \/ Burn(r) \/ Trap(r) \/ Tick \/ UNCHANGED hostVars
  \/ \E c \in Components : Instantiated(r, c, FALSE)

\* What the driver does to its runtime leaves it a runtime, and trapped if it was.
LEMMA HostKeeps ==
  ASSUME HostTypeOK, HostStep
  PROVE  HostTypeOK' /\ (rt[r].trapped => rt'[r].trapped)
<1> USE RuntimeAssumption, ProbeAssumption
<1>1. /\ rt \in [Runtimes -> RuntimeType] /\ rt[r] \in RuntimeType /\ r \in Runtimes
      /\ Runtimes = {r} /\ ticking \in BOOLEAN
  BY DEF HostTypeOK
<1>2. CASE New(r)
  <2>0. Fuel \in 0..Fuel
    OBVIOUS
  <2>1. [rt[r] EXCEPT !.phase = "closed", !.fuel = Fuel] \in RuntimeType
    BY <1>1, <2>0 DEF RuntimeType, Phases
  <2> QED BY <1>1, <1>2, <2>1 DEF New, HostTypeOK
<1>3. CASE Instantiate
  BY <1>1, <1>3 DEF Instantiate, HostTypeOK
<1>4. CASE Burn(r)
  <2>1. rt[r].fuel - 1 \in 0..Fuel
    BY <1>1, <1>4 DEF RuntimeType, Burn, MayRun
  <2>2. [rt[r] EXCEPT !.fuel = @ - 1] \in RuntimeType
    BY <1>1, <2>1 DEF RuntimeType
  <2> QED BY <1>1, <1>4, <2>2 DEF Burn, HostTypeOK
<1>5. CASE Trap(r)
  <2>1. [rt[r] EXCEPT !.trapped = TRUE] \in RuntimeType
    BY <1>1 DEF RuntimeType
  <2> QED BY <1>1, <1>5, <2>1 DEF Trap, HostTypeOK, RuntimeType
<1>6. CASE Tick
  <2>1. [rt[r] EXCEPT !.overdue = TRUE] \in RuntimeType
    BY <1>1 DEF RuntimeType
  <2>2. rt'[r] \in {rt[r], [rt[r] EXCEPT !.overdue = TRUE]}
    BY <1>1, <1>6 DEF Tick
  <2>3. rt' \in [Runtimes -> RuntimeType]
    BY <1>1, <1>6, <2>1 DEF Tick
  <2>4. rt'[r].trapped = rt[r].trapped
    BY <1>1, <2>2 DEF RuntimeType
  <2> QED BY <1>1, <1>6, <2>3, <2>4 DEF Tick, HostTypeOK
<1>7. CASE UNCHANGED hostVars
  BY <1>1, <1>7 DEF hostVars, HostTypeOK
<1>8. CASE \E c \in Components : Instantiated(r, c, FALSE)
  <2> PICK c \in Components : Instantiated(r, c, FALSE)
    BY <1>8
  <2>1. [rt[r] EXCEPT !.phase = "ready", !.exports = Exports[c], !.checked = FALSE] \in RuntimeType
    BY <1>1 DEF RuntimeType, Phases
  <2> QED BY <1>1, <2>1 DEF Instantiated, HostTypeOK
<1> QED BY <1>2, <1>3, <1>4, <1>5, <1>6, <1>7, <1>8 DEF HostStep

\* A runtime that is dropped is a runtime.
LEMMA DropKeeps ==
  ASSUME HostTypeOK, Drop(r)
  PROVE  HostTypeOK'
<1> USE RuntimeAssumption, ProbeAssumption
<1>1. 0 \in 0..Fuel
  OBVIOUS
<1>2. [Unbuilt EXCEPT !.phase = "dropped"] \in RuntimeType
  BY <1>1 DEF Unbuilt, RuntimeType, Phases
<1> QED BY <1>2 DEF Drop, HostTypeOK

\* A call that traps leaves the runtime trapped.
LEMMA TrapTraps ==
  ASSUME HostTypeOK, Trap(r)
  PROVE  rt'[r].trapped
<1>1. rt \in [Runtimes -> RuntimeType] /\ r \in Runtimes
  BY ProbeAssumption DEF HostTypeOK
<1> QED BY <1>1 DEF Trap, RuntimeType

-----------------------------------------------------------------------------
(* The queue.                                                              *)

\* If what is left is an end of what was asked for, what is done is the beginning.
LEMMA DoneIsPrefix ==
  ASSUME NEW a \in Seq(Nat), NEW t \in Seq(Nat), Len(t) <= Len(a),
         \A x, y \in 1..Len(a) : x < y => a[x] < a[y],
         \A n \in 1..Len(t) : t[n] = a[Len(a) - Len(t) + n]
  PROVE  Range(a) \ Range(t) = {a[k] : k \in 1..(Len(a) - Len(t))}
<1> DEFINE d == Len(a) - Len(t)
<1>1. /\ Len(a) \in Nat /\ Len(t) \in Nat /\ d \in Nat
      /\ DOMAIN a = 1..Len(a) /\ DOMAIN t = 1..Len(t)
  BY LenProperties
<1>2. ASSUME NEW k \in 1..d PROVE a[k] \in Range(a) \ Range(t)
  <2>1. k \in 1..Len(a)
    BY <1>1
  <2>2. ASSUME NEW n \in 1..Len(t) PROVE a[k] # t[n]
    <3>1. d + n \in 1..Len(a) /\ k < d + n /\ t[n] = a[d + n]
      BY <1>1
    <3>2. a[k] < a[d + n] /\ a[k] \in Nat /\ a[d + n] \in Nat
      BY <2>1, <3>1, ElementOfSeq
    <3> QED BY SMTT(60), <3>1, <3>2
  <2> QED BY <1>1, <2>1, <2>2 DEF Range
<1>3. ASSUME NEW x \in Range(a) \ Range(t) PROVE \E k \in 1..d : x = a[k]
  <2>1. PICK k \in 1..Len(a) : x = a[k]
    BY <1>1 DEF Range
  <2>2. CASE k > d
    <3>1. k - d \in 1..Len(t) /\ d + (k - d) = k
      BY <1>1, <2>2
    <3>2. t[k - d] = a[k]
      BY <3>1
    <3> QED BY <1>1, <2>1, <3>1, <3>2 DEF Range
  <2>3. CASE k <= d
    <3>1. k \in 1..d
      BY <1>1, <2>3
    <3> QED BY <2>1, <3>1
  <2> QED BY <1>1, <2>2, <2>3
<1> QED BY <1>2, <1>3

\* A row that is replayed comes after all that were replayed before it.
LEMMA NextInQueue ==
  ASSUME Types, Queue, todo # <<>>, todo' = Tail(todo), asked' = asked, manifest' = manifest
  PROVE  /\ Head(todo) \in 1..Len(manifest) /\ Head(todo) \in Nat
         /\ todo' \in Seq(1..Len(manifest))
         /\ Queue'
         /\ Replayed' = Replayed \cup {Head(todo)}
         /\ \A i \in Replayed : i \in Nat /\ i < Head(todo)
<1> DEFINE a == asked
           t == todo
           d == Len(a) - Len(t)
<1>1. /\ a \in Seq(1..Len(manifest)) /\ t \in Seq(1..Len(manifest))
      /\ Len(manifest) \in Nat
  BY LenProperties DEF Types
<1>2. a \in Seq(Nat) /\ t \in Seq(Nat) /\ t' \in Seq(Nat) /\ t' \in Seq(1..Len(manifest))
  <2>1. 1..Len(manifest) \in SUBSET Nat
    BY <1>1
  <2>2. \A s \in Seq(1..Len(manifest)) : s \in Seq(Nat)
    BY <2>1, SeqMonotonic
  <2>3. t' \in Seq(1..Len(manifest))
    BY <1>1, HeadTailProperties
  <2> QED BY <1>1, <2>2, <2>3
<1>3. /\ Len(a) \in Nat /\ Len(t) \in Nat /\ Len(t) > 0 /\ Len(t') = Len(t) - 1
      /\ Head(t) \in 1..Len(manifest) /\ Head(t) = t[1]
      /\ \A n \in 1..Len(t') : t'[n] = t[n + 1]
  BY <1>1, HeadTailProperties, EmptySeq, LenProperties
<1>4. /\ \A x, y \in 1..Len(a) : x < y => a[x] < a[y]
      /\ Len(t) <= Len(a)
      /\ \A n \in 1..Len(t) : t[n] = a[d + n]
  BY DEF Queue
<1>5. d \in Nat /\ d + 1 \in 1..Len(a) /\ Len(a) - Len(t') = d + 1
  BY <1>3, <1>4
<1>6. \A n \in 1..Len(t') : t'[n] = a[Len(a) - Len(t') + n]
  <2> SUFFICES ASSUME NEW n \in 1..Len(t') PROVE t'[n] = a[Len(a) - Len(t') + n]
    OBVIOUS
  <2>1. n + 1 \in 1..Len(t) /\ Len(a) - Len(t') + n = d + (n + 1)
    BY <1>3, <1>5
  <2> QED BY <1>3, <1>4, <2>1
<1>7. Len(t') <= Len(a)
  BY <1>3, <1>4
<1>8. Queue'
  BY <1>4, <1>6, <1>7 DEF Queue
<1>9. Range(a) \ Range(t) = {a[k] : k \in 1..d}
  BY <1>2, <1>4, DoneIsPrefix
<1>10. Range(a) \ Range(t') = {a[k] : k \in 1..(d + 1)}
  <2>1. Range(a) \ Range(t') = {a[k] : k \in 1..(Len(a) - Len(t'))}
    <3> HIDE DEF a, t, d
    <3> QED BY <1>2, <1>4, <1>6, <1>7, DoneIsPrefix
  <2> QED BY <1>5, <2>1
<1>11. Head(t) = a[d + 1]
  BY <1>3, <1>4
<1>12. 1..(d + 1) = 1..d \cup {d + 1}
  BY <1>5
<1>13. \A k \in 1..d : k \in 1..Len(a) /\ a[k] \in Nat /\ a[k] < a[d + 1]
  <2>1. \A k \in 1..d : k \in 1..Len(a) /\ k < d + 1
    BY <1>3, <1>5
  <2> QED BY <1>2, <1>4, <1>5, <2>1, ElementOfSeq
<1>14. Replayed = {a[k] : k \in 1..d} /\ Replayed' = {a[k] : k \in 1..(d + 1)}
  BY <1>9, <1>10 DEF Replayed
<1>15. Replayed' = Replayed \cup {Head(t)}
  BY <1>11, <1>12, <1>14
<1>16. \A i \in Replayed : i \in Nat /\ i < Head(t)
  BY <1>11, <1>13, <1>14
<1> QED BY <1>1, <1>2, <1>3, <1>8, <1>15, <1>16

-----------------------------------------------------------------------------
(* One row is compared.                                                    *)

\* What a row is compared with is an outcome, and the full comparison is equality.
LEMMA OutcomeFacts ==
  ASSUME NEW row \in RowKinds, NEW got \in Outcomes
  PROVE  /\ RowValue(row) = [error |-> "none", payload |-> row.expected]
         /\ got = [error |-> got.error, payload |-> got.payload]
         /\ got.payload \in Seq(STRING) /\ row.expected \in Seq(STRING)
         /\ RowValue(row) # TrapOutcome
         /\ verdict("full", RowValue(row), got).ok <=> got = RowValue(row)
<1>1. RowValue(row) = [error |-> "none", payload |-> row.expected]
  BY DEF RowValue, Value
<1>2. row.expected \in Seq(STRING)
  BY ProbeAssumption
<1>3. /\ got = [error |-> got.error, payload |-> got.payload]
      /\ got.payload \in Seq(STRING)
  <2>1. CASE got = TrapOutcome
    <3>1. <<>> \in Seq(STRING)
      BY EmptySeq
    <3> QED BY <2>1, <3>1 DEF TrapOutcome
  <2>2. CASE got # TrapOutcome
    <3>1. PICK other \in RowKinds : got = Answer(other)
      BY <2>2 DEF Outcomes
    <3>2. got = [error |-> "none", payload |-> other.answer]
      BY <2>2, <3>1 DEF Answer, Value
    <3>3. other.answer \in Seq(STRING)
      BY ProbeAssumption
    <3> QED BY <3>2, <3>3
  <2> QED BY <2>1, <2>2
<1>4. RowValue(row) # TrapOutcome
  BY <1>1 DEF TrapOutcome
<1>5. /\ RowValue(row).error = "none" /\ RowValue(row).payload = row.expected
      /\ RowValue(row) = [error |-> RowValue(row).error, payload |-> RowValue(row).payload]
  BY <1>1
<1>6. compare("full", RowValue(row), got) = CompareArms("full", RowValue(row), got)
  <2> "full" \in {"ignore", "identity", "full"}
    OBVIOUS
  <2> DEFINE e == RowValue(row)
  <2>1. e = [error |-> e.error, payload |-> e.payload]
    BY <1>5
  <2> HIDE DEF e
  <2>2. compare("full", e, got) = CompareArms("full", e, got)
    BY <1>3, <2>1, CompareIsArms
  <2> QED BY <2>2 DEF e
<1>7. compare("full", RowValue(row), got) <=> got = RowValue(row)
  BY <1>6 DEF CompareArms
<1>8. verdict("full", RowValue(row), got).ok <=> got = RowValue(row)
  BY <1>7 DEF verdict
<1> QED BY <1>1, <1>2, <1>3, <1>4, <1>8

\* Comparing a row with what was got adds its report, unless it is what the row expects.
LEMMA ObservedEffect ==
  ASSUME Types, Replaying, NEW got \in Outcomes, Observed(got),
         Head(todo) \in 1..Len(manifest)
  PROVE  /\ Current \in RowKinds
         /\ got = RowValue(Current) => failures' = failures
         /\ got # RowValue(Current) => failures' = Append(failures, ReportOn(Head(todo), got))
<1>1. Current \in RowKinds
  BY ElementOfSeq DEF Types, Current
<1>2. failures' = IF verdict("full", RowValue(Current), got).ok THEN failures
                  ELSE Append(failures, ReportOn(Head(todo), got))
  BY DEF Observed, ReportOn, Current
<1>3. verdict("full", RowValue(Current), got).ok <=> got = RowValue(Current)
  BY <1>1, OutcomeFacts
<1> QED BY <1>1, <1>2, <1>3

\* A row compared with what the runtime made of it keeps the invariant: if it passes, the
\* component answers it rightly; if it is blamed wrongly, the runtime is trapped; and a
\* trapped runtime passes no row.
LEMMA ObservedKeeps ==
  ASSUME IInv, Replaying, NEW got \in Outcomes, Observed(got),
         HostTypeOK', rt[r].trapped => rt'[r].trapped,
         got = RowValue(Current) => ~Real(Head(todo)),
         got # RowValue(Current) /\ ~Real(Head(todo)) => rt'[r].trapped,
         rt[r].trapped => got # RowValue(Current)
  PROVE  IInv'
<1> DEFINE h == Head(todo)
           f == ReportOn(h, got)
<1>1. /\ Types /\ Queue /\ Phase /\ Blame /\ Spoilt /\ BlameSpreads
      /\ todo # <<>> /\ pc = "rows" /\ todo' = Tail(todo)
      /\ manifest' = manifest /\ asked' = asked /\ pc' = pc /\ exit' = exit
  BY DEF IInv, Replaying, Observed
<1>2. /\ h \in 1..Len(manifest) /\ h \in Nat
      /\ todo' \in Seq(1..Len(manifest))
      /\ Queue'
      /\ Replayed' = Replayed \cup {h}
      /\ \A i \in Replayed : i \in Nat /\ i < h
  BY <1>1, NextInQueue
<1>3. /\ got = RowValue(Current) => failures' = failures
      /\ got # RowValue(Current) => failures' = Append(failures, f)
  BY <1>1, <1>2, ObservedEffect
<1>4. /\ failures \in Seq(Reports) /\ f \in Reports
      /\ f.row = h /\ f.got = got /\ Current = manifest[h]
  BY <1>1, <1>2 DEF Types, Reports, ReportOn, Current
<1>5. \A i : Real(i)' <=> Real(i)
  BY <1>1 DEF Real, Answer, RowValue
<1>6. /\ Len(failures) \in Nat /\ DOMAIN failures = 1..Len(failures)
      /\ failures' \in Seq(Reports) /\ DOMAIN failures' = 1..Len(failures')
  BY <1>3, <1>4, AppendProperties, LenProperties
\* The reports after the step.
<1>7. /\ \A k \in DOMAIN failures' : failures'[k].row \in Replayed'
      /\ \A k \in DOMAIN failures' :
           \/ k \in DOMAIN failures /\ failures'[k] = failures[k]
           \/ failures'[k] = f /\ got # RowValue(Current)
      /\ Reported \subseteq Reported'
      /\ got # RowValue(Current) => h \in Reported'
  <2>1. CASE got = RowValue(Current)
    BY <1>1, <1>2, <1>3, <2>1 DEF Blame, Reported
  <2>2. CASE got # RowValue(Current)
    <3>1. /\ Len(failures') = Len(failures) + 1
          /\ \A k \in 1..Len(failures) : failures'[k] = failures[k]
          /\ failures'[Len(failures) + 1] = f
      <4> HIDE DEF f
      <4> QED BY <1>3, <1>4, <2>2, AppendProperties
    <3>2. \A k \in DOMAIN failures' :
             \/ k \in DOMAIN failures /\ failures'[k] = failures[k]
             \/ failures'[k] = f
      BY <1>6, <3>1
    <3>3. DOMAIN failures \subseteq DOMAIN failures' /\ Len(failures) + 1 \in DOMAIN failures'
      BY <1>6, <3>1
    <3>4. \A k \in DOMAIN failures' : failures'[k].row \in Replayed'
      BY <1>1, <1>2, <1>4, <3>2 DEF Blame
    <3>5. Reported \subseteq Reported' /\ h \in Reported'
      <4> HIDE DEF f
      <4> QED BY <1>4, <1>6, <3>1, <3>3 DEF Reported
    <3> QED BY <2>2, <3>2, <3>4, <3>5
  <2> QED BY <2>1, <2>2
<1>8. Types'
  <2>1. \A i, o : ReportOn(i, o)' = ReportOn(i, o)
    BY <1>1 DEF ReportOn
  <2>2. Outcomes' = Outcomes /\ (1..Len(manifest))' = 1..Len(manifest)
    BY <1>1 DEF Outcomes, Answer
  <2>3. Reports' = Reports
    BY <2>1, <2>2 DEF Reports
  <2>4. failures' \in Seq(Reports)'
    BY <1>6, <2>3
  <2> HIDE DEF f, h
  <2> QED BY <1>1, <1>2, <2>4 DEF Types
<1>9. Phase'
  BY <1>1 DEF Phase
<1>10. Blame'
  <2>1. ASSUME NEW k \in DOMAIN failures'
        PROVE  /\ failures'[k].row \in Replayed'
               /\ failures'[k].got # RowValue(manifest[failures'[k].row])
    <3>1. failures'[k].row \in Replayed'
      BY <1>7
    <3>2. CASE k \in DOMAIN failures /\ failures'[k] = failures[k]
      BY <1>1, <3>1, <3>2 DEF Blame
    <3>3. CASE failures'[k] = f /\ got # RowValue(Current)
      BY <1>4, <3>1, <3>3
    <3> QED BY <1>7, <3>2, <3>3
  <2>2. ASSUME NEW i \in Replayed' PROVE i \in Reported' \/ ~Real(i)
    <3>1. CASE i \in Replayed
      BY <1>1, <1>7, <3>1 DEF Blame
    <3>2. CASE i = h
      <4> HIDE DEF f
      <4> QED BY <1>7, <3>2
    <3> QED BY <1>2, <3>1, <3>2
  <2> QED BY <1>1, <1>5, <2>1, <2>2 DEF Blame
<1>11. Spoilt'
  <2> SUFFICES ASSUME NEW k \in DOMAIN failures', ~Real(failures'[k].row) PROVE rt'[r].trapped
    BY <1>5 DEF Spoilt
  <2>1. CASE k \in DOMAIN failures /\ failures'[k] = failures[k]
    BY <1>1, <2>1 DEF Spoilt
  <2>2. CASE failures'[k] = f /\ got # RowValue(Current)
    BY <1>4, <2>2
  <2> QED BY <1>7, <2>1, <2>2
<1>12. BlameSpreads'
  <2> SUFFICES ASSUME NEW k \in DOMAIN failures', ~Real(failures'[k].row),
                      NEW i \in Replayed', i >= failures'[k].row
               PROVE  i \in Reported'
    BY <1>5 DEF BlameSpreads
  <2>1. CASE i = h
    <3>1. CASE got # RowValue(Current)
      BY <1>7, <2>1, <3>1
    <3>2. CASE got = RowValue(Current)
      <4>1. k \in DOMAIN failures /\ failures'[k] = failures[k]
        BY <1>7, <3>2
      <4>2. rt[r].trapped
        BY <1>1, <4>1 DEF Spoilt
      <4> QED BY <3>2, <4>2
    <3> QED BY <3>1, <3>2
  <2>2. CASE i \in Replayed
    <3>1. CASE k \in DOMAIN failures /\ failures'[k] = failures[k]
      BY <1>1, <1>7, <2>2, <3>1 DEF BlameSpreads
    <3>2. CASE failures'[k] = f
      BY <1>2, <1>4, <2>2, <3>2
    <3> QED BY <1>7, <3>1, <3>2
  <2> QED BY <1>2, <2>1, <2>2
<1> QED BY <1>2, <1>8, <1>9, <1>10, <1>11, <1>12 DEF IInv

-----------------------------------------------------------------------------
(* The steps.                                                              *)

\* A step that replays no row keeps the invariant if the runtime stays trapped or nobody is
\* blamed yet.
LEMMA FrameKeeps ==
  ASSUME IInv, UNCHANGED <<manifest, asked, todo, failures>>, HostTypeOK',
         failures = <<>> \/ (rt[r].trapped => rt'[r].trapped),
         pc' \in {"load", "built", "starting", "rows", "done"}, exit' \in {"none", "0", "1"},
         Phase'
  PROVE  IInv'
<1>1. Types /\ Queue /\ Blame /\ Spoilt /\ BlameSpreads
  BY DEF IInv
<1>2. /\ \A i : Real(i)' <=> Real(i)
      /\ Replayed' = Replayed /\ Reported' = Reported /\ Reports' = Reports
  BY DEF Real, Answer, RowValue, Replayed, Reported, Reports, ReportOn, Outcomes
<1>3. Types'
  BY <1>1, <1>2 DEF Types
<1>4. Queue'
  BY <1>1 DEF Queue
<1>5. Blame'
  BY <1>1, <1>2 DEF Blame, RowValue
<1>6. Spoilt'
  BY <1>1, <1>2 DEF Spoilt
<1>7. BlameSpreads'
  BY <1>1, <1>2 DEF BlameSpreads
<1> QED BY <1>3, <1>4, <1>5, <1>6, <1>7 DEF IInv

\* The driver starts with nothing replayed and nobody blamed.
LEMMA InitIInv ==
  ASSUME Init
  PROVE  IInv
<1>1. HostTypeOK
  <2>1. 0 \in 0..Fuel /\ [f \in Functions |-> NoExport] \in [Functions -> Nat \cup {NoExport}]
    BY RuntimeAssumption
  <2>2. Unbuilt \in RuntimeType
    BY <2>1 DEF Unbuilt, RuntimeType, Phases
  <2> QED BY <2>2 DEF Init, HostInit, HostTypeOK
<1>2. manifest \in Seq(RowKinds) /\ Len(manifest) \in Nat /\ Len(manifest) <= MaxRows
  <2>1. PICK n \in 0..MaxRows : manifest \in [1..n -> RowKinds]
    BY DEF Init, BoundedSeq, SeqOf
  <2>2. n \in Nat /\ manifest \in Seq(RowKinds) /\ Len(manifest) = n
    BY <2>1, ProbeAssumption
  <2> QED BY <2>1, <2>2, ProbeAssumption
<1>3. /\ asked \in Seq(1..Len(manifest))
      /\ \A a, b \in 1..Len(asked) : a < b => asked[a] < asked[b]
  <2>1. CASE asked = [i \in 1..Len(manifest) |-> i]
    BY <1>2, <2>1
  <2>2. CASE \E i \in 1..Len(manifest) : asked = <<i>>
    BY <1>2, <2>2
  <2> QED BY <2>1, <2>2 DEF Init
<1>4. /\ todo = asked /\ pc = "load" /\ failures = <<>> /\ exit = "none"
      /\ Len(asked) \in Nat /\ DOMAIN failures = {}
  BY <1>3, LenProperties DEF Init
<1>5. Replayed = {}
  BY <1>4 DEF Replayed
<1>6. Types
  <2>1. failures \in Seq(Reports)
    BY <1>4, EmptySeq
  <2> QED BY <1>1, <1>2, <1>3, <1>4, <2>1 DEF Types
<1>7. Queue
  BY <1>3, <1>4 DEF Queue
<1>8. Phase
  BY <1>4 DEF Phase
<1>9. Blame /\ Spoilt /\ BlameSpreads
  BY <1>4, <1>5 DEF Blame, Spoilt, BlameSpreads
<1> QED BY <1>6, <1>7, <1>8, <1>9 DEF IInv

\* A row that is answered: the runtime may run, and what is compared is the answer.
LEMMA RowReturnsKeeps ==
  ASSUME IInv, RowReturns
  PROVE  IInv'
<1>1. Types /\ Queue /\ todo # <<>> /\ HostTypeOK
  BY DEF IInv, Types, RowReturns, Replaying
<1>2. HostTypeOK' /\ (rt[r].trapped => rt'[r].trapped)
  BY <1>1, HostKeeps DEF RowReturns, HostStep
<1>3. ~rt[r].trapped
  BY DEF RowReturns, Burn, MayRun
<1>4. Current \in RowKinds
  BY <1>1, HeadTailProperties, ElementOfSeq DEF Types, Current
<1>5. Answer(Current) \in Outcomes
  BY <1>4 DEF Outcomes
<1>6. Real(Head(todo)) <=> Answer(Current) # RowValue(Current)
  BY DEF Real, Current
<1> QED BY <1>2, <1>3, <1>5, <1>6, ObservedKeeps DEF RowReturns

\* A row that traps: it is blamed, and the runtime is trapped from now on.
LEMMA RowTrapsKeeps ==
  ASSUME IInv, RowTraps
  PROVE  IInv'
<1>1. Types /\ Queue /\ todo # <<>> /\ HostTypeOK
  BY DEF IInv, Types, RowTraps, Replaying
<1>2. HostTypeOK' /\ rt'[r].trapped
  BY <1>1, HostKeeps, TrapTraps DEF RowTraps, HostStep
<1>3. TrapOutcome \in Outcomes /\ TrapOutcome # RowValue(Current)
  BY DEF Outcomes, TrapOutcome, RowValue, Value
<1> QED BY <1>2, <1>3, ObservedKeeps DEF RowTraps

\* A row whose function is missing: it is blamed, and rightly.
LEMMA RowMissingKeeps ==
  ASSUME IInv, RowMissing
  PROVE  IInv'
<1>1. Types /\ Queue /\ todo # <<>> /\ HostTypeOK
  BY DEF IInv, Types, RowMissing, Replaying
<1>2. HostTypeOK' /\ (rt[r].trapped => rt'[r].trapped)
  BY <1>1, HostKeeps DEF RowMissing, HostStep
<1>3. TrapOutcome \in Outcomes /\ TrapOutcome # RowValue(Current)
  BY DEF Outcomes, TrapOutcome, RowValue, Value
<1>4. Answer(Current) = TrapOutcome
  BY DEF RowMissing, Answer
<1>5. Real(Head(todo))
  BY <1>3, <1>4 DEF Real, Current
<1> QED BY <1>2, <1>3, <1>5, ObservedKeeps DEF RowMissing

\* Every step keeps the invariant.
LEMMA StepIInv ==
  ASSUME IInv, [Next]_vars
  PROVE  IInv'
<1>1. /\ HostTypeOK /\ Phase
      /\ pc \in {"load", "built", "starting", "rows", "done"} /\ exit \in {"none", "0", "1"}
  BY DEF IInv, Types
<1>2. CASE Refuse
  <2>1. HostTypeOK' /\ (rt[r].trapped => rt'[r].trapped)
    BY <1>1, <1>2, HostKeeps DEF Refuse, HostStep
  <2>2. Phase'
    BY <1>1, <1>2 DEF Refuse, Ends, Phase
  <2> QED BY <1>2, <2>1, <2>2, FrameKeeps DEF Refuse, Ends
<1>3. CASE Build
  <2>1. HostTypeOK' /\ (rt[r].trapped => rt'[r].trapped)
    BY <1>1, <1>3, HostKeeps DEF Build, HostStep
  <2>2. Phase'
    BY <1>1, <1>3 DEF Build, Phase
  <2> QED BY <1>1, <1>3, <2>1, <2>2, FrameKeeps DEF Build
<1>4. CASE Start
  <2>1. HostTypeOK' /\ (rt[r].trapped => rt'[r].trapped)
    BY <1>1, <1>4, HostKeeps DEF Start, HostStep
  <2>2. Phase'
    BY <1>1, <1>4 DEF Start, Phase
  <2> QED BY <1>1, <1>4, <2>1, <2>2, FrameKeeps DEF Start
<1>5. CASE Started
  <2>1. HostTypeOK' /\ (rt[r].trapped => rt'[r].trapped)
    BY <1>1, <1>5, HostKeeps DEF Started, HostStep
  <2>2. Phase'
    BY <1>1, <1>5 DEF Started, Phase
  <2> QED BY <1>1, <1>5, <2>1, <2>2, FrameKeeps DEF Started
<1>6. CASE StartFails
  <2>1. HostTypeOK' /\ failures = <<>>
    BY <1>1, <1>6, DropKeeps DEF StartFails, Phase
  <2>2. Phase'
    BY <1>1, <1>6 DEF StartFails, Ends, Phase
  <2> QED BY <1>6, <2>1, <2>2, FrameKeeps DEF StartFails, Ends
<1>7. CASE EpochTick
  <2>1. HostTypeOK' /\ (rt[r].trapped => rt'[r].trapped)
    BY <1>1, <1>7, HostKeeps DEF EpochTick, HostStep
  <2>2. Phase'
    BY <1>1, <1>7 DEF EpochTick, Phase
  <2> QED BY <1>1, <1>7, <2>1, <2>2, FrameKeeps DEF EpochTick
<1>8. CASE RowArgs
  <2>1. HostTypeOK' /\ (rt[r].trapped => rt'[r].trapped)
    BY <1>1, <1>8, HostKeeps DEF RowArgs, HostStep
  <2>2. Phase'
    BY <1>1, <1>8 DEF RowArgs, Ends, Phase
  <2> QED BY <1>8, <2>1, <2>2, FrameKeeps DEF RowArgs, Ends
<1>9. CASE StreamFails
  <2>1. HostTypeOK' /\ (rt[r].trapped => rt'[r].trapped)
    BY <1>1, <1>9, HostKeeps DEF StreamFails, HostStep
  <2>2. Phase'
    BY <1>1, <1>9 DEF StreamFails, Ends, Phase
  <2> QED BY <1>9, <2>1, <2>2, FrameKeeps DEF StreamFails, Ends
<1>10. CASE Compute
  <2>1. HostTypeOK' /\ (rt[r].trapped => rt'[r].trapped)
    BY <1>1, <1>10, HostKeeps DEF Compute, HostStep
  <2>2. Phase'
    BY <1>1, <1>10 DEF Compute, Phase
  <2> QED BY <1>1, <1>10, <2>1, <2>2, FrameKeeps DEF Compute
<1>11. CASE Finish
  <2>1. HostTypeOK' /\ (rt[r].trapped => rt'[r].trapped)
    BY <1>1, <1>11, HostKeeps DEF Finish, HostStep
  <2>2. Phase'
    BY <1>1, <1>11 DEF Finish, Ends, Phase
  <2> QED BY <1>11, <2>1, <2>2, FrameKeeps DEF Finish, Ends
<1>12. CASE UNCHANGED vars
  <2>1. HostTypeOK' /\ (rt[r].trapped => rt'[r].trapped)
    BY <1>1, <1>12, HostKeeps DEF vars, HostStep, hostVars
  <2>2. Phase'
    BY <1>1, <1>12 DEF vars, Phase
  <2> QED BY <1>1, <1>12, <2>1, <2>2, FrameKeeps DEF vars
<1>13. CASE RowReturns \/ RowTraps \/ RowMissing
  BY <1>13, RowReturnsKeeps, RowTrapsKeeps, RowMissingKeeps
<1> QED BY <1>2, <1>3, <1>4, <1>5, <1>6, <1>7, <1>8, <1>9, <1>10, <1>11, <1>12, <1>13
        DEF Next, Replay

-----------------------------------------------------------------------------
(* What a probe says.                                                      *)

\* The invariant holds of every behaviour: of every manifest, and of every way the
\* runtime is interrupted.
THEOREM ProbeInvariant == Spec => []IInv
<1>1. Init => IInv
  BY InitIInv
<1>2. IInv /\ [Next]_vars => IInv'
  BY StepIInv
<1> QED BY <1>1, <1>2, PTL DEF Spec

\* A probe that ends well replayed every row it was asked for, and the component answers
\* each as it expects (the exit code of probe, main.rs).
THEOREM CleanProbe == Spec => []CleanProbeAgrees
<1>1. IInv => CleanProbeAgrees
  <2> SUFFICES ASSUME IInv, exit = "0"
               PROVE  todo = <<>> /\ \A i \in Range(asked) : ~Real(i)
    BY DEF CleanProbeAgrees
  <2>1. todo = <<>> /\ failures = <<>> /\ Blame
    BY DEF IInv, Phase
  <2>2. Replayed = Range(asked)
    BY <2>1 DEF Replayed, Range
  <2>3. Reported = {}
    BY <2>1 DEF Reported
  <2> QED BY <2>1, <2>2, <2>3 DEF Blame
<1> QED BY <1>1, ProbeInvariant, PTL

\* A row blamed although the component answers it rightly is followed by blame only
\* (Outcome::trap of a runtime that serves nobody any more).
THEOREM BlameOnlySpreads == Spec => []BlameSpreads
<1>1. IInv => BlameSpreads
  BY DEF IInv
<1> QED BY <1>1, ProbeInvariant, PTL

\* compare is the match of Lean for every pair of outcomes a row can meet.
LEMMA ComparesLikeLean == MirrorsLean
<1> SUFFICES ASSUME NEW mode \in {"ignore", "identity", "full"}, NEW row \in RowKinds,
                    NEW e \in {RowValue(row), Answer(row), TrapOutcome,
                               [error |-> "arityDrift", payload |-> row.expected]},
                    NEW g \in {RowValue(row), Answer(row), TrapOutcome,
                               [error |-> "arityDrift", payload |-> row.expected]}
             PROVE  compare(mode, e, g) = CompareArms(mode, e, g)
  BY DEF MirrorsLean
<1>1. /\ e = [error |-> e.error, payload |-> e.payload]
      /\ g = [error |-> g.error, payload |-> g.payload]
  BY DEF RowValue, Answer, Value, TrapOutcome
<1> QED BY <1>1, CompareIsArms

\* Every verdict names what met, and where the payloads part.
THEOREM VerdictsName == Spec => []VerdictNames
<1>1. IInv => VerdictNames
  <2> SUFFICES ASSUME IInv, NEW k \in DOMAIN failures
               PROVE  LET e == RowValue(manifest[failures[k].row])
                          g == failures[k].got
                          v == failures[k].verdict
                      IN /\ v.category = (IF g.error = "none" THEN "valueMismatch"
                                          ELSE "expectedValueGotError")
                         /\ v.payload_diff_at =
                              (IF e.payload = g.payload THEN -1
                               ELSE Len(LongestCommonPrefix({e.payload, g.payload})))
    BY ComparesLikeLean DEF VerdictNames
  <2> DEFINE i == failures[k].row
             e == RowValue(manifest[i])
             g == failures[k].got
             v == failures[k].verdict
  <2>1. failures[k] \in Reports /\ g # e
    BY ElementOfSeq, LenProperties DEF IInv, Types, Blame
  <2>2. PICK j \in 1..Len(manifest), o \in Outcomes : failures[k] = ReportOn(j, o)
    BY <2>1 DEF Reports
  <2>3. i = j /\ g = o /\ v = verdict("full", e, g)
    BY <2>2 DEF ReportOn
  <2>4. manifest[i] \in RowKinds
    BY <2>3, ElementOfSeq DEF IInv, Types
  <2>5. /\ e.error = "none" /\ e.payload \in Seq(STRING) /\ g.payload \in Seq(STRING)
        /\ verdict("full", e, g).ok <=> g = e
    BY <2>3, <2>4, OutcomeFacts
  <2> HIDE DEF e, g, v, i
  <2>6. /\ v.category = classify(e, g)
        /\ v.payload_diff_at = first_diff_at(e.payload, g.payload)
    BY <2>1, <2>3, <2>5 DEF verdict
  <2>7. classify(e, g) = IF g.error = "none" THEN "valueMismatch" ELSE "expectedValueGotError"
    BY <2>5, ClassifyValue
  <2>8. CASE e.payload = g.payload
    <3>1. first_diff_at(e.payload, g.payload) = -1
      BY <2>8 DEF first_diff_at
    <3> QED BY <2>6, <2>7, <2>8, <3>1 DEF e, g, v, i
  <2>9. CASE e.payload # g.payload
    <3>1. first_diff_at(e.payload, g.payload) = Len(LongestCommonPrefix({e.payload, g.payload}))
      BY <2>5, <2>9, FirstDiff
    <3> QED BY <2>6, <2>7, <2>9, <3>1 DEF e, g, v, i
  <2> QED BY <2>8, <2>9
<1> QED BY <1>1, ProbeInvariant, PTL
=============================================================================
