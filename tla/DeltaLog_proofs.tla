-------------------------- MODULE DeltaLog_proofs ---------------------------
(***************************************************************************)
(* The delta log's invariants hold for every set of tables, keys and       *)
(* values and every bound on the log's length.                             *)
(*                                                                         *)
(* None of StatesAreReplay, InversesRestore and RewindLaw is inductive by  *)
(* itself: an appended inverse is right because the tables are the replay  *)
(* of the entries, a compensation unwinds one entry because the inverse it *)
(* carries is right and because the queue lines up with the entries, and   *)
(* the tables after a reopening are the replay because the loop's position *)
(* says how far it got.  IInv is their conjunction with the shape of the   *)
(* rewind's queue.                                                         *)
(*                                                                         *)
(* Under it the log implements the history of whole states, UndoHistory.   *)
(***************************************************************************)
EXTENDS DeltaLog, SequenceTheorems, WellFoundedInduction, TLAPS

-----------------------------------------------------------------------------
(* The change algebra: what patching and inverting do to a state, how the  *)
(* state of a prefix follows from the one before it, and that the fold of  *)
(* patch computes that state.                                              *)

\* A set of numbers has a least one.
LEMMA LeastOf ==
  ASSUME NEW T \in SUBSET Nat, T # {}
  PROVE  \E x \in T : \A y \in T : x <= y
PROOF
<1>1. PICK x \in T : \A y \in T : ~(<<y, x>> \in OpToRel(<, Nat))
  BY NatLessThanWellFounded, WFMin
<1>2. ASSUME NEW y \in T PROVE x <= y
  <2>1. ~(y < x)
    BY <1>1 DEF OpToRel
  <2> QED BY <2>1
<1> QED BY <1>2

\* The greatest of a set of positions.
LEMMA MaxFacts ==
  ASSUME NEW n \in Nat, NEW S \in SUBSET (1..n), S # {}
  PROVE  Max(S) \in S /\ \A j \in S : j <= Max(S)
PROOF
<1> DEFINE T == {n - i : i \in S}
<1>1. T \in SUBSET Nat /\ T # {}
  <2>1. \A i \in S : n - i \in Nat /\ n - i \in T
    OBVIOUS
  <2> QED BY <2>1
<1>2. PICK x \in T : \A y \in T : x <= y
  BY <1>1, LeastOf
<1>3. PICK i \in S : x = n - i
  BY <1>2
<1>4. ASSUME NEW j \in S PROVE i >= j
  <2>1. n - i <= n - j
    BY <1>2, <1>3
  <2> QED BY <2>1
<1> QED BY <1>4 DEF Max

\* A non-empty set of positions has a last one, so Latest picks a member.
LEMMA LatestInSet ==
  ASSUME NEW n \in Nat, NEW S \in SUBSET (1..n), S # {}
  PROVE  Latest(S) \in S
PROOF
<1>1. Max(S) \in S /\ \A j \in S : j <= Max(S)
  BY MaxFacts
<1> QED BY <1>1 DEF Latest

\* The last of the positions up to n + 1, when n + 1 is one of them, is n + 1.
LEMMA LatestIsTop ==
  ASSUME NEW n \in Nat, NEW S \in SUBSET (1..n)
  PROVE  Latest(S \cup {n + 1}) = n + 1
PROOF
<1> DEFINE U == S \cup {n + 1}
<1>1. n + 1 \in U /\ \A j \in U : j <= n + 1
  OBVIOUS
<1>2. \A i \in U : (\A j \in U : j <= i) => i = n + 1
  BY <1>1
<1> QED BY <1>1, <1>2 DEF Latest

LEMMA WritersInPrefix ==
  ASSUME NEW es, NEW n \in Nat, NEW t, NEW k
  PROVE  Writers(es, n, t, k) \in SUBSET (1..n)
BY DEF Writers

\* The empty prefix is the empty state.
LEMMA StateAtZero ==
  ASSUME NEW es
  PROVE  StateAt(es, 0) = EmptyStates
BY DEF StateAt, RowAt, Writers, EmptyStates

LEMMA RowAtType ==
  ASSUME NEW es \in Seq(Entry), NEW n \in 0..Len(es), NEW t \in Tables, NEW k \in Keys
  PROVE  RowAt(es, n, t, k) \in Values \cup {Absent}
PROOF
<1> DEFINE W == Writers(es, n, t, k)
<1>1. CASE W = {}
  BY <1>1 DEF RowAt
<1>2. CASE W # {}
  <2>1. Latest(W) \in 1..n
    <3>1. W \in SUBSET (1..n) /\ n \in Nat
      BY WritersInPrefix
    <3> HIDE DEF W
    <3> QED BY <1>2, <3>1, LatestInSet
  <2>2. es[Latest(W)] \in Entry
    BY <2>1, ElementOfSeq
  <2> QED BY <1>2, <2>2 DEF RowAt, Entry, Change
<1> QED BY <1>1, <1>2

LEMMA StateAtType ==
  ASSUME NEW es \in Seq(Entry), NEW n \in 0..Len(es)
  PROVE  StateAt(es, n) \in States
BY RowAtType DEF StateAt, States, Table

\* The state of a prefix is a matter of that prefix only.
LEMMA StateAtPrefix ==
  ASSUME NEW es \in Seq(Entry), NEW fs \in Seq(Entry), NEW n \in Nat,
         n <= Len(es), n <= Len(fs), \A i \in 1..n : fs[i] = es[i]
  PROVE  StateAt(fs, n) = StateAt(es, n)
PROOF
<1> SUFFICES ASSUME NEW t \in Tables, NEW k \in Keys
             PROVE  RowAt(fs, n, t, k) = RowAt(es, n, t, k)
  BY DEF StateAt
<1>1. Writers(fs, n, t, k) = Writers(es, n, t, k)
  BY DEF Writers
<1> DEFINE W == Writers(es, n, t, k)
<1>2. CASE W = {}
  BY <1>1, <1>2 DEF RowAt
<1>3. CASE W # {}
  <2>1. Latest(W) \in 1..n
    BY <1>3, LatestInSet, WritersInPrefix
  <2> QED BY <1>1, <1>3, <2>1 DEF RowAt
<1> QED BY <1>2, <1>3

LEMMA PatchType ==
  ASSUME NEW s \in States, NEW t \in Tables, NEW c \in Change
  PROVE  PatchStates(s, t, c) \in States
BY DEF PatchStates, Patch, States, Table, Change

\* patch, row by row.
LEMMA PatchRow ==
  ASSUME NEW s \in States, NEW t \in Tables, NEW c \in Change,
         NEW u \in Tables, NEW k \in Keys
  PROVE  PatchStates(s, t, c)[u][k] =
           IF u = t /\ k = c.key THEN c.val ELSE s[u][k]
BY DEF PatchStates, Patch, States, Table, Change

LEMMA StatesEqual ==
  ASSUME NEW r \in States, NEW s \in States,
         \A t \in Tables, k \in Keys : r[t][k] = s[t][k]
  PROVE  r = s
BY DEF States, Table

\* One more entry: the state of prefix n + 1 is that of prefix n, patched.
LEMMA StateAtStep ==
  ASSUME NEW es \in Seq(Entry), NEW n \in Nat, n < Len(es)
  PROVE  StateAt(es, n + 1) =
           PatchStates(StateAt(es, n), es[n + 1].table, es[n + 1].change)
PROOF
<1> DEFINE e == es[n + 1]
<1>1. e \in Entry
  BY ElementOfSeq
<1>2. e.table \in Tables /\ e.change \in Change
  BY <1>1 DEF Entry
<1> HIDE DEF e
<1>3. StateAt(es, n) \in States /\ StateAt(es, n + 1) \in States
  BY StateAtType
<1>4. PatchStates(StateAt(es, n), e.table, e.change) \in States
  BY <1>2, <1>3, PatchType
<1>5. ASSUME NEW t \in Tables, NEW k \in Keys
      PROVE  RowAt(es, n + 1, t, k) =
               IF t = e.table /\ k = e.change.key THEN e.change.val
                                                  ELSE RowAt(es, n, t, k)
  <2>1. CASE t = e.table /\ k = e.change.key
    <3>1. Writers(es, n + 1, t, k) = Writers(es, n, t, k) \cup {n + 1}
      BY <2>1 DEF Writers, e
    <3>2. Latest(Writers(es, n + 1, t, k)) = n + 1
      BY <3>1, LatestIsTop, WritersInPrefix
    <3> QED BY <2>1, <3>1, <3>2 DEF RowAt, e
  <2>2. CASE ~(t = e.table /\ k = e.change.key)
    <3>1. Writers(es, n + 1, t, k) = Writers(es, n, t, k)
      BY <2>2 DEF Writers, e
    <3> QED BY <2>2, <3>1 DEF RowAt
  <2> QED BY <2>1, <2>2
<1>6. ASSUME NEW t \in Tables, NEW k \in Keys
      PROVE  StateAt(es, n + 1)[t][k]
               = PatchStates(StateAt(es, n), e.table, e.change)[t][k]
  <2>1. PatchStates(StateAt(es, n), e.table, e.change)[t][k] =
          IF t = e.table /\ k = e.change.key THEN e.change.val
                                             ELSE StateAt(es, n)[t][k]
    BY <1>2, <1>3, PatchRow
  <2>2. StateAt(es, n)[t][k] = RowAt(es, n, t, k)
        /\ StateAt(es, n + 1)[t][k] = RowAt(es, n + 1, t, k)
    BY DEF StateAt
  <2> QED BY <2>1, <2>2, <1>5
<1> QED BY <1>3, <1>4, <1>6, StatesEqual DEF e

\* invert yields a well-typed change on the same key.
LEMMA InvertType ==
  ASSUME NEW c \in Change, NEW pre \in Values \cup {Absent}
  PROVE  Invert(c, pre) \in Change /\ Invert(c, pre).key = c.key
                                   /\ Invert(c, pre).val = pre
BY AbsentAssumption DEF Invert, Change, RemoveOf, InsertOf, UpdateOf

\* correct_invert: patch, then patch with the inverse, is the identity.
LEMMA InvertRestores ==
  ASSUME NEW s \in States, NEW t \in Tables, NEW c \in Change
  PROVE  PatchStates(PatchStates(s, t, c), t, Invert(c, s[t][c.key])) = s
PROOF
<1> DEFINE inv == Invert(c, s[t][c.key])
           p == PatchStates(s, t, c)
<1>1. c.key \in Keys
  BY DEF Change
<1>2. s[t][c.key] \in Values \cup {Absent}
  BY <1>1 DEF States, Table
<1>3. inv \in Change /\ inv.key = c.key /\ inv.val = s[t][c.key]
  BY <1>2, InvertType
<1>4. p \in States
  BY PatchType
<1> HIDE DEF inv, p
<1>5. PatchStates(p, t, inv) \in States
  BY <1>3, <1>4, PatchType
<1>6. ASSUME NEW u \in Tables, NEW k \in Keys
      PROVE  PatchStates(p, t, inv)[u][k] = s[u][k]
  <2>1. PatchStates(p, t, inv)[u][k] = IF u = t /\ k = inv.key THEN inv.val ELSE p[u][k]
    BY <1>3, <1>4, PatchRow
  <2>2. p[u][k] = IF u = t /\ k = c.key THEN c.val ELSE s[u][k]
    BY PatchRow DEF p
  <2> QED BY <2>1, <2>2, <1>3
<1> QED BY <1>5, <1>6, StatesEqual DEF inv, p

\* The entry append builds is an entry, and its inverse undoes it.
LEMMA EntryForCorrect ==
  ASSUME NEW s \in States, NEW t \in Tables, NEW c \in Change
  PROVE  /\ EntryFor(s, t, c) \in Entry
         /\ EntryFor(s, t, c).table = t
         /\ EntryFor(s, t, c).change = c
         /\ PatchStates(PatchStates(s, t, c), t, EntryFor(s, t, c).inverse) = s
PROOF
<1>1. c.key \in Keys
  BY DEF Change
<1>2. s[t][c.key] \in Values \cup {Absent}
  BY <1>1 DEF States, Table
<1>3. Invert(c, s[t][c.key]) \in Change
  BY <1>2, InvertType
<1> QED BY <1>3, InvertRestores DEF EntryFor, Entry

\* Appending the entry built from the current state keeps every prefix and its
\* inverses, and the new prefix is the patched state.
LEMMA AppendedEntry ==
  ASSUME NEW es \in Seq(Entry), NEW t \in Tables, NEW c \in Change,
         NEW s \in States, s = StateAt(es, Len(es)), Restoring(es),
         NEW fs \in Seq(Entry), fs = Append(es, EntryFor(s, t, c))
  PROVE  /\ Len(fs) = Len(es) + 1
         /\ \A i \in 1..Len(es) : fs[i] = es[i]
         /\ \A n \in 0..Len(es) : StateAt(fs, n) = StateAt(es, n)
         /\ StateAt(fs, Len(es) + 1) = PatchStates(s, t, c)
         /\ Restoring(fs)
PROOF
<1> DEFINE e == EntryFor(s, t, c)
<1>2. /\ e \in Entry /\ e.table = t /\ e.change = c
      /\ PatchStates(PatchStates(s, t, c), t, e.inverse) = s
  BY EntryForCorrect
<1> HIDE DEF e
<1>3. /\ fs \in Seq(Entry) /\ Len(fs) = Len(es) + 1 /\ fs[Len(es) + 1] = e
      /\ \A i \in 1..Len(es) : fs[i] = es[i]
  BY <1>2 DEF e
<1>4. Len(es) \in Nat
  BY LenProperties
<1>5. ASSUME NEW n \in 0..Len(es) PROVE StateAt(fs, n) = StateAt(es, n)
  <2>1. n \in Nat /\ n <= Len(es) /\ n <= Len(fs)
    BY <1>3, <1>4
  <2>2. \A i \in 1..n : fs[i] = es[i]
    BY <1>3, <1>4
  <2>3. fs \in Seq(Entry)
    BY <1>3
  <2> QED BY <2>1, <2>2, <2>3, StateAtPrefix
<1>6. StateAt(fs, Len(es) + 1) = PatchStates(s, t, c)
  <2>1. StateAt(fs, Len(es) + 1) = PatchStates(StateAt(fs, Len(es)), e.table, e.change)
    <3>1. fs \in Seq(Entry) /\ Len(es) \in Nat /\ Len(es) < Len(fs)
      BY <1>3, <1>4
    <3>2. StateAt(fs, Len(es) + 1) = PatchStates(StateAt(fs, Len(es)),
             fs[Len(es) + 1].table, fs[Len(es) + 1].change)
      BY <3>1, StateAtStep
    <3> QED BY <3>2, <1>3
  <2>2. StateAt(fs, Len(es)) = s
    BY <1>4, <1>5
  <2> QED BY <1>2, <2>1, <2>2
<1>7. Restoring(fs)
  <2> SUFFICES ASSUME NEW i \in 1..Len(fs)
               PROVE  PatchStates(StateAt(fs, i), fs[i].table, fs[i].inverse)
                        = StateAt(fs, i - 1)
    BY DEF Restoring
  <2>1. CASE i \in 1..Len(es)
    <3>1. i \in 0..Len(es) /\ i - 1 \in 0..Len(es)
      BY <1>4, <2>1
    <3>2. PatchStates(StateAt(es, i), es[i].table, es[i].inverse) = StateAt(es, i - 1)
      BY <2>1 DEF Restoring
    <3> QED BY <1>3, <1>5, <2>1, <3>1, <3>2
  <2>2. CASE i = Len(es) + 1
    <3>1. StateAt(fs, i - 1) = s
      BY <1>4, <1>5, <2>2
    <3> QED BY <1>2, <1>3, <1>6, <2>2, <3>1
  <2> QED BY <1>3, <1>4, <2>1, <2>2
<1> QED BY <1>3, <1>5, <1>6, <1>7

\* An appended entry's inverse restores, too.
LEMMA AppendedRestores ==
  ASSUME NEW es \in Seq(Entry), NEW t \in Tables, NEW c \in Change,
         NEW s \in States, s = StateAt(es, Len(es)), Restoring(es)
  PROVE  Restoring(Append(es, EntryFor(s, t, c)))
PROOF
<1>1. EntryFor(s, t, c) \in Entry
  BY EntryForCorrect
<1>2. PICK fs \in Seq(Entry) : fs = Append(es, EntryFor(s, t, c))
  BY <1>1, AppendProperties
<1>3. Restoring(fs)
  BY <1>2, AppendedEntry, Zenon
<1> QED BY <1>2, <1>3

\* The inverses of a log restore its states, also when the end of the log is lost.
LEMMA PrefixRestoring ==
  ASSUME NEW es \in Seq(Entry), NEW fs \in Seq(Entry), Len(fs) <= Len(es),
         \A i \in 1..Len(fs) : fs[i] = es[i], Restoring(es)
  PROVE  Restoring(fs)
PROOF
<1> SUFFICES ASSUME NEW i \in 1..Len(fs)
             PROVE  PatchStates(StateAt(fs, i), fs[i].table, fs[i].inverse) = StateAt(fs, i - 1)
  BY DEF Restoring
<1>1. Len(es) \in Nat /\ Len(fs) \in Nat
  BY LenProperties
<1>2. i \in Nat /\ i - 1 \in Nat /\ i \in 1..Len(es) /\ i <= Len(fs) /\ i <= Len(es)
  BY <1>1
<1>3. StateAt(fs, i) = StateAt(es, i) /\ StateAt(fs, i - 1) = StateAt(es, i - 1)
  BY <1>1, <1>2, StateAtPrefix
<1>4. PatchStates(StateAt(es, i), es[i].table, es[i].inverse) = StateAt(es, i - 1)
  BY <1>2 DEF Restoring
<1> QED BY <1>3, <1>4

-----------------------------------------------------------------------------
(* The fold.                                                                 *)

\* The state that the changes at a set of positions leave.
StateOf(es, S) ==
  [t \in Tables |-> [k \in Keys |->
     LET W == {i \in S : es[i].table = t /\ es[i].change.key = k}
     IN IF W = {} THEN Absent ELSE es[Latest(W)].change.val]]

\* Of a prefix it is StateAt.
LEMMA StateOfPrefix == \A es, n : StateOf(es, 1..n) = StateAt(es, n)
BY DEF StateOf, StateAt, RowAt, Writers

\* The last of the changes is applied last.
LEMMA StateOfStep ==
  ASSUME NEW es \in Seq(Entry), NEW S \in SUBSET (1..Len(es)), S # {}
  PROVE  StateOf(es, S) =
           PatchStates(StateOf(es, S \ {Max(S)}), es[Max(S)].table, es[Max(S)].change)
PROOF
<1> DEFINE m == Max(S)
           R == S \ {m}
           W(U, t, k) == {i \in U : es[i].table = t /\ es[i].change.key = k}
           Row(U, t, k) == IF W(U, t, k) = {} THEN Absent ELSE es[Latest(W(U, t, k))].change.val
<1>1. Len(es) \in Nat
  BY LenProperties
<1>2. m \in S /\ \A j \in S : j <= m
  BY <1>1, MaxFacts
<1>3. m \in 1..Len(es) /\ es[m] \in Entry
  BY <1>1, <1>2, ElementOfSeq
<1>4. /\ es[m].table \in Tables /\ es[m].change \in Change /\ es[m].change.key \in Keys
      /\ es[m].change.val \in Values \cup {Absent}
  BY <1>3 DEF Entry, Change
<1> HIDE DEF m
<1>5. ASSUME NEW U \in SUBSET (1..Len(es)), NEW t \in Tables, NEW k \in Keys
      PROVE  Row(U, t, k) \in Values \cup {Absent}
  <2>1. CASE W(U, t, k) = {}
    BY <2>1
  <2>2. CASE W(U, t, k) # {}
    <3>1. Latest(W(U, t, k)) \in W(U, t, k)
      <4>1. W(U, t, k) \in SUBSET (1..Len(es))
        OBVIOUS
      <4> HIDE DEF W
      <4> QED BY <1>1, <2>2, <4>1, LatestInSet
    <3>2. Latest(W(U, t, k)) \in 1..Len(es)
      BY <3>1
    <3>3. es[Latest(W(U, t, k))] \in Entry
      BY <3>2, ElementOfSeq
    <3> QED BY <2>2, <3>3 DEF Entry, Change
  <2> QED BY <2>1, <2>2
<1>6. ASSUME NEW U \in SUBSET (1..Len(es)) PROVE StateOf(es, U) \in States
  BY <1>5, <1>6 DEF StateOf, States, Table
<1>7. ASSUME NEW t \in Tables, NEW k \in Keys
      PROVE  Row(S, t, k) = IF t = es[m].table /\ k = es[m].change.key THEN es[m].change.val
                                                                      ELSE Row(R, t, k)
  <2>1. CASE t = es[m].table /\ k = es[m].change.key
    <3>1. m \in W(S, t, k) /\ \A j \in W(S, t, k) : j <= m
      BY <1>2, <2>1
    <3>2. Latest(W(S, t, k)) = m
      <4>1. W(S, t, k) \in SUBSET Nat /\ m \in Nat
        <5>1. 1..Len(es) \in SUBSET Nat
          BY <1>1
        <5>2. W(S, t, k) \in SUBSET (1..Len(es))
          OBVIOUS
        <5> HIDE DEF W
        <5> QED BY <1>3, <5>1, <5>2
      <4> HIDE DEF W
      <4>2. \A i \in W(S, t, k) : (\A j \in W(S, t, k) : j <= i) => i = m
        BY <3>1, <4>1
      <4> QED BY <3>1, <4>2 DEF Latest
    <3> QED BY <2>1, <3>1, <3>2
  <2>2. CASE ~(t = es[m].table /\ k = es[m].change.key)
    <3>1. W(S, t, k) = W(R, t, k)
      BY <2>2
    <3> QED BY <2>2, <3>1
  <2> QED BY <2>1, <2>2
<1>8. R \in SUBSET (1..Len(es))
  OBVIOUS
<1>9. \A U, t, k : t \in Tables /\ k \in Keys => StateOf(es, U)[t][k] = Row(U, t, k)
  BY DEF StateOf
<1> HIDE DEF Row, R
<1>10. PatchStates(StateOf(es, R), es[m].table, es[m].change) \in States
  BY <1>4, <1>6, <1>8, PatchType
<1>11. ASSUME NEW t \in Tables, NEW k \in Keys
       PROVE  StateOf(es, S)[t][k] = PatchStates(StateOf(es, R), es[m].table, es[m].change)[t][k]
  <2>1. PatchStates(StateOf(es, R), es[m].table, es[m].change)[t][k] =
          IF t = es[m].table /\ k = es[m].change.key THEN es[m].change.val ELSE StateOf(es, R)[t][k]
    BY <1>4, <1>6, <1>8, PatchRow
  <2> QED BY <1>7, <1>9, <2>1
<1> QED BY <1>6, <1>10, <1>11, StatesEqual DEF m, R

\* state_at's fold and the closed form are the same, at every prefix: the closed form over
\* any set of changes solves the fold's recursion, and a first prefix at which a solution
\* differs from it would follow one at which it does not.
LEMMA ReplayIs ==
  ASSUME NEW es \in Seq(Entry), NEW n \in 0..Len(es)
  PROVE  Replay(es, n) = StateAt(es, n)
PROOF
<1> DEFINE q == SubSeq(es, 1, n)
           Turn(f) == [s \in SUBSET (DOMAIN q) |->
                         IF s = {} THEN EmptyStates
                         ELSE PatchStates(f[s \ {Max(s)}], q[Max(s)].table, q[Max(s)].change)]
           loop == CHOOSE f : f = Turn(f)
           closed == [s \in SUBSET (1..n) |-> StateOf(q, s)]
<1>1. Replay(es, n) = loop[DOMAIN q]
  BY DEF Replay, FoldLeft, MapThenFoldSet
<1>2. /\ q \in Seq(Entry) /\ Len(q) = n /\ n \in Nat /\ \A i \in 1..n : q[i] = es[i]
      /\ DOMAIN q = 1..n
  <2>1. Len(es) \in Nat
    BY LenProperties
  <2>2. n \in Nat /\ 1 <= n + 1 /\ n <= Len(es)
    BY <2>1
  <2>3. q \in Seq(Entry) /\ Len(q) = n /\ \A i \in 1..n : q[i] = es[i]
    BY <2>1, <2>2, SubSeqProperties, ElementOfSeq
  <2> QED BY <2>2, <2>3, LenProperties
<1> HIDE DEF q
<1>3. closed = Turn(closed)
  <2>1. StateOf(q, {}) = EmptyStates
    BY DEF StateOf, EmptyStates
  <2>2. ASSUME NEW s \in SUBSET (1..n), s # {}
        PROVE  closed[s] = PatchStates(closed[s \ {Max(s)}], q[Max(s)].table, q[Max(s)].change)
    BY <1>2, <2>2, StateOfStep
  <2> QED BY <1>2, <2>1, <2>2
<1>4. loop = Turn(loop)
  BY <1>3
<1> HIDE DEF loop
<1>5. ASSUME NEW k \in 0..n PROVE loop[1..k] = StateOf(q, 1..k)
  <2> DEFINE Bad == {i \in 0..n : loop[1..i] # StateOf(q, 1..i)}
  <2> SUFFICES ASSUME Bad # {} PROVE FALSE
    OBVIOUS
  <2>1. Bad \in SUBSET Nat
    OBVIOUS
  <2>2. PICK i \in Bad : \A j \in Bad : i <= j
    <3> HIDE DEF Bad
    <3> QED BY <2>1, LeastOf
  <2>3. CASE i = 0
    <3>1. 1..0 = {}
      BY SMTT(60)
    <3>2. StateOf(q, {}) = EmptyStates
      BY DEF StateOf, EmptyStates
    <3>3. loop[{}] = EmptyStates
      BY <1>4
    <3> QED BY <2>2, <2>3, <3>1, <3>2, <3>3
  <2>4. CASE i # 0
    <3>1. i - 1 \in 0..n /\ i \in 1..n /\ i - 1 \notin Bad
      BY <2>1, <2>2, <2>4
    <3>2. loop[1..(i - 1)] = StateOf(q, 1..(i - 1))
      BY <3>1
    <3>3. 1..i \in SUBSET (1..n) /\ 1..i # {}
      <4>1. i \in 1..i
        BY <3>1
      <4>2. ASSUME NEW j \in 1..i PROVE j \in 1..n
        BY <1>2, <3>1
      <4> QED BY <4>1, <4>2
    <3>4. Max(1..i) = i /\ (1..i) \ {i} = 1..(i - 1)
      <4>1. Max(1..i) \in 1..i /\ i <= Max(1..i)
        <5>1. i \in 1..i /\ 1..i \in SUBSET (1..i) /\ i \in Nat
          BY <3>1
        <5> QED BY <3>3, <5>1, MaxFacts
      <4>2. Max(1..i) = i
        BY <3>1, <4>1
      <4> QED BY <3>1, <4>2
    <3>5. loop[1..i] = PatchStates(loop[1..(i - 1)], q[i].table, q[i].change)
      <4>1. loop[1..i] = PatchStates(loop[(1..i) \ {Max(1..i)}], q[Max(1..i)].table, q[Max(1..i)].change)
        BY <1>2, <1>4, <3>3
      <4> QED BY <3>4, <4>1
    <3>6. StateOf(q, 1..i) = PatchStates(StateOf(q, 1..(i - 1)), q[i].table, q[i].change)
      BY ZenonT(60), <1>2, <3>3, <3>4, StateOfStep
    <3> QED BY <2>2, <3>2, <3>5, <3>6
  <2> QED BY <2>3, <2>4
<1>6. Replay(es, n) = StateOf(q, 1..n)
  BY <1>1, <1>2, <1>5
<1>7. StateOf(q, 1..n) = StateAt(es, n)
  <2>1. StateAt(q, n) = StateAt(es, n)
    <3>1. n <= Len(es) /\ n <= Len(q)
      BY <1>2
    <3> QED BY <1>2, <3>1, StateAtPrefix
  <2> QED BY <2>1, StateOfPrefix
<1> QED BY <1>6, <1>7

-----------------------------------------------------------------------------
(* The invariant.                                                          *)

Shape ==
  /\ mode = "opening" => pos <= Len(entries) /\ target = None
  /\ mode # "rewinding" => todo = <<>>
  /\ mode = "rewinding" => todo # <<>> /\ target # None
  /\ target # None => target + Len(todo) <= Len(entries)

IInv ==
  /\ TypeOK
  /\ Shape
  /\ StatesAreReplay
  /\ InversesRestore
  /\ RewindLaw
  /\ TodoIsSuffixUndone

-----------------------------------------------------------------------------

LEMMA SameInterval ==
  ASSUME NEW m \in Nat, NEW n \in Nat, 1..m = 1..n
  PROVE  m = n
PROOF
<1>1. m > 0 => m \in 1..n
  OBVIOUS
<1>2. n > 0 => n \in 1..m
  OBVIOUS
<1> QED BY <1>1, <1>2

\* The compensations collected from a log are its inverses, last first.
LEMMA CompensationsAre ==
  ASSUME NEW es \in Seq(Entry), NEW start \in 0..Len(es)
  PROVE  /\ Compensations(es, start) \in Seq([table: Tables, change: Change])
         /\ Len(Compensations(es, start)) = Len(es) - start
         /\ \A i \in 1..(Len(es) - start) :
              Compensations(es, start)[i] =
                [table |-> es[Len(es) + 1 - i].table, change |-> es[Len(es) + 1 - i].inverse]
PROOF
<1> DEFINE n == Len(es) - start
           q == Compensations(es, start)
<1>1. Len(es) \in Nat /\ n \in Nat
  BY LenProperties
<1>2. ASSUME NEW i \in 1..n
      PROVE  /\ q[i] = [table |-> es[Len(es) + 1 - i].table,
                        change |-> es[Len(es) + 1 - i].inverse]
             /\ q[i] \in [table: Tables, change: Change]
  <2>1. Len(es) + 1 - i \in 1..Len(es)
    BY <1>1
  <2>2. es[Len(es) + 1 - i] \in Entry
    BY <2>1, ElementOfSeq
  <2> QED BY <2>2 DEF Compensations, Entry
<1>3. q \in [1..n -> [table: Tables, change: Change]]
  BY <1>2 DEF Compensations
<1>4. q \in Seq([table: Tables, change: Change]) /\ Len(q) = n
  <2> DEFINE S == [table: Tables, change: Change]
  <2> HIDE DEF q, n, S
  <2>1. q \in [1..n -> S]
    BY <1>3 DEF S
  <2>2. q \in Seq(S)
    BY <1>1, <2>1, SeqDef
  <2>3. Len(q) \in Nat /\ DOMAIN q = 1..Len(q) /\ DOMAIN q = 1..n
    BY <2>1, <2>2, LenProperties
  <2>4. Len(q) = n
    BY <1>1, <2>3, SameInterval
  <2> QED BY <2>2, <2>4 DEF S
<1> QED BY <1>2, <1>4

-----------------------------------------------------------------------------

\* What appending the entry for (t, c) does to the log, whoever appends it.
LEMMA LoggedEffect ==
  ASSUME IInv, mode # "opening", NEW t \in Tables, NEW c \in Change,
         entries' = Append(entries, EntryFor(states, t, c))
  PROVE  /\ entries' \in Seq(Entry)
         /\ Len(entries') = Len(entries) + 1
         /\ \A i \in 1..Len(entries) : entries'[i] = entries[i]
         /\ \A n \in 0..Len(entries) : StateAt(entries', n) = StateAt(entries, n)
         /\ PatchStates(states, t, c) = StateAt(entries', Len(entries'))
         /\ PatchStates(states, t, c) \in States
         /\ InversesRestore'
PROOF
<1>1. entries \in Seq(Entry) /\ states \in States /\ Restoring(entries)
      /\ states = StateAt(entries, Len(entries))
  BY DEF IInv, TypeOK, InversesRestore, Restoring, StatesAreReplay
<1>2. /\ entries' \in Seq(Entry)
      /\ Len(entries') = Len(entries) + 1
      /\ \A i \in 1..Len(entries) : entries'[i] = entries[i]
      /\ \A n \in 0..Len(entries) : StateAt(entries', n) = StateAt(entries, n)
      /\ StateAt(entries', Len(entries) + 1) = PatchStates(states, t, c)
      /\ Restoring(entries')
  <2>1. EntryFor(states, t, c) \in Entry
    BY <1>1, EntryForCorrect
  <2>2. entries' \in Seq(Entry)
    BY <1>1, <2>1
  <2>3. \A fs \in Seq(Entry) :
           fs = Append(entries, EntryFor(states, t, c)) =>
             /\ Len(fs) = Len(entries) + 1
             /\ \A i \in 1..Len(entries) : fs[i] = entries[i]
             /\ \A n \in 0..Len(entries) : StateAt(fs, n) = StateAt(entries, n)
             /\ StateAt(fs, Len(entries) + 1) = PatchStates(states, t, c)
             /\ Restoring(fs)
    BY <1>1, AppendedEntry, Zenon
  <2> QED BY <2>2, <2>3, Zenon
<1>3. PatchStates(states, t, c) \in States
  BY <1>1, PatchType
<1>4. InversesRestore'
  BY <1>2 DEF InversesRestore, Restoring
<1> QED BY <1>2, <1>3, <1>4

\* The head of a running rewind's queue is the inverse of the entry it has
\* reached, and appending it leaves the state before that entry.
LEMMA HeadUndoes ==
  ASSUME IInv, mode = "rewinding"
  PROVE  /\ Head(todo).table \in Tables
         /\ Head(todo).change \in Change
         /\ target \in Nat /\ Len(todo) \in Nat \ {0}
         /\ target + Len(todo) \in 1..Len(entries)
         /\ PatchStates(states, Head(todo).table, Head(todo).change)
              = StateAt(entries, target + Len(todo) - 1)
PROOF
<1> DEFINE p == target + Len(todo)
<1>1. /\ todo \in Seq([table: Tables, change: Change]) /\ todo # <<>>
      /\ target \in Nat /\ p <= Len(entries) /\ entries \in Seq(Entry)
  BY DEF IInv, TypeOK, Shape, None
<1>2. Len(todo) \in Nat \ {0} /\ Head(todo) = todo[1] /\ Len(entries) \in Nat
  BY <1>1, EmptySeq, LenProperties
<1>3. todo[1] \in [table: Tables, change: Change]
  <2>1. 1 \in 1..Len(todo)
    BY <1>2
  <2> QED BY <1>1, <2>1, ElementOfSeq
<1>4. p \in 1..Len(entries) /\ p + 1 - 1 = p
  BY <1>1, <1>2
<1>5. todo[1] = [table |-> entries[p].table, change |-> entries[p].inverse]
  BY <1>2, <1>4 DEF IInv, TodoIsSuffixUndone
<1>6. states = StateAt(entries, p)
  BY <1>1 DEF IInv, RewindLaw, None
<1>7. PatchStates(StateAt(entries, p), entries[p].table, entries[p].inverse)
        = StateAt(entries, p - 1)
  BY <1>4 DEF IInv, InversesRestore, Restoring
<1> QED BY <1>1, <1>2, <1>3, <1>4, <1>5, <1>6, <1>7

LEMMA InitIInv == Init => IInv
PROOF
<1> SUFFICES ASSUME Init PROVE IInv
  OBVIOUS
<1> USE DEF Init
<1>1. EmptyStates \in States
  BY DEF EmptyStates, States, Table
<1>2. TypeOK
  BY <1>1 DEF TypeOK, None
<1>3. Shape
  BY DEF Shape, None
<1>4. StatesAreReplay
  BY StateAtZero DEF StatesAreReplay
<1>5. InversesRestore /\ TodoIsSuffixUndone /\ RewindLaw
  BY DEF InversesRestore, Restoring, TodoIsSuffixUndone, RewindLaw, None
<1> QED BY <1>2, <1>3, <1>4, <1>5 DEF IInv

LEMMA AppendDeltaKeeps ==
  ASSUME IInv, NEW t \in Tables, NEW c \in Change, AppendDelta(t, c)
  PROVE  IInv'
PROOF
<1> USE DEF AppendDelta, Logged
<1>1. /\ entries' \in Seq(Entry) /\ InversesRestore' /\ states' \in States
      /\ states' = StateAt(entries', Len(entries'))
  BY LoggedEffect
<1>2. todo' = <<>> /\ mode' = "ready" /\ target' = None
  BY DEF IInv, Shape
<1>3. TypeOK'
  BY <1>1, <1>2 DEF IInv, TypeOK
<1>4. Shape'
  BY <1>2 DEF Shape
<1>5. StatesAreReplay' /\ RewindLaw' /\ TodoIsSuffixUndone'
  BY <1>1, <1>2 DEF StatesAreReplay, RewindLaw, TodoIsSuffixUndone
<1> QED BY <1>1, <1>3, <1>4, <1>5 DEF IInv

LEMMA RewindToKeeps ==
  ASSUME IInv, NEW seq \in Nat, RewindTo(seq)
  PROVE  IInv'
PROOF
<1> DEFINE start == IF seq < Len(entries) THEN seq ELSE Len(entries)
           C == [table: Tables, change: Change]
<1>1. /\ entries \in Seq(Entry) /\ Len(entries) \in Nat /\ start \in 0..Len(entries)
  BY LenProperties DEF IInv, TypeOK
<1>2. /\ mode = "ready" /\ todo' = Compensations(entries, start) /\ target' = start
      /\ mode' = (IF start = Len(entries) THEN "ready" ELSE "rewinding")
      /\ UNCHANGED <<entries, states, pos>>
  BY DEF RewindTo
<1> HIDE DEF start
<1>3. /\ todo' \in Seq(C)
      /\ Len(todo') = Len(entries) - start
      /\ \A i \in 1..(Len(entries) - start) :
           todo'[i] = [table |-> entries[Len(entries) + 1 - i].table,
                       change |-> entries[Len(entries) + 1 - i].inverse]
  BY <1>1, <1>2, CompensationsAre
<1>4. todo' = <<>> <=> start = Len(entries)
  BY <1>1, <1>3, EmptySeq
<1>5. start \in Nat /\ start # None /\ start + Len(todo') = Len(entries)
  BY <1>1, <1>3 DEF None
<1>6. TypeOK'
  BY <1>2, <1>3, <1>5 DEF IInv, TypeOK
<1>7. Shape'
  BY <1>1, <1>2, <1>4, <1>5 DEF Shape
<1>8. StatesAreReplay' /\ InversesRestore' /\ RewindLaw'
  <2>1. states = StateAt(entries, Len(entries))
    BY <1>2 DEF IInv, StatesAreReplay
  <2> QED BY <1>2, <1>5, <2>1 DEF IInv, StatesAreReplay, InversesRestore, RewindLaw
<1>9. TodoIsSuffixUndone'
  <2>1. Len(todo') = Len(entries) - start
        /\ target' + Len(todo') = Len(entries) /\ entries' = entries
    BY <1>2, <1>3, <1>5
  <2> QED BY <1>3, <2>1 DEF TodoIsSuffixUndone
<1> QED BY <1>6, <1>7, <1>8, <1>9 DEF IInv

LEMMA CompensateKeeps ==
  ASSUME IInv, Compensate
  PROVE  IInv'
PROOF
<1> DEFINE C == [table: Tables, change: Change]
           p == target + Len(todo)
<1>1. mode = "rewinding" /\ Logged(Head(todo).table, Head(todo).change)
      /\ todo' = Tail(todo) /\ UNCHANGED <<pos, target>>
      /\ mode' = (IF Len(todo) = 1 THEN "ready" ELSE "rewinding")
  BY DEF Compensate
<1>2. /\ Head(todo).table \in Tables /\ Head(todo).change \in Change
      /\ target \in Nat /\ Len(todo) \in Nat \ {0} /\ p \in 1..Len(entries)
      /\ PatchStates(states, Head(todo).table, Head(todo).change) = StateAt(entries, p - 1)
  BY <1>1, HeadUndoes
<1>3. /\ entries' \in Seq(Entry) /\ InversesRestore' /\ states' \in States
      /\ Len(entries') = Len(entries) + 1
      /\ \A i \in 1..Len(entries) : entries'[i] = entries[i]
      /\ \A n \in 0..Len(entries) : StateAt(entries', n) = StateAt(entries, n)
      /\ states' = StateAt(entries', Len(entries'))
      /\ states' = StateAt(entries, p - 1)
  BY <1>1, <1>2, LoggedEffect DEF Logged
<1>4. todo \in Seq(C) /\ todo # <<>> /\ entries \in Seq(Entry) /\ Len(entries) \in Nat
  BY <1>1, LenProperties DEF IInv, TypeOK, Shape
<1>5. /\ todo' \in Seq(C) /\ Len(todo') = Len(todo) - 1
      /\ \A i \in 1..Len(todo') : todo'[i] = todo[i + 1]
  BY <1>1, <1>4, HeadTailProperties
<1>6. todo' = <<>> <=> Len(todo) = 1
  BY <1>2, <1>5, EmptySeq
<1>7. TypeOK'
  BY <1>1, <1>2, <1>3, <1>5 DEF IInv, TypeOK
<1>8. Shape'
  BY SMTT(60), <1>1, <1>2, <1>3, <1>4, <1>5, <1>6 DEF Shape, None
<1>9. StatesAreReplay'
  BY <1>1, <1>3 DEF StatesAreReplay
<1>10. RewindLaw'
  <2>1. target' + Len(todo') = p - 1 /\ p - 1 \in 0..Len(entries)
    BY <1>1, <1>2, <1>5
  <2> QED BY <1>3, <2>1 DEF RewindLaw
<1>11. TodoIsSuffixUndone'
  <2> SUFFICES ASSUME NEW i \in 1..Len(todo')
               PROVE  todo'[i] =
                        [table |-> entries'[target' + Len(todo') + 1 - i].table,
                         change |-> entries'[target' + Len(todo') + 1 - i].inverse]
    BY DEF TodoIsSuffixUndone
  <2>1. i + 1 \in 1..Len(todo) /\ target' + Len(todo') + 1 - i = p + 1 - (i + 1)
    BY <1>1, <1>2, <1>5
  <2>2. p + 1 - (i + 1) \in 1..Len(entries)
    BY <1>2, <1>4, <2>1
  <2>3. todo[i + 1] = [table |-> entries[p + 1 - (i + 1)].table,
                       change |-> entries[p + 1 - (i + 1)].inverse]
    BY <2>1 DEF IInv, TodoIsSuffixUndone
  <2> QED BY <1>3, <1>5, <2>1, <2>2, <2>3
<1> QED BY <1>3, <1>7, <1>8, <1>9, <1>10, <1>11 DEF IInv

LEMMA RewindAbortsKeeps ==
  ASSUME IInv, RewindAborts
  PROVE  IInv'
PROOF
<1> USE DEF RewindAborts
<1>1. TypeOK'
  BY DEF IInv, TypeOK
<1>2. Shape'
  BY DEF Shape
<1>3. StatesAreReplay' /\ InversesRestore' /\ RewindLaw' /\ TodoIsSuffixUndone'
  BY DEF IInv, StatesAreReplay, InversesRestore, RewindLaw, TodoIsSuffixUndone
<1> QED BY <1>1, <1>2, <1>3 DEF IInv

\* Reopening a log whose entries are well-typed and whose inverses restore.
LEMMA ReopeningKeeps ==
  ASSUME Reopening, entries' \in Seq(Entry), InversesRestore'
  PROVE  IInv'
PROOF
<1> USE DEF Reopening
<1>1. EmptyStates \in States
  BY DEF EmptyStates, States, Table
<1>2. TypeOK'
  BY <1>1 DEF TypeOK
<1>3. Len(entries') \in Nat
  BY LenProperties
<1>4. Shape'
  BY <1>3 DEF Shape
<1>5. StatesAreReplay' /\ RewindLaw' /\ TodoIsSuffixUndone'
  BY StateAtZero DEF StatesAreReplay, RewindLaw, TodoIsSuffixUndone
<1> QED BY <1>2, <1>4, <1>5 DEF IInv

LEMMA RebuildStepKeeps ==
  ASSUME IInv, RebuildStep
  PROVE  IInv'
PROOF
<1> DEFINE e == entries[pos + 1]
<1>1. /\ mode = "opening" /\ pos < Len(entries) /\ pos' = pos + 1
      /\ states' = PatchStates(states, e.table, e.change)
      /\ UNCHANGED <<entries, mode, todo, target>>
  BY DEF RebuildStep
<1>2. /\ entries \in Seq(Entry) /\ states \in States /\ pos \in Nat
      /\ Len(entries) \in Nat /\ todo = <<>> /\ target = None
  BY <1>1, LenProperties DEF IInv, TypeOK, Shape
<1>3. e \in Entry
  BY <1>1, <1>2, ElementOfSeq
<1>4. states' \in States
  BY <1>1, <1>2, <1>3, PatchType DEF Entry
<1>5. states' = StateAt(entries, pos + 1)
  <2>1. states = StateAt(entries, pos)
    BY <1>1 DEF IInv, StatesAreReplay
  <2> QED BY <1>1, <1>2, <2>1, StateAtStep
<1>6. TypeOK'
  BY <1>1, <1>2, <1>4 DEF IInv, TypeOK
<1>7. Shape'
  BY <1>1, <1>2 DEF Shape
<1>8. StatesAreReplay'
  BY <1>1, <1>5 DEF StatesAreReplay
<1>9. InversesRestore' /\ RewindLaw' /\ TodoIsSuffixUndone'
  BY <1>1, <1>2 DEF IInv, InversesRestore, RewindLaw, TodoIsSuffixUndone
<1> QED BY <1>6, <1>7, <1>8, <1>9 DEF IInv

LEMMA OpenedKeeps ==
  ASSUME IInv, Opened
  PROVE  IInv'
PROOF
<1> USE DEF Opened
<1>1. todo = <<>> /\ target = None
  BY DEF IInv, Shape
<1>2. TypeOK'
  BY DEF IInv, TypeOK
<1>3. Shape'
  BY <1>1 DEF Shape
<1>4. StatesAreReplay' /\ InversesRestore' /\ RewindLaw' /\ TodoIsSuffixUndone'
  BY <1>1 DEF IInv, StatesAreReplay, InversesRestore, RewindLaw, TodoIsSuffixUndone
<1> QED BY <1>2, <1>3, <1>4 DEF IInv

LEMMA CrashAfterWriteKeeps ==
  ASSUME IInv, NEW t \in Tables, NEW c \in Change, CrashAfterWrite(t, c)
  PROVE  IInv'
PROOF
<1>1. entries' \in Seq(Entry) /\ InversesRestore'
  BY LoggedEffect DEF CrashAfterWrite
<1> QED BY <1>1, ReopeningKeeps DEF CrashAfterWrite

LEMMA StepIInv == IInv /\ [Next]_vars => IInv'
PROOF
<1> SUFFICES ASSUME IInv, [Next]_vars PROVE IInv'
  OBVIOUS
<1>1. ASSUME NEW t \in Tables, NEW c \in Change, AppendDelta(t, c) PROVE IInv'
  BY <1>1, AppendDeltaKeeps
<1>2. ASSUME NEW seq \in 0..MaxEntries, RewindTo(seq) PROVE IInv'
  BY <1>2, MaxEntriesAssumption, RewindToKeeps
<1>3. CASE Compensate
  BY <1>3, CompensateKeeps
<1>4. CASE RewindAborts
  BY <1>4, RewindAbortsKeeps
<1>5. CASE Reopen
  <2>1. entries' = entries /\ entries' \in Seq(Entry) /\ InversesRestore'
    BY <1>5 DEF Reopen, IInv, TypeOK, InversesRestore
  <2> QED BY <1>5, <2>1, ReopeningKeeps DEF Reopen
<1>6. ASSUME NEW t \in Tables, NEW c \in Change, CrashAfterWrite(t, c) PROVE IInv'
  BY <1>6, CrashAfterWriteKeeps
<1>7. CASE RebuildStep
  BY <1>7, RebuildStepKeeps
<1>8. CASE Opened
  BY <1>8, OpenedKeeps
<1>9. CASE UNCHANGED vars
  BY <1>9 DEF vars, IInv, TypeOK, Shape, StatesAreReplay, InversesRestore, RewindLaw,
              TodoIsSuffixUndone
<1> QED BY <1>1, <1>2, <1>3, <1>4, <1>5, <1>6, <1>7, <1>8, <1>9 DEF Next

LEMMA AlwaysIInv == Spec => []IInv
BY InitIInv, StepIInv, PTL DEF Spec

-----------------------------------------------------------------------------

\* Type correctness: entries, tables and queue hold only well-typed changes.
THEOREM TypeCorrect == Spec => []TypeOK
BY AlwaysIInv, PTL DEF IInv

\* The tables a log answers from are always the replay of its entries (append,
\* rewind_to, rebuild_states).
THEOREM ReplayCorrect == Spec => []StatesAreReplay
BY AlwaysIInv, PTL DEF IInv

\* Every stored inverse restores the state before its change (invert).
THEOREM InversionCorrect == Spec => []InversesRestore
BY AlwaysIInv, PTL DEF IInv

\* "After rewind_to(k), the current state equals state_at(k)", and half way
\* through a rewind the tables are those of the prefix it has reached.
THEOREM RewindCorrect == Spec => []RewindLaw
BY AlwaysIInv, PTL DEF IInv

\* A running rewind's queue lines up with the entries it has yet to undo.
THEOREM QueueCorrect == Spec => []TodoIsSuffixUndone
BY AlwaysIInv, PTL DEF IInv

\* No step rewrites or drops an entry.
THEOREM LogIsAppendOnly == Spec => AppendOnly
PROOF
<1>1. ASSUME IInv, [Next]_vars
      PROVE  Len(entries') >= Len(entries) /\ SubSeq(entries', 1, Len(entries)) = entries
  <2>1. entries \in Seq(Entry) /\ Len(entries) \in Nat
    BY <1>1, LenProperties DEF IInv, TypeOK
  <2>2. CASE entries' = entries
    BY <2>1, <2>2, SubSeqFull
  <2>3. ASSUME NEW t \in Tables, NEW c \in Change, mode # "opening",
               entries' = Append(entries, EntryFor(states, t, c))
        PROVE  Len(entries') >= Len(entries) /\ SubSeq(entries', 1, Len(entries)) = entries
    <3>1. /\ entries' \in Seq(Entry) /\ Len(entries') = Len(entries) + 1
          /\ \A i \in 1..Len(entries) : entries'[i] = entries[i]
      BY <1>1, <2>3, LoggedEffect
    <3>2. /\ SubSeq(entries', 1, Len(entries)) \in Seq(Entry)
          /\ Len(SubSeq(entries', 1, Len(entries))) = Len(entries)
          /\ \A i \in 1..Len(entries) : SubSeq(entries', 1, Len(entries))[i] = entries'[i]
      BY <2>1, <3>1, ElementOfSeq, SubSeqProperties
    <3> QED BY <2>1, <3>1, <3>2, SeqEqual
  <2>4. CASE Compensate
    BY <1>1, <2>3, <2>4, HeadUndoes DEF Compensate, Logged
  <2>5. CASE entries' # entries /\ ~Compensate
    BY <1>1, <2>3, <2>5
    DEF Next, vars, AppendDelta, Logged, RewindTo, RewindAborts, Reopen, CrashAfterWrite,
        RebuildStep, Opened
  <2> QED BY <2>2, <2>4, <2>5
<1> QED BY <1>1, AlwaysIInv, PTL DEF Spec, AppendOnly

\* state_at, which folds patch over a prefix of the log, answers with the state of the
\* prefix, so also with what the tables held when its last entry was appended.
THEOREM StateAtCorrect == Spec => []ReplayAgrees
PROOF
<1>1. TypeOK => ReplayAgrees
  BY ReplayIs DEF TypeOK, ReplayAgrees
<1> QED BY <1>1, TypeCorrect, PTL

-----------------------------------------------------------------------------
(* The delta log implements UndoHistory: initial states map to initial     *)
(* states and, under the invariant, every step maps to a step of the       *)
(* history or a stutter.                                                   *)

\* The history a log stands for, and the two counters of its undo.
HistOf(es) == [n \in 1..(Len(es) + 1) |-> StateAt(es, n - 1)]
BackOf == IF mode = "rewinding" THEN target + Len(todo) ELSE 0
GoalOf == IF mode = "rewinding" THEN target + 1 ELSE 0

LEMMA HistOfType ==
  ASSUME NEW es \in Seq(Entry)
  PROVE  /\ HistOf(es) \in Seq(States)
         /\ Len(HistOf(es)) = Len(es) + 1
         /\ \A n \in 1..(Len(es) + 1) : HistOf(es)[n] = StateAt(es, n - 1)
PROOF
<1> DEFINE m == Len(es) + 1
<1>1. Len(es) \in Nat /\ m \in Nat
  BY LenProperties
<1>2. ASSUME NEW n \in 1..m PROVE StateAt(es, n - 1) \in States
  <2>1. n - 1 \in 0..Len(es)
    BY <1>1
  <2> QED BY <2>1, StateAtType
<1>3. HistOf(es) \in [1..m -> States]
  BY <1>2 DEF HistOf
<1>4. HistOf(es) \in Seq(States)
  BY <1>1, <1>3, SeqDef
<1>5. Len(HistOf(es)) \in Nat /\ 1..Len(HistOf(es)) = 1..m
  <2>1. DOMAIN HistOf(es) = 1..m
    BY <1>3
  <2> QED BY <1>4, <2>1, LenProperties
<1>6. Len(HistOf(es)) = m
  BY <1>1, <1>5, SameInterval
<1> QED BY <1>4, <1>6 DEF HistOf

\* One entry more is one state more.
LEMMA HistGrows ==
  ASSUME NEW es \in Seq(Entry), NEW fs \in Seq(Entry), Len(fs) = Len(es) + 1,
         \A n \in 0..Len(es) : StateAt(fs, n) = StateAt(es, n)
  PROVE  HistOf(fs) = Append(HistOf(es), StateAt(fs, Len(fs)))
PROOF
<1> DEFINE h == HistOf(es)
           g == HistOf(fs)
           x == StateAt(fs, Len(fs))
<1>1. Len(es) \in Nat /\ Len(fs) \in Nat
  BY LenProperties
<1>2. x \in States
  BY <1>1, StateAtType
<1>3. /\ h \in Seq(States) /\ Len(h) = Len(es) + 1
      /\ g \in Seq(States) /\ Len(g) = Len(es) + 2
      /\ \A n \in 1..(Len(es) + 1) : h[n] = StateAt(es, n - 1)
      /\ \A n \in 1..(Len(es) + 2) : g[n] = StateAt(fs, n - 1)
  BY <1>1, HistOfType
<1> HIDE DEF h, g, x
<1>4. /\ Append(h, x) \in Seq(States) /\ Len(Append(h, x)) = Len(es) + 2
      /\ \A n \in 1..(Len(es) + 1) : Append(h, x)[n] = h[n]
      /\ Append(h, x)[Len(es) + 2] = x
  BY <1>1, <1>2, <1>3, AppendProperties
<1>5. ASSUME NEW n \in 1..(Len(es) + 2) PROVE g[n] = Append(h, x)[n]
  <2>1. CASE n = Len(es) + 2
    BY <1>1, <1>3, <1>4, <2>1 DEF x
  <2>2. CASE n # Len(es) + 2
    <3>1. n \in 1..(Len(es) + 1) /\ n - 1 \in 0..Len(es)
      BY <1>1, <2>2
    <3> QED BY <1>3, <1>4, <3>1
  <2> QED BY <2>1, <2>2
<1>6. g = Append(h, x)
  BY <1>3, <1>4, <1>5, SeqEqual
<1> QED BY <1>6 DEF h, g, x

\* patch changes one row.
LEMMA PatchIsOneRow ==
  ASSUME NEW s \in States, NEW t \in Tables, NEW c \in Change
  PROVE  /\ PatchStates(s, t, c) = [s EXCEPT ![t][c.key] = c.val]
         /\ c.key \in Keys /\ c.val \in Values \cup {Absent}
BY DEF PatchStates, Patch, States, Table, Change

-----------------------------------------------------------------------------

\* Whoever appends (t, c), the history gains the patched state.
LEMMA LoggedHistory ==
  ASSUME IInv, mode # "opening", NEW t \in Tables, NEW c \in Change,
         entries' = Append(entries, EntryFor(states, t, c))
  PROVE  /\ HistOf(entries)' = Append(HistOf(entries), PatchStates(states, t, c))
         /\ HistOf(entries)[Len(HistOf(entries))] = states
PROOF
<1>1. /\ entries' \in Seq(Entry) /\ Len(entries') = Len(entries) + 1
      /\ \A n \in 0..Len(entries) : StateAt(entries', n) = StateAt(entries, n)
      /\ PatchStates(states, t, c) = StateAt(entries', Len(entries'))
  BY LoggedEffect
<1>2. entries \in Seq(Entry) /\ Len(entries) \in Nat /\ states = StateAt(entries, Len(entries))
  BY LenProperties DEF IInv, TypeOK, StatesAreReplay
<1>3. HistOf(entries') = Append(HistOf(entries), PatchStates(states, t, c))
  BY <1>1, <1>2, HistGrows
<1>4. HistOf(entries)[Len(HistOf(entries))] = states
  BY <1>2, HistOfType
<1> QED BY <1>3, <1>4

LEMMA OneRowStep ==
  ASSUME IInv, mode # "opening", NEW t \in Tables, NEW c \in Change,
         entries' = Append(entries, EntryFor(states, t, c))
  PROVE  History!OneRowChanged
PROOF
<1>1. /\ HistOf(entries)' = Append(HistOf(entries), PatchStates(states, t, c))
      /\ HistOf(entries)[Len(HistOf(entries))] = states
  BY LoggedHistory
<1>2. /\ PatchStates(states, t, c) = [states EXCEPT ![t][c.key] = c.val]
      /\ c.key \in Keys /\ c.val \in Values \cup {Absent}
  BY PatchIsOneRow DEF IInv, TypeOK
<1>3. HistOf(entries)' = Append(HistOf(entries),
        [HistOf(entries)[Len(HistOf(entries))] EXCEPT ![t][c.key] = c.val])
  BY <1>1, <1>2
<1> SUFFICES \E u \in Tables, k \in Keys, v \in Values \cup {Absent} :
               HistOf(entries)' = Append(HistOf(entries),
                 [HistOf(entries)[Len(HistOf(entries))] EXCEPT ![u][k] = v])
  BY DEF History!OneRowChanged, History!Current, HistOf
<1> HIDE DEF HistOf
<1> USE <1>2
<1> WITNESS t \in Tables, c.key \in Keys, c.val \in Values \cup {Absent}
<1> QED BY <1>3

\* A compensation adds the state the history's undo is at.
LEMMA UndoStep ==
  ASSUME IInv, mode = "rewinding",
         entries' = Append(entries, EntryFor(states, Head(todo).table, Head(todo).change))
  PROVE  /\ HistOf(entries)' = Append(HistOf(entries), HistOf(entries)[BackOf])
         /\ BackOf > 0
PROOF
<1> DEFINE p == target + Len(todo)
<1>1. /\ Head(todo).table \in Tables /\ Head(todo).change \in Change
      /\ p \in 1..Len(entries)
      /\ PatchStates(states, Head(todo).table, Head(todo).change) = StateAt(entries, p - 1)
  BY HeadUndoes
<1>2. BackOf = p
  BY DEF BackOf
<1> HIDE DEF p
<1>3. HistOf(entries)' = Append(HistOf(entries), StateAt(entries, p - 1))
  <2>1. HistOf(entries)' = Append(HistOf(entries),
          PatchStates(states, Head(todo).table, Head(todo).change))
    BY <1>1, LoggedHistory
  <2> QED BY <1>1, <2>1, Zenon
<1>4. entries \in Seq(Entry) /\ Len(entries) \in Nat /\ p \in 1..(Len(entries) + 1)
  BY <1>1, LenProperties DEF IInv, TypeOK
<1>5. HistOf(entries)[p] = StateAt(entries, p - 1)
  BY <1>4, HistOfType
<1>6. HistOf(entries)' = Append(HistOf(entries), HistOf(entries)[p])
  BY <1>3, <1>5, Zenon
<1> QED BY <1>1, <1>6, <1>2

LEMMA InitRefines == Init => History!Init
PROOF
<1> SUFFICES ASSUME Init PROVE History!Init
  OBVIOUS
<1>1. HistOf(<<>>) = <<EmptyStates>>
  <2>1. Len(<<>>) = 0 /\ 1..(0 + 1) = {1}
    OBVIOUS
  <2>2. HistOf(<<>>) = [n \in {1} |-> StateAt(<<>>, n - 1)]
    BY <2>1 DEF HistOf
  <2>3. StateAt(<<>>, 1 - 1) = EmptyStates
    BY StateAtZero
  <2> QED BY <2>2, <2>3
<1> QED BY <1>1 DEF Init, History!Init, HistOf, EmptyStates

LEMMA StepRefines == IInv /\ [Next]_vars => [History!HNext]_(History!hvars)
PROOF
<1> SUFFICES ASSUME IInv, [Next]_vars
             PROVE  History!HNext \/ UNCHANGED History!hvars
  OBVIOUS
<1> USE DEF HistOf
<1>1. ASSUME NEW t \in Tables, NEW c \in Change, AppendDelta(t, c) PROVE History!Write
  <2>1. mode = "ready" /\ mode' = "ready" /\ History!OneRowChanged
    BY <1>1, OneRowStep DEF AppendDelta, Logged
  <2> QED BY <2>1 DEF History!Write
<1>2. ASSUME NEW seq \in 0..MaxEntries, RewindTo(seq)
      PROVE  History!BeginUndo \/ UNCHANGED History!hvars
  <2> DEFINE start == IF seq < Len(entries) THEN seq ELSE Len(entries)
  <2>1. /\ entries \in Seq(Entry) /\ Len(entries) \in Nat /\ start \in 0..Len(entries)
    BY MaxEntriesAssumption, LenProperties DEF IInv, TypeOK
  <2>2. /\ mode = "ready" /\ target' = start /\ entries' = entries
        /\ mode' = (IF start = Len(entries) THEN "ready" ELSE "rewinding")
        /\ todo' = Compensations(entries, start)
    BY <1>2 DEF RewindTo
  <2> HIDE DEF start
  <2>3. Len(todo') = Len(entries) - start
    BY <2>1, <2>2, CompensationsAre
  <2>4. CASE start = Len(entries)
    BY <2>2, <2>4 DEF History!hvars
  <2>5. CASE start # Len(entries)
    <3>1. /\ BackOf = 0 /\ BackOf' = Len(entries) /\ GoalOf' = start + 1
          /\ start + 1 \in 1..Len(entries)
      BY <2>1, <2>2, <2>3, <2>5 DEF BackOf, GoalOf
    <3>2. Len(HistOf(entries)) - 1 = Len(entries) /\ HistOf(entries)' = HistOf(entries)
      BY <2>1, <2>2, HistOfType
    <3> QED BY <3>1, <3>2 DEF History!BeginUndo, BackOf, GoalOf
  <2> QED BY <2>4, <2>5
<1>3. CASE Compensate
  <2>1. /\ mode = "rewinding" /\ todo' = Tail(todo) /\ target' = target
        /\ mode' = (IF Len(todo) = 1 THEN "ready" ELSE "rewinding")
        /\ entries' = Append(entries, EntryFor(states, Head(todo).table, Head(todo).change))
    BY <1>3 DEF Compensate, Logged
  <2>2. /\ HistOf(entries)' = Append(HistOf(entries), HistOf(entries)[BackOf])
        /\ BackOf > 0
    BY <2>1, UndoStep
  <2>3. target \in Nat /\ Len(todo) \in Nat \ {0}
    BY <2>1, HeadUndoes
  <2>4. Len(todo') = Len(todo) - 1
    <3>1. todo \in Seq([table: Tables, change: Change]) /\ todo # <<>>
      BY <2>1 DEF IInv, TypeOK, Shape
    <3> QED BY <2>1, <3>1, HeadTailProperties
  <2>5. IF BackOf = GoalOf THEN BackOf' = 0 /\ GoalOf' = 0
                           ELSE BackOf' = BackOf - 1 /\ GoalOf' = GoalOf
    BY <2>1, <2>3, <2>4 DEF BackOf, GoalOf
  <2> QED BY <2>2, <2>5 DEF History!HNext, History!UndoOne, BackOf, GoalOf
<1>4. CASE RewindAborts \/ Reopen
  BY <1>4 DEF RewindAborts, Reopen, Reopening, History!HNext, History!Interrupted
<1>5. ASSUME NEW t \in Tables, NEW c \in Change, CrashAfterWrite(t, c)
      PROVE  History!Interrupted
  <2>1. mode' = "opening"
        /\ entries' = Append(entries, EntryFor(states, t, c))
    BY <1>5 DEF CrashAfterWrite, Reopening
  <2>2. CASE mode = "ready"
    <3>1. History!OneRowChanged
      BY <2>1, <2>2, OneRowStep
    <3> QED BY <2>1, <2>2, <3>1 DEF History!Interrupted
  <2>3. CASE mode = "rewinding" /\ t = Head(todo).table /\ c = Head(todo).change
    <3>1. HistOf(entries)' = Append(HistOf(entries), HistOf(entries)[BackOf]) /\ BackOf > 0
      BY <2>1, <2>3, UndoStep
    <3> QED BY <2>1, <2>3, <3>1 DEF History!Interrupted, BackOf
  <2> QED BY <1>5, <2>2, <2>3 DEF CrashAfterWrite
<1>6. CASE RebuildStep \/ Opened
  BY <1>6 DEF RebuildStep, Opened, History!hvars
<1>7. CASE UNCHANGED vars
  BY <1>7 DEF vars, History!hvars
<1> QED BY <1>1, <1>2, <1>3, <1>4, <1>5, <1>6, <1>7 DEF Next, History!HNext

\* The log is indistinguishable, to a client that sees states, from a store of
\* snapshots that undoes by copying past states back (append, rewind_to, open).
THEOREM LogImplementsUndoHistory == Spec => ImplementsUndoHistory
BY InitRefines, StepRefines, AlwaysIInv, PTL DEF Spec, ImplementsUndoHistory, History!HSpec
=============================================================================
