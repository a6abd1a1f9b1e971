------------------------ MODULE DeltaJournal_proofs -------------------------
(***************************************************************************)
(* The journal of a careful owner (Careful) keeps what an append promised, *)
(* is never refused by the program that wrote it, and implements DeltaLog, *)
(* for every number of cells per record, set of faults and bound.          *)
(*                                                                         *)
(* The inductive invariant says what the file holds in every mode: the     *)
(* records of the log and at most the beginning of one more (FileOK), and  *)
(* why an append can only begin with the cursor at the end of such a file  *)
(* without a beginning (OpensOK): a failed append and a recovery that cuts *)
(* leave the cursor elsewhere, the open after that does not.  What the     *)
(* tables and the rewind's queue hold is DeltaLog's own invariant, through *)
(* the refinement.                                                         *)
(***************************************************************************)
EXTENDS DeltaJournal, SequenceTheorems, WellFoundedInduction, TLAPS

-----------------------------------------------------------------------------
(* The file: what the recovery scan reads from it (RecordsIn), for every   *)
(* number of cells per record.  The records of a well-formed file are the  *)
(* ones it was written from, whatever prefix of it a crash leaves and      *)
(* whichever cell of the next record was written last.                     *)

Cell == [entry: Entry, part: 1..RecCells] \cup {Hole}

\* Cells of n records.
At(n) == RecCells * n

\* The file holds the records of es, one after the other, and at most the beginning of
\* one more.
JournalOf(f, es) ==
  /\ At(Len(es)) <= Len(f) /\ Len(f) < At(Len(es)) + RecCells
  /\ \A i \in 1..Len(es) : Complete(f, At(i - 1)) /\ f[At(i - 1) + 1].entry = es[i]
  /\ At(Len(es)) < Len(f) => Clipped(f, At(Len(es)))

IsPrefixOf(es, fs) == Len(es) <= Len(fs) /\ \A i \in 1..Len(es) : es[i] = fs[i]

-----------------------------------------------------------------------------

\* Records lie one after the other.
LEMMA AtFacts ==
  /\ RecCells \in Nat /\ RecCells >= 2
  /\ \A n \in Nat : At(n) \in Nat /\ n <= At(n) /\ At(n + 1) = At(n) + RecCells
  /\ At(0) = 0
  /\ \A m, n \in Nat : m < n => At(m) + RecCells <= At(n)
  /\ \A m, n \in Nat : m <= n => At(m) <= At(n)
<1>1. RecCells \in Nat /\ RecCells >= 2
  BY JournalAssumption
<1>2. ASSUME NEW n \in Nat PROVE At(n) \in Nat /\ n <= At(n) /\ At(n + 1) = At(n) + RecCells
  BY <1>1 DEF At
<1>3. At(0) = 0
  BY <1>1 DEF At
<1>4. ASSUME NEW m \in Nat, NEW n \in Nat, m <= n PROVE At(m) <= At(n)
  BY <1>1, <1>4 DEF At
<1>5. ASSUME NEW m \in Nat, NEW n \in Nat, m < n PROVE At(m) + RecCells <= At(n)
  <2>1. At(m + 1) <= At(n)
    BY <1>4, <1>5
  <2> QED BY <1>2, <2>1
<1> QED BY <1>1, <1>2, <1>3, <1>4, <1>5

LEMMA AtTimes == \A n \in Int : n * RecCells = At(n)
BY JournalAssumption DEF At

\* The cells of a record are no holes.
LEMMA RecordCellFacts ==
  ASSUME NEW e \in Entry, NEW p \in 1..RecCells
  PROVE  RecordCell(e, p) \in Cell /\ RecordCell(e, p) # Hole /\ RecordCell(e, p).entry = e
BY JournalAssumption DEF RecordCell, Cell

\* A file is the journal of one log only: the scan's.
LEMMA RecordsUnique ==
  ASSUME NEW f \in Seq(Cell), NEW es \in Seq(Entry), JournalOf(f, es)
  PROVE  RecordsIn(f) = es
<1> DEFINE P(m) == /\ \A i \in 1..m : Complete(f, (i - 1) * RecCells)
                   /\ ~Complete(f, m * RecCells)
           L == Len(es)
           n == CHOOSE m \in 0..Len(f) : P(m)
<1>1. L \in Nat /\ Len(f) \in Nat /\ es = [i \in 1..L |-> es[i]]
  BY LenProperties
<1>2. \A i \in 1..L : Complete(f, At(i - 1)) /\ f[At(i - 1) + 1].entry = es[i]
  BY DEF JournalOf
<1>3. At(L) <= Len(f) /\ Len(f) < At(L) + RecCells
  BY DEF JournalOf
<1>4. ~Complete(f, At(L))
  <2>1. ~(At(L) + RecCells <= Len(f))
    <3>1. At(L) \in Nat /\ RecCells \in Nat
      BY <1>1, AtFacts
    <3> QED BY <1>1, <1>3, <3>1
  <2> QED BY <2>1 DEF Complete
<1>5. L \in 0..Len(f) /\ P(L)
  <2>1. L \in 0..Len(f)
    <3>1. L <= At(L) /\ At(L) \in Nat
      BY <1>1, AtFacts
    <3> QED BY <1>1, <1>3, <3>1
  <2>2. \A i \in 1..L : Complete(f, (i - 1) * RecCells)
    BY <1>2, AtTimes
  <2>3. ~Complete(f, L * RecCells)
    BY <1>1, <1>4, AtTimes
  <2> QED BY <2>1, <2>2, <2>3
<1>6. ASSUME NEW m \in 0..Len(f), P(m) PROVE m = L
  <2>1. CASE m < L
    <3>1. m + 1 \in 1..L /\ m + 1 - 1 = m
      BY <1>1, <2>1
    <3>2. Complete(f, At(m))
      BY <1>2, <3>1
    <3> QED BY <1>6, <3>2, AtTimes
  <2>2. CASE m > L
    <3>1. PICK k \in 1..m : k - 1 = L
      <4>1. L + 1 \in 1..m /\ L + 1 - 1 = L
        BY <1>1, <2>2
      <4> QED BY <4>1
    <3>2. \A i \in 1..m : Complete(f, At(i - 1))
      <4>1. \A i \in 1..m : Complete(f, (i - 1) * RecCells)
        BY <1>6
      <4>2. \A i \in 1..m : (i - 1) * RecCells = At(i - 1)
        BY AtTimes
      <4> QED BY <4>1, <4>2, Zenon
    <3> QED BY <1>4, <3>1, <3>2
  <2> QED BY <1>1, <2>1, <2>2
<1>7. n \in 0..Len(f) /\ P(n)
  BY <1>5
<1>8. n = L
  BY <1>6, <1>7
<1>9. RecordsIn(f) = [i \in 1..L |-> f[(i - 1) * RecCells + 1].entry]
  BY <1>8 DEF RecordsIn
<1>10. \A i \in 1..L : f[(i - 1) * RecCells + 1].entry = es[i]
  BY <1>2, AtTimes
<1> QED BY <1>1, <1>9, <1>10

\* A prefix of the file is the journal of a prefix of the log.
LEMMA PrefixJournal ==
  ASSUME NEW f \in Seq(Cell), NEW es \in Seq(Entry), JournalOf(f, es), NEW n \in 0..Len(f)
  PROVE  /\ SubSeq(f, 1, n) \in Seq(Cell) /\ Len(SubSeq(f, 1, n)) = n
         /\ \E m \in 0..Len(es) :
              /\ SubSeq(es, 1, m) \in Seq(Entry) /\ Len(SubSeq(es, 1, m)) = m
              /\ \A i \in 1..m : SubSeq(es, 1, m)[i] = es[i]
              /\ JournalOf(SubSeq(f, 1, n), SubSeq(es, 1, m))
              /\ At(m) <= n /\ n < At(m) + RecCells
<1> DEFINE g == SubSeq(f, 1, n)
           L == Len(es)
<1>1. Len(f) \in Nat /\ L \in Nat /\ n \in Nat /\ n <= Len(f)
  BY LenProperties
<1>2. g \in Seq(Cell) /\ Len(g) = n /\ \A i \in 1..n : g[i] = f[i]
  BY <1>1, SubSeqProperties, ElementOfSeq
<1>3. PICK m \in Nat : At(m) <= n /\ n < At(m) + RecCells
  <2> DEFINE q == n \div RecCells
  <2>1. RecCells \in Nat \ {0}
    BY JournalAssumption
  <2>2. q \in Int /\ RecCells * q <= n
    BY <1>1, <2>1
  <2>3. n < RecCells * q + RecCells
    BY <1>1, <2>1
  <2>4. q \in Nat
    BY <1>1, <2>1
  <2> QED BY <2>2, <2>3, <2>4 DEF At
<1>4. m <= L
  <2>1. At(L) \in Nat /\ At(m) \in Nat /\ RecCells \in Nat
    BY <1>1, AtFacts
  <2>2. L < m => At(L) + RecCells <= At(m)
    BY <1>1, AtFacts
  <2>3. Len(f) < At(L) + RecCells
    BY DEF JournalOf
  <2> QED BY <1>1, <1>3, <2>1, <2>2, <2>3
<1>5. /\ SubSeq(es, 1, m) \in Seq(Entry) /\ Len(SubSeq(es, 1, m)) = m
      /\ \A i \in 1..m : SubSeq(es, 1, m)[i] = es[i]
  BY <1>1, <1>4, SubSeqProperties, ElementOfSeq
<1>6. ASSUME NEW i \in 1..m PROVE Complete(g, At(i - 1)) /\ g[At(i - 1) + 1].entry = es[i]
  <2>0. i \in 1..L /\ i - 1 \in Nat /\ i - 1 < m
    BY <1>1, <1>4
  <2>1. At(i - 1) \in Nat /\ At(m) \in Nat /\ RecCells \in Nat /\ RecCells >= 2
    BY <2>0, AtFacts
  <2>2. At(i - 1) + RecCells <= n
    <3>1. At(i - 1) + RecCells <= At(m)
      BY <2>0, AtFacts
    <3> QED BY <1>1, <1>3, <2>1, <3>1
  <2>3. Complete(f, At(i - 1)) /\ f[At(i - 1) + 1].entry = es[i]
    BY <2>0 DEF JournalOf
  <2>4. \A p \in 1..RecCells : At(i - 1) + p \in 1..n
    BY <1>1, <2>1, <2>2
  <2>5. 1 \in 1..RecCells
    BY <2>1
  <2>6. \A p \in 1..RecCells : g[At(i - 1) + p] = f[At(i - 1) + p]
    BY <1>2, <2>4
  <2> QED BY <1>2, <2>2, <2>3, <2>5, <2>6 DEF Complete
<1>7. ASSUME At(m) < n PROVE Clipped(g, At(m))
  <2>0. At(m) \in Nat /\ RecCells \in Nat
    BY AtFacts
  <2>1. At(m) \in Nat /\ \A p \in 1..(n - At(m)) : At(m) + p \in 1..n /\ p \in 1..RecCells
    BY <1>1, <1>3, <2>0
  <2>2. 1 \in 1..(n - At(m))
    BY <1>1, <1>7, <2>1
  <2>3. \A p \in 1..(n - At(m)) : g[At(m) + p] = f[At(m) + p]
    BY <1>2, <2>1
  <2>4. CASE m < L
    <3>1. m + 1 \in 1..L /\ m + 1 - 1 = m
      BY <1>1, <2>4
    <3>2. Complete(f, At(m))
      BY <3>1 DEF JournalOf
    <3> QED BY <1>2, <1>3, <1>7, <2>1, <2>2, <2>3, <3>2 DEF Complete, Clipped
  <2>5. CASE m = L
    <3>1. Clipped(f, At(m)) /\ \A p \in 1..(n - At(m)) : p \in 1..(Len(f) - At(m))
      BY <1>1, <1>7, <2>1, <2>5 DEF JournalOf
    <3> QED BY <1>2, <1>3, <1>7, <2>1, <2>2, <2>3, <3>1 DEF Clipped
  <2> QED BY <1>1, <1>4, <2>4, <2>5
<1>8. JournalOf(g, SubSeq(es, 1, m))
  BY <1>2, <1>3, <1>5, <1>6, <1>7 DEF JournalOf
<1> QED BY <1>1, <1>2, <1>3, <1>4, <1>5, <1>8

\* One cell more of the record of e, after `w` of its cells.
LEMMA OneCellMore ==
  ASSUME NEW f \in Seq(Cell), NEW es \in Seq(Entry), NEW e \in Entry, JournalOf(f, es),
         NEW w \in Nat, w < RecCells, Len(f) = At(Len(es)) + w,
         \A p \in 1..w : f[At(Len(es)) + p] = RecordCell(e, p),
         NEW g, g = [i \in 1..(Len(f) + 1) |-> IF i = Len(f) + 1 THEN RecordCell(e, w + 1) ELSE f[i]]
  PROVE  /\ g \in Seq(Cell) /\ Len(g) = Len(f) + 1
         /\ \A p \in 1..(w + 1) : g[At(Len(es)) + p] = RecordCell(e, p)
         /\ w + 1 < RecCells => JournalOf(g, es)
         /\ w + 1 = RecCells => JournalOf(g, Append(es, e))
<1> DEFINE L == Len(es)
<1>1. L \in Nat /\ Len(f) \in Nat /\ At(L) \in Nat
  BY LenProperties, AtFacts
<1>2. w + 1 \in 1..RecCells /\ RecordCell(e, w + 1) \in Cell
  BY RecordCellFacts, AtFacts
<1>3. /\ g \in Seq(Cell) /\ Len(g) = Len(f) + 1
      /\ g[Len(f) + 1] = RecordCell(e, w + 1)
      /\ \A i \in 1..Len(f) : g[i] = f[i]
  <2>1. \A i \in 1..Len(f) : f[i] \in Cell
    BY ElementOfSeq
  <2>2. g \in [1..(Len(f) + 1) -> Cell]
    BY <1>1, <1>2, <2>1
  <2>3. g \in Seq(Cell)
    <3>1. Len(f) + 1 \in Nat
      BY <1>1
    <3> QED BY <2>2, <3>1, SeqDef
  <2>4. DOMAIN g = 1..(Len(f) + 1) /\ DOMAIN g = 1..Len(g) /\ Len(g) \in Nat
    BY <2>2, <2>3, LenProperties
  <2>5. Len(f) + 1 \in 1..Len(g) /\ (Len(g) > 0 => Len(g) \in 1..(Len(f) + 1))
    BY <1>1, <2>4
  <2>6. Len(g) = Len(f) + 1
    BY <1>1, <2>4, <2>5
  <2> QED BY <1>1, <2>3, <2>6
<1>4. ASSUME NEW p \in 1..(w + 1) PROVE g[At(L) + p] = RecordCell(e, p)
  <2>1. CASE p = w + 1
    <3>1. At(L) + p = Len(f) + 1
      BY <1>1, <2>1
    <3> QED BY <1>3, <2>1, <3>1
  <2>2. CASE p # w + 1
    <3>1. p \in 1..w /\ At(L) + p \in 1..Len(f)
      BY <1>1, <2>2
    <3> QED BY <1>3, <3>1
  <2> QED BY <2>1, <2>2
<1>5. ASSUME NEW i \in 1..L PROVE Complete(g, At(i - 1)) /\ g[At(i - 1) + 1].entry = es[i]
  <2>0. i - 1 \in Nat /\ i - 1 < L
    BY <1>1
  <2>1. /\ At(i - 1) \in Nat /\ At(i - 1) + RecCells <= At(L)
        /\ RecCells \in Nat /\ RecCells >= 2
    BY <1>1, <2>0, AtFacts
  <2>2. Complete(f, At(i - 1)) /\ f[At(i - 1) + 1].entry = es[i]
    BY DEF JournalOf
  <2>3. \A p \in 1..RecCells : At(i - 1) + p \in 1..Len(f)
    BY SMTT(60), <1>1, <2>1
  <2>4. \A p \in 1..RecCells : g[At(i - 1) + p] = f[At(i - 1) + p]
    BY <1>3, <2>3
  <2>5. 1 \in 1..RecCells /\ At(i - 1) + RecCells <= Len(g)
    BY <1>1, <1>3, <2>1
  <2> QED BY <2>2, <2>4, <2>5 DEF Complete
<1>6. 1 \in 1..(w + 1) /\ 1 \in 1..RecCells /\ RecCells \in Nat
  BY AtFacts
<1>7. g[At(L) + 1] = RecordCell(e, 1) /\ g[At(L) + 1] # Hole /\ g[At(L) + 1].entry = e
  <2>1. g[At(L) + 1] = RecordCell(e, 1)
    BY <1>4, <1>6
  <2> QED BY <1>6, <2>1, RecordCellFacts
<1>8. ASSUME w + 1 < RecCells PROVE JournalOf(g, es)
  <2>1. Len(g) = At(L) + w + 1 /\ Len(g) - At(L) = w + 1
    BY <1>1, <1>3
  <2>2. At(L) < Len(g) /\ Len(g) < At(L) + RecCells
    BY <1>1, <1>6, <1>8, <2>1
  <2>3. Clipped(g, At(L))
    BY <1>4, <1>7, <2>1, <2>2 DEF Clipped
  <2>4. At(L) <= Len(g)
    BY <1>1, <2>1
  <2> QED BY <1>5, <2>2, <2>3, <2>4 DEF JournalOf
<1>9. ASSUME w + 1 = RecCells PROVE JournalOf(g, Append(es, e))
  <2> DEFINE fs == Append(es, e)
  <2>1. /\ Len(fs) = L + 1 /\ fs[L + 1] = e
        /\ \A i \in 1..L : fs[i] = es[i]
    BY AppendProperties
  <2>2. Len(g) = At(L + 1) /\ Len(g) = At(L) + RecCells
    <3>1. At(L + 1) = At(L) + RecCells
      BY <1>1, AtFacts
    <3> QED BY <1>1, <1>3, <1>6, <1>9, <3>1
  <2>3. Complete(g, At(L))
    <3>1. At(L) + RecCells <= Len(g)
      BY <1>1, <1>6, <2>2
    <3>2. \A p \in 1..RecCells : g[At(L) + p] = RecordCell(e, p)
      BY <1>4, <1>9
    <3> QED BY <1>7, <3>1, <3>2 DEF Complete
  <2>4. ASSUME NEW i \in 1..(L + 1) PROVE Complete(g, At(i - 1)) /\ g[At(i - 1) + 1].entry = fs[i]
    <3>1. CASE i \in 1..L
      BY <1>5, <2>1, <3>1
    <3>2. CASE i = L + 1
      <4>1. i - 1 = L
        BY <1>1, <3>2
      <4> QED BY <1>7, <2>1, <2>3, <3>2, <4>1
    <3> QED BY <1>1, <3>1, <3>2
  <2>5. /\ At(L + 1) <= Len(g) /\ Len(g) < At(L + 1) + RecCells /\ ~(At(L + 1) < Len(g))
    <3>1. At(L + 1) \in Nat /\ RecCells \in Nat /\ RecCells >= 2
      BY <1>1, AtFacts
    <3> QED BY <2>2, <3>1
  <2> HIDE DEF fs
  <2>6. JournalOf(g, fs)
    BY <2>1, <2>4, <2>5 DEF JournalOf
  <2> QED BY <2>6 DEF fs
<1> QED BY <1>3, <1>4, <1>8, <1>9

-----------------------------------------------------------------------------
(* The invariant.                                                          *)

\* The log as the refinement sees it: the index, or what the file says of it.
Kept == IF Indexed THEN entries ELSE RecordsIn(file)

\* The file, between two appends and during one.
FileOK ==
  /\ RecordsIn(file) \in Seq(Entry) /\ JournalOf(file, RecordsIn(file))
  /\ Indexed /\ pending = <<>> => RecordsIn(file) = entries /\ Len(file) = At(Len(entries))
  /\ pending # <<>> =>
       /\ cursor = Len(file) /\ Len(file) = At(Len(entries)) + written
       /\ RecordsIn(file) = IF written < RecCells THEN entries ELSE Append(entries, pending[1])
       /\ \A p \in 1..written : file[At(Len(entries)) + p] = RecordCell(pending[1], p)

\* A handle that is not open yet holds nothing, and a scan the records it has passed.
HandleOK ==
  /\ ~Indexed => /\ states = EmptyStates /\ pos = 0 /\ todo = <<>> /\ target = None
  /\ ~Serving => pending = <<>>
  /\ pending = <<>> => written = 0
  /\ mode \in {"closed", "skewed", "refused"} => entries = <<>> /\ offset = 0
  /\ mode \in {"skewed", "refused"} => "skew" \in Faults
  /\ mode = "scanning" => offset = At(Len(entries)) /\ IsPrefixOf(entries, RecordsIn(file))

\* The second open since a failure finds nothing to cut and leaves the cursor at the end.
OpensOK ==
  /\ Serving => opens >= 1
  /\ opens >= 1 /\ pending = <<>> => Len(file) = At(Len(RecordsIn(file)))
  /\ opens >= 1 /\ mode \in {"scanning", "rebuilding"} => cursor = Len(file)
  /\ opens = 2 /\ Serving => cursor = Len(file)

\* The append under way is the one the owner or the rewind asked for.
PendingOK ==
  /\ pending # <<>> =>
       /\ opens = 2 /\ Len(entries) < MaxEntries
       /\ pending[1] \in Entry
       /\ pending[1] = EntryFor(states, pending[1].table, pending[1].change)
  /\ mode = "rewinding" =>
       /\ opens = 2 /\ Len(entries) + Len(todo) <= MaxEntries
       /\ pending # <<>> => /\ pending[1].table = Head(todo).table
                            /\ pending[1].change = Head(todo).change

\* What an append promised is in the log and on stable storage.
PromiseOK == IsPrefixOf(promised, Kept) /\ At(Len(promised)) <= synced

JInv == TypeOK /\ FileOK /\ HandleOK /\ OpensOK /\ PendingOK /\ PromiseOK

\* DeltaLog's theorems, of the log the journal implements.
LogP == INSTANCE DeltaLog_proofs WITH
  entries <- Kept,
  states <- states,
  mode <- IF Serving THEN mode ELSE "opening",
  pos <- pos,
  todo <- todo,
  target <- target

IInv == JInv /\ LogP!IInv

-----------------------------------------------------------------------------
(* The change algebra is DeltaLog's.                                       *)

\* DeltaLog speaks of the same changes, entries and states.
LEMMA SameAlgebra ==
  /\ LogP!Entry = Entry /\ LogP!Change = Change /\ LogP!EmptyStates = EmptyStates
  /\ LogP!States = States /\ LogP!None = None
  /\ \A s, t, c : LogP!EntryFor(s, t, c) = EntryFor(s, t, c)
  /\ \A s, t, c : LogP!PatchStates(s, t, c) = PatchStates(s, t, c)
<1>1. LogP!Change = Change /\ LogP!Entry = Entry
  BY DEF Change, Entry, LogP!Change, LogP!Entry
<1>2. LogP!EmptyStates = EmptyStates /\ LogP!None = None /\ LogP!States = States
  BY DEF EmptyStates, None, States, Table, LogP!EmptyStates, LogP!None, LogP!States, LogP!Table
<1>3. ASSUME NEW s, NEW t, NEW c
      PROVE  LogP!EntryFor(s, t, c) = EntryFor(s, t, c)
  BY DEF EntryFor, Invert, InsertOf, UpdateOf, RemoveOf,
         LogP!EntryFor, LogP!Invert, LogP!InsertOf, LogP!UpdateOf, LogP!RemoveOf
<1>4. ASSUME NEW s, NEW t, NEW c
      PROVE  LogP!PatchStates(s, t, c) = PatchStates(s, t, c)
  BY DEF PatchStates, Patch, LogP!PatchStates, LogP!Patch
<1> QED BY <1>1, <1>2, <1>3, <1>4

LEMMA SameReplay ==
  /\ \A es, n : LogP!StateAt(es, n) = StateAt(es, n)
  /\ \A es : LogP!Restoring(es) <=> Restoring(es)
<1>1. ASSUME NEW es, NEW n
      PROVE  LogP!StateAt(es, n) = StateAt(es, n)
  BY DEF StateAt, RowAt, Writers, Latest, LogP!StateAt, LogP!RowAt, LogP!Writers, LogP!Latest
<1>2. ASSUME NEW es
      PROVE  LogP!Restoring(es) <=> Restoring(es)
  BY <1>1, SameAlgebra DEF Restoring, LogP!Restoring
<1> QED BY <1>1, <1>2

\* What DeltaLog's lemmas say of it.
LEMMA PatchType ==
  ASSUME NEW s \in States, NEW t \in Tables, NEW c \in Change
  PROVE  PatchStates(s, t, c) \in States
<1>1. LogP!PatchStates(s, t, c) \in LogP!States
  BY LogP!PatchType, SameAlgebra, AbsentAssumption, JournalAssumption
<1> QED BY <1>1, SameAlgebra

LEMMA EntryForCorrect ==
  ASSUME NEW s \in States, NEW t \in Tables, NEW c \in Change
  PROVE  /\ EntryFor(s, t, c) \in Entry
         /\ EntryFor(s, t, c).table = t
         /\ EntryFor(s, t, c).change = c
<1>1. /\ LogP!EntryFor(s, t, c) \in LogP!Entry
      /\ LogP!EntryFor(s, t, c).table = t /\ LogP!EntryFor(s, t, c).change = c
  BY LogP!EntryForCorrect, SameAlgebra, AbsentAssumption, JournalAssumption
<1> QED BY <1>1, SameAlgebra

LEMMA AppendedRestores ==
  ASSUME NEW es \in Seq(Entry), NEW t \in Tables, NEW c \in Change,
         NEW s \in States, s = StateAt(es, Len(es)), Restoring(es)
  PROVE  Restoring(Append(es, EntryFor(s, t, c)))
<1>1. LogP!Restoring(Append(es, LogP!EntryFor(s, t, c)))
  BY LogP!AppendedRestores, SameAlgebra, SameReplay, AbsentAssumption, JournalAssumption
<1> QED BY <1>1, SameAlgebra, SameReplay

LEMMA PrefixRestoring ==
  ASSUME NEW es \in Seq(Entry), NEW fs \in Seq(Entry), Len(fs) <= Len(es),
         \A i \in 1..Len(fs) : fs[i] = es[i], Restoring(es)
  PROVE  Restoring(fs)
<1>1. LogP!Restoring(fs)
  BY LogP!PrefixRestoring, SameAlgebra, SameReplay, AbsentAssumption, JournalAssumption
<1> QED BY <1>1, SameReplay

-----------------------------------------------------------------------------
(* What the invariant says of the log and of the file.                     *)

\* The modes, one by one.
LEMMA Modes ==
  ASSUME TypeOK
  PROVE  /\ Serving => Indexed
         /\ Indexed /\ ~Serving => mode = "rebuilding"
         /\ ~Indexed => mode \in {"closed", "scanning", "skewed", "refused"}
BY DEF TypeOK, Serving, Indexed

\* The queue of a rewind is DeltaLog's.
LEMMA LogFacts ==
  ASSUME IInv
  PROVE  /\ Kept \in Seq(Entry)
         /\ mode # "rewinding" => todo = <<>>
         /\ mode = "rewinding" => /\ todo # <<>> /\ Len(todo) \in Nat \ {0}
                                  /\ Head(todo).table \in Tables /\ Head(todo).change \in Change
                                  /\ Tail(todo) \in Seq([table: Tables, change: Change])
                                  /\ Len(Tail(todo)) = Len(todo) - 1
         /\ mode = "rebuilding" => target = None /\ pos <= Len(entries)
<1>1. LogP!Shape
  BY DEF IInv, LogP!IInv
<1>2. Kept \in Seq(Entry)
  BY DEF IInv, JInv, TypeOK, FileOK, Kept
<1>3. mode # "rewinding" => todo = <<>>
  BY <1>1 DEF LogP!Shape, Serving
<1>4. mode = "rewinding" => todo # <<>>
  BY <1>1 DEF LogP!Shape, Serving
<1>5. todo \in Seq([table: Tables, change: Change])
  BY DEF IInv, JInv, TypeOK
<1>6. todo # <<>> => /\ Len(todo) \in Nat \ {0} /\ Head(todo) \in [table: Tables, change: Change]
                     /\ Tail(todo) \in Seq([table: Tables, change: Change])
                     /\ Len(Tail(todo)) = Len(todo) - 1
  BY <1>5, EmptySeq, HeadTailProperties
<1>7. mode = "rebuilding" => target = None /\ pos <= Len(entries)
  BY <1>1 DEF LogP!Shape, Serving, Indexed, Kept, LogP!None, None
<1> QED BY <1>2, <1>3, <1>4, <1>6, <1>7

\* What was promised is in the file, whatever append is under way.
LEMMA PromiseInFile ==
  ASSUME IInv
  PROVE  IsPrefixOf(promised, RecordsIn(file))
<1>1. IsPrefixOf(promised, Kept)
  BY DEF IInv, JInv, PromiseOK
<1>2. CASE ~Indexed \/ pending = <<>>
  BY <1>1, <1>2 DEF IInv, JInv, FileOK, Kept
<1>3. CASE Indexed /\ pending # <<>>
  <2>1. entries \in Seq(Entry) /\ pending[1] \in Entry /\ promised \in Seq(Entry)
    BY <1>3 DEF IInv, JInv, TypeOK, PendingOK
  <2>2. /\ Len(Append(entries, pending[1])) = Len(entries) + 1
        /\ \A i \in 1..Len(entries) : Append(entries, pending[1])[i] = entries[i]
    BY <2>1, AppendProperties
  <2>3. Len(entries) \in Nat /\ Len(promised) \in Nat
    BY <2>1, LenProperties
  <2>4. Kept = entries
    BY <1>3 DEF Kept
  <2>5. IsPrefixOf(promised, Append(entries, pending[1]))
    BY <1>1, <2>2, <2>3, <2>4 DEF IsPrefixOf
  <2> QED BY <1>1, <1>3, <2>4, <2>5 DEF IInv, JInv, FileOK
<1> QED BY <1>2, <1>3

\* A scan stands at the beginning of the next record, or where the records end.
LEMMA ScanFacts ==
  ASSUME IInv, mode = "scanning"
  PROVE  /\ Len(entries) \in Nat /\ Len(RecordsIn(file)) \in Nat
         /\ Len(entries) <= Len(RecordsIn(file)) /\ offset = At(Len(entries))
         /\ Complete(file, offset) => /\ Len(entries) < Len(RecordsIn(file))
                                      /\ file[offset + 1].entry = RecordsIn(file)[Len(entries) + 1]
         /\ ~Complete(file, offset) => entries = RecordsIn(file)
         /\ ~Garbled(file, offset)
<1> DEFINE R == RecordsIn(file)
           n == Len(entries)
<1>1. /\ R \in Seq(Entry) /\ JournalOf(file, R) /\ entries \in Seq(Entry)
      /\ offset = At(n) /\ n <= Len(R) /\ \A i \in 1..n : entries[i] = R[i]
      /\ Len(file) \in Nat
  BY LenProperties DEF IInv, JInv, TypeOK, FileOK, HandleOK, IsPrefixOf
<1>2. n \in Nat /\ Len(R) \in Nat
  BY <1>1, LenProperties
<1>3. ASSUME n < Len(R) PROVE Complete(file, offset) /\ file[offset + 1].entry = R[n + 1]
  <2>1. PICK k \in 1..Len(R) : k - 1 = n /\ k = n + 1
    BY <1>2, <1>3
  <2> QED BY <1>1, <2>1 DEF JournalOf
<1>4. ASSUME n = Len(R) PROVE ~Complete(file, offset)
  <2>1. At(n) \in Nat /\ RecCells \in Nat
    BY <1>2, AtFacts
  <2>2. ~(offset + RecCells <= Len(file))
    BY <1>1, <1>4, <2>1 DEF JournalOf
  <2> QED BY <2>2 DEF Complete
<1>5. n = Len(R) => entries = R
  BY <1>1, SeqEqual
<1>6. ~Garbled(file, offset)
  BY <1>1, <1>2, <1>3, <1>4 DEF Garbled, JournalOf
<1> QED BY <1>1, <1>2, <1>3, <1>4, <1>5, <1>6

\* A handle that is dropped leaves a journal and a promise that holds of it.
LEMMA DroppedKeeps ==
  ASSUME IInv, NoHandle, UNCHANGED promised,
         mode' = "closed" \/ (mode' = "refused" /\ "skew" \in Faults),
         cursor' \in Nat, opens' \in 0..2, faults' \in 0..MaxFaults,
         file' \in Seq(Cell), synced' \in 0..Len(file'),
         RecordsIn(file)' \in Seq(Entry), JournalOf(file', RecordsIn(file)'),
         opens' = 0 \/ Len(file') = At(Len(RecordsIn(file)')),
         IsPrefixOf(promised, RecordsIn(file)'), At(Len(promised)) <= synced'
  PROVE  JInv'
<1> USE DEF NoHandle
<1>1. ~Indexed' /\ ~Serving'
  BY DEF Indexed, Serving
<1>2. TypeOK'
  <2>1. EmptyStates \in States /\ 0 \in 0..RecCells
    BY AtFacts DEF EmptyStates, States, Table
  <2> QED BY <2>1 DEF IInv, JInv, TypeOK, Cell
<1>3. FileOK'
  BY <1>1 DEF FileOK
<1>4. HandleOK'
  BY <1>1 DEF HandleOK
<1>5. OpensOK'
  BY <1>1 DEF OpensOK, Serving
<1>6. PendingOK'
  BY DEF PendingOK
<1>7. PromiseOK'
  BY <1>1 DEF PromiseOK, Kept
<1> QED BY <1>2, <1>3, <1>4, <1>5, <1>6, <1>7 DEF JInv

-----------------------------------------------------------------------------
(* Recovery.                                                               *)

LEMMA InitKeeps == Init => JInv
<1> SUFFICES ASSUME Init PROVE JInv
  OBVIOUS
<1> USE DEF Init
<1>1. /\ ~Indexed /\ ~Serving /\ file = <<>> /\ Len(file) = 0 /\ Len(entries) = 0
      /\ EmptyStates \in States /\ 0 \in 0..RecCells /\ 0 \in 0..MaxFaults
      /\ file \in Seq(Cell) /\ entries \in Seq(Entry)
  BY AtFacts, JournalAssumption DEF Indexed, Serving, EmptyStates, States, Table
<1>2. JournalOf(file, entries)
  <2>1. At(0) = 0 /\ RecCells \in Nat /\ RecCells >= 2
    BY AtFacts
  <2>2. /\ At(Len(entries)) <= Len(file) /\ Len(file) < At(Len(entries)) + RecCells
        /\ ~(At(Len(entries)) < Len(file)) /\ 1..Len(entries) = {}
    BY <1>1, <2>1
  <2> QED BY <2>2 DEF JournalOf
<1>3. RecordsIn(file) = entries
  BY <1>1, <1>2, RecordsUnique
<1>4. TypeOK
  <2>1. file \in Seq([entry: Entry, part: 1..RecCells] \cup {Hole}) /\ synced \in 0..Len(file)
    BY <1>1 DEF Cell
  <2>2. /\ mode = "closed" /\ promised \in Seq(Entry) /\ pending \in Seq(Entry) /\ Len(pending) <= 1
        /\ todo \in Seq([table: Tables, change: Change]) /\ target \in Nat \cup {None}
        /\ cursor \in Nat /\ offset \in Nat /\ pos \in Nat /\ opens \in 0..2
    BY DEF None
  <2> QED BY <1>1, <2>1, <2>2 DEF TypeOK
<1>5. FileOK
  <2>1. pending = <<>>
    OBVIOUS
  <2>2. RecordsIn(file) \in Seq(Entry) /\ JournalOf(file, RecordsIn(file))
    BY <1>1, <1>2, <1>3
  <2> QED BY <1>1, <2>1, <2>2 DEF FileOK
<1>6. HandleOK /\ OpensOK /\ PendingOK
  BY <1>1 DEF HandleOK, OpensOK, PendingOK
<1>7. PromiseOK
  <2>1. Len(promised) = 0 /\ At(0) = 0 /\ synced = 0
    BY AtFacts
  <2>2. Kept = <<>>
    BY <1>1, <1>3 DEF Kept
  <2> QED BY <2>1, <2>2 DEF PromiseOK, IsPrefixOf
<1> QED BY <1>4, <1>5, <1>6, <1>7 DEF JInv

\* load leaves the cursor at the end of the file.
LEMMA OpenKeeps ==
  ASSUME IInv, Open \/ OpenSkewed
  PROVE  JInv'
<1>1. /\ mode \in {"closed", "refused"}
      /\ mode' = "scanning" \/ (mode' = "skewed" /\ "skew" \in Faults)
      /\ cursor' = Len(file) /\ faults' \in 0..MaxFaults
      /\ UNCHANGED <<file, synced, opens, promised, scanVars, memVars>>
  <2>1. CASE Open
    <3>1. faults \in 0..MaxFaults
      BY DEF IInv, JInv, TypeOK
    <3> QED BY <2>1, <3>1 DEF Open, scanVars, memVars
  <2>2. CASE OpenSkewed
    <3>1. faults \in Nat /\ faults < MaxFaults /\ MaxFaults \in Nat
      BY <2>2, JournalAssumption DEF OpenSkewed, IInv, JInv, TypeOK
    <3>2. faults + 1 \in 0..MaxFaults
      BY <3>1
    <3> QED BY <2>2, <3>2 DEF OpenSkewed, scanVars, memVars
  <2> QED BY <2>1, <2>2
<1> USE DEF scanVars, memVars
<1>2. ~Indexed /\ ~Indexed' /\ ~Serving /\ ~Serving' /\ Kept' = Kept
  BY <1>1 DEF Indexed, Serving, Kept
<1>3. pending = <<>> /\ entries = <<>> /\ offset = 0
  BY <1>1, <1>2 DEF IInv, JInv, HandleOK
<1>4. TypeOK'
  <2>1. Len(file) \in Nat
    BY DEF IInv, JInv, TypeOK
  <2> QED BY <1>1, <2>1 DEF IInv, JInv, TypeOK
<1>5. FileOK'
  BY <1>1, <1>2, <1>3 DEF IInv, JInv, FileOK
<1>6. HandleOK'
  <2>1. RecordsIn(file) \in Seq(Entry)
    BY DEF IInv, JInv, FileOK
  <2>2. At(Len(entries)) = 0 /\ IsPrefixOf(entries, RecordsIn(file))
    BY <1>3, <2>1, AtFacts, LenProperties DEF IsPrefixOf
  <2> QED BY <1>1, <1>2, <1>3, <2>2 DEF IInv, JInv, HandleOK
<1>7. OpensOK'
  BY <1>1, <1>2 DEF IInv, JInv, OpensOK
<1>8. PendingOK'
  BY <1>1, <1>3 DEF PendingOK
<1>9. PromiseOK'
  BY <1>1, <1>2 DEF IInv, JInv, PromiseOK
<1> QED BY <1>4, <1>5, <1>6, <1>7, <1>8, <1>9 DEF JInv

LEMMA ScanRecordKeeps ==
  ASSUME IInv, ScanRecord
  PROVE  JInv'
<1> DEFINE e == file[offset + 1].entry
           R == RecordsIn(file)
           n == Len(entries)
<1>1. /\ mode = "scanning" /\ Complete(file, offset) /\ entries' = Append(entries, e)
      /\ offset' = offset + RecCells
      /\ UNCHANGED <<file, cursor, synced, mode, pos, states, pending, written, todo, target,
                     opens, promised, faults>>
  BY DEF ScanRecord, fileVars
<1>2. n < Len(R) /\ e = R[n + 1] /\ n \in Nat /\ Len(R) \in Nat /\ offset = At(n)
  BY <1>1, ScanFacts
<1>3. R \in Seq(Entry) /\ e \in Entry /\ entries \in Seq(Entry)
  <2>1. R \in Seq(Entry)
    BY DEF IInv, JInv, FileOK
  <2>2. n + 1 \in 1..Len(R)
    BY <1>2
  <2> QED BY <1>2, <2>1, <2>2, ElementOfSeq DEF IInv, JInv, TypeOK
<1> HIDE DEF e
<1>4. /\ entries' \in Seq(Entry) /\ Len(entries') = n + 1 /\ entries'[n + 1] = e
      /\ \A i \in 1..n : entries'[i] = entries[i]
  BY <1>1, <1>3, AppendProperties
<1>5. ~Indexed /\ ~Indexed' /\ ~Serving /\ ~Serving' /\ Kept' = Kept /\ pending = <<>>
  BY <1>1 DEF Indexed, Serving, Kept, IInv, JInv, HandleOK
<1>6. offset' = At(n + 1) /\ offset' \in Nat
  BY <1>1, <1>2, AtFacts
<1>7. TypeOK'
  BY <1>1, <1>4, <1>6 DEF IInv, JInv, TypeOK
<1>8. FileOK'
  BY <1>1, <1>5 DEF IInv, JInv, FileOK
<1>9. HandleOK'
  <2>1. IsPrefixOf(entries, R)
    BY <1>1 DEF IInv, JInv, HandleOK
  <2>2. IsPrefixOf(entries', R)
    BY <1>2, <1>4, <2>1 DEF IsPrefixOf
  <2> QED BY <1>1, <1>4, <1>5, <1>6, <2>2 DEF IInv, JInv, HandleOK
<1>10. OpensOK'
  BY <1>1, <1>5 DEF IInv, JInv, OpensOK
<1>11. PendingOK'
  BY <1>1, <1>5 DEF PendingOK
<1>12. PromiseOK'
  BY <1>1, <1>5 DEF IInv, JInv, PromiseOK
<1> QED BY <1>7, <1>8, <1>9, <1>10, <1>11, <1>12 DEF JInv

\* What cutting the file behind the last record leaves.
LEMMA CutFacts ==
  ASSUME IInv, mode = "scanning", offset < Len(file), ~Complete(file, offset)
  PROVE  /\ SubSeq(file, 1, offset) \in Seq(Cell) /\ Len(SubSeq(file, 1, offset)) = offset
         /\ entries = RecordsIn(file) /\ offset = At(Len(entries)) /\ offset \in Nat
         /\ JournalOf(SubSeq(file, 1, offset), entries)
         /\ RecordsIn(SubSeq(file, 1, offset)) = entries
         /\ opens = 0
<1> DEFINE g == SubSeq(file, 1, offset)
<1>1. entries = RecordsIn(file) /\ offset = At(Len(entries)) /\ Len(entries) \in Nat
  BY ScanFacts
<1>2. /\ file \in Seq(Cell) /\ entries \in Seq(Entry) /\ JournalOf(file, entries)
      /\ offset \in Nat /\ Len(file) \in Nat
  BY <1>1, LenProperties DEF IInv, JInv, TypeOK, FileOK, Cell
<1>3. offset \in 0..Len(file)
  BY <1>2
<1>4. PICK m \in 0..Len(entries) :
         /\ g \in Seq(Cell) /\ Len(g) = offset
         /\ SubSeq(entries, 1, m) \in Seq(Entry) /\ JournalOf(g, SubSeq(entries, 1, m))
         /\ At(m) <= offset /\ offset < At(m) + RecCells
  BY <1>2, <1>3, PrefixJournal
<1>5. m = Len(entries)
  <2>1. m \in Nat /\ m <= Len(entries)
    BY <1>1, <1>4
  <2>2. At(m) \in Nat /\ RecCells \in Nat
    BY <2>1, AtFacts
  <2>3. m < Len(entries) => At(m) + RecCells <= At(Len(entries))
    BY <1>1, <2>1, AtFacts
  <2> QED BY <1>1, <1>2, <1>4, <2>1, <2>2, <2>3
<1>6. JournalOf(g, entries)
  BY <1>2, <1>4, <1>5, SubSeqFull
<1>7. RecordsIn(g) = entries
  BY <1>2, <1>4, <1>6, RecordsUnique
<1>8. opens = 0
  <2>1. pending = <<>>
    BY DEF IInv, JInv, HandleOK, Serving
  <2> QED BY <1>1, <1>2, <2>1 DEF IInv, JInv, OpensOK, TypeOK
<1> QED BY <1>1, <1>2, <1>4, <1>6, <1>7, <1>8

\* The scan is over: the index is what the file says.
LEMMA ScanEndKeeps ==
  ASSUME IInv, ScanEnd \/ ScanTorn
  PROVE  JInv' /\ Kept' = Kept
<1>1. /\ mode = "scanning" /\ mode' = "rebuilding"
      /\ UNCHANGED <<cursor, scanVars, memVars, opens, promised, faults>>
  BY DEF ScanEnd, ScanTorn, fileVars
<1>2. /\ entries = RecordsIn(file) /\ entries \in Seq(Entry) /\ Len(entries) \in Nat
      /\ file' \in Seq(Cell) /\ synced' \in 0..Len(file')
      /\ JournalOf(file', entries) /\ RecordsIn(file') = entries
      /\ Len(file') = At(Len(entries)) /\ At(Len(promised)) <= synced'
      /\ opens >= 1 => cursor = Len(file')
  <2>1. entries \in Seq(Entry) /\ Len(entries) \in Nat /\ Len(file) \in Nat /\ synced \in 0..Len(file)
    BY LenProperties DEF IInv, JInv, TypeOK
  <2>2. CASE ScanEnd
    <3>1. ~Complete(file, offset)
      BY <2>1, <2>2, AtFacts DEF ScanEnd, Complete
    <3>2. entries = RecordsIn(file) /\ offset = At(Len(entries))
      BY <1>1, <3>1, ScanFacts
    <3>3. UNCHANGED <<file, synced>> /\ Len(file) = offset
      BY <2>2 DEF ScanEnd, fileVars
    <3>4. At(Len(promised)) <= synced /\ JournalOf(file, entries) /\ file \in Seq(Cell)
      BY <3>2 DEF IInv, JInv, PromiseOK, FileOK, TypeOK, Cell
    <3>5. opens >= 1 => cursor = Len(file)
      BY <1>1 DEF IInv, JInv, OpensOK
    <3> QED BY <2>1, <3>2, <3>3, <3>4, <3>5
  <2>3. CASE ScanTorn
    <3>1. offset < Len(file) /\ ~Complete(file, offset)
      <4>1. Len(file) < offset + RecCells => ~(offset + RecCells <= Len(file))
        BY <2>1, AtFacts DEF IInv, JInv, TypeOK
      <4> QED BY <2>3, <4>1 DEF ScanTorn, Clipped, Garbled, Complete
    <3>2. file' = SubSeq(file, 1, offset) /\ synced' = offset
      BY <2>3 DEF ScanTorn
    <3>3. /\ file' \in Seq(Cell) /\ Len(file') = offset /\ entries = RecordsIn(file)
          /\ offset = At(Len(entries)) /\ offset \in Nat /\ JournalOf(file', entries)
          /\ RecordsIn(file') = entries /\ opens = 0
      BY <1>1, <3>1, <3>2, CutFacts
    <3>4. At(Len(promised)) <= offset
      <4>1. IsPrefixOf(promised, entries) /\ promised \in Seq(Entry)
        BY <3>3, PromiseInFile DEF IInv, JInv, TypeOK
      <4>2. Len(promised) \in Nat /\ Len(promised) <= Len(entries)
        BY <4>1, LenProperties DEF IsPrefixOf
      <4> QED BY <2>1, <3>3, <4>2, AtFacts
    <3>5. offset \in 0..offset
      BY <3>3
    <3> QED BY <2>1, <3>2, <3>3, <3>4, <3>5
  <2> QED BY <2>2, <2>3
<1> USE DEF scanVars, memVars
<1>3. ~Indexed /\ Indexed' /\ ~Serving /\ ~Serving' /\ pending = <<>>
  BY <1>1 DEF Indexed, Serving, IInv, JInv, HandleOK
<1>4. TypeOK'
  BY <1>1, <1>2 DEF IInv, JInv, TypeOK, Cell
<1>5. FileOK'
  BY <1>1, <1>2, <1>3 DEF FileOK
<1>6. HandleOK'
  BY <1>1, <1>3 DEF IInv, JInv, HandleOK
<1>7. OpensOK'
  BY <1>1, <1>2, <1>3 DEF OpensOK
<1>8. PendingOK'
  BY <1>1, <1>3 DEF PendingOK
<1>9. Kept' = entries /\ Kept' = Kept
  BY <1>1, <1>2, <1>3 DEF Kept
<1>10. PromiseOK'
  BY <1>1, <1>2, <1>9, PromiseInFile DEF PromiseOK
<1> QED BY <1>4, <1>5, <1>6, <1>7, <1>8, <1>9, <1>10 DEF JInv

\* Only a program of other schemas is refused.
LEMMA ScanInvalidKeeps ==
  ASSUME IInv, ScanInvalid
  PROVE  JInv' /\ mode = "skewed"
<1>1. mode = "skewed"
  BY ScanFacts DEF ScanInvalid, Invalid
<1>2. ~Indexed /\ ~Serving /\ "skew" \in Faults /\ pending = <<>>
  BY <1>1 DEF IInv, JInv, HandleOK, Indexed, Serving
<1>3. /\ mode' = "refused" /\ NoHandle /\ UNCHANGED <<file, cursor, synced, opens, promised, faults>>
  BY DEF ScanInvalid, fileVars
<1>4. /\ file \in Seq(Cell) /\ synced \in 0..Len(file) /\ cursor \in Nat /\ opens \in 0..2
      /\ faults \in 0..MaxFaults
  BY DEF IInv, JInv, TypeOK, Cell
<1>5. opens = 0 \/ Len(file) = At(Len(RecordsIn(file)))
  BY <1>2, <1>4 DEF IInv, JInv, OpensOK
<1>6. /\ RecordsIn(file) \in Seq(Entry) /\ JournalOf(file, RecordsIn(file))
      /\ At(Len(promised)) <= synced
  BY DEF IInv, JInv, FileOK, PromiseOK
<1>7. JInv'
  BY <1>2, <1>3, <1>4, <1>5, <1>6, PromiseInFile, DroppedKeeps
<1> QED BY <1>1, <1>7

LEMMA RebuildKeeps ==
  ASSUME IInv, RebuildStep \/ Opened
  PROVE  JInv'
<1>1. /\ mode = "rebuilding" /\ pending = <<>> /\ written = 0 /\ todo = <<>>
      /\ entries \in Seq(Entry) /\ pos \in Nat
      /\ UNCHANGED <<file, cursor, synced, offset, entries, pending, written, todo, target,
                     promised, faults>>
  BY LogFacts DEF RebuildStep, Opened, fileVars, memVars, scanVars, IInv, JInv, TypeOK, HandleOK, Serving
<1>2. /\ Indexed /\ ~Serving /\ Indexed' /\ Kept' = Kept
      /\ \/ mode' = "rebuilding" /\ opens' = opens /\ ~Serving'
         \/ mode' = "ready" /\ opens' = (IF opens = 2 THEN 2 ELSE opens + 1)
      /\ states' \in States /\ pos' \in Nat
  <2>1. CASE RebuildStep
    <3>1. pos + 1 \in 1..Len(entries)
      BY <1>1, <2>1 DEF RebuildStep
    <3>2. entries[pos + 1] \in Entry
      BY <1>1, <3>1, ElementOfSeq
    <3>3. states' \in States
      BY <2>1, <3>2, PatchType DEF RebuildStep, Entry, IInv, JInv, TypeOK
    <3>4. pos' \in Nat /\ UNCHANGED <<mode, opens>>
      BY <1>1, <2>1 DEF RebuildStep
    <3>5. mode' = "rebuilding" /\ opens' = opens /\ entries' = entries
      BY <1>1, <3>4
    <3>6. Indexed /\ Indexed' /\ ~Serving /\ ~Serving'
      BY <1>1, <3>5 DEF Indexed, Serving
    <3>7. Kept' = Kept
      BY <3>5, <3>6 DEF Kept
    <3> QED BY <3>3, <3>4, <3>5, <3>6, <3>7
  <2>2. CASE Opened
    <3>1. states \in States /\ mode' = "ready"
      BY <2>2 DEF Opened, IInv, JInv, TypeOK
    <3> QED BY <1>1, <2>2, <3>1 DEF Opened, scanVars, memVars, Indexed, Serving, Kept
  <2> QED BY <2>1, <2>2
<1>3. RecordsIn(file) = entries /\ Len(file) = At(Len(entries)) /\ opens \in 0..2
  BY <1>1, <1>2 DEF IInv, JInv, FileOK, TypeOK
<1>4. opens' \in 0..2 /\ (opens' = 2 => opens >= 1) /\ (mode' = "ready" => opens' >= 1)
  BY <1>2, <1>3
<1>5. TypeOK'
  BY <1>1, <1>2, <1>4 DEF IInv, JInv, TypeOK
<1>6. FileOK'
  BY <1>1, <1>2, <1>3 DEF IInv, JInv, FileOK
<1>7. HandleOK'
  BY <1>1, <1>2 DEF HandleOK
<1>8. OpensOK'
  BY <1>1, <1>2, <1>3, <1>4 DEF IInv, JInv, OpensOK, Serving
<1>9. PendingOK'
  BY <1>1, <1>2 DEF PendingOK
<1>10. PromiseOK'
  BY <1>1, <1>2 DEF IInv, JInv, PromiseOK
<1> QED BY <1>5, <1>6, <1>7, <1>8, <1>9, <1>10 DEF JInv

-----------------------------------------------------------------------------
(* Handles that are dropped, and the environment.                          *)

\* What a dropped handle leaves behind, when the file is left alone.
LEMMA DropFacts ==
  ASSUME IInv
  PROVE  /\ file \in Seq(Cell) /\ Len(file) \in Nat /\ cursor \in Nat /\ synced \in 0..Len(file)
         /\ RecordsIn(file) \in Seq(Entry) /\ JournalOf(file, RecordsIn(file))
         /\ Len(promised) \in Nat /\ IsPrefixOf(promised, RecordsIn(file))
         /\ At(Len(promised)) <= synced
         /\ opens \in 0..2 /\ faults \in 0..MaxFaults
BY PromiseInFile, LenProperties DEF IInv, JInv, TypeOK, FileOK, PromiseOK, Cell

\* One fault more is still within the bound.
LEMMA FaultFacts ==
  ASSUME IInv, faults < MaxFaults
  PROVE  faults + 1 \in 0..MaxFaults
BY JournalAssumption DEF IInv, JInv, TypeOK

LEMMA CloseKeeps ==
  ASSUME IInv, Close
  PROVE  JInv'
<1>1. /\ mode = "ready" /\ pending = <<>> /\ mode' = "closed" /\ NoHandle
      /\ UNCHANGED <<file, cursor, synced, opens, promised, faults>>
  BY DEF Close, fileVars
<1>2. Serving
  BY <1>1 DEF Serving
<1>3. Len(file) = At(Len(RecordsIn(file)))
  BY <1>1, <1>2 DEF IInv, JInv, OpensOK
<1> QED BY <1>1, <1>3, DropFacts, DroppedKeeps

LEMMA CrashKeeps ==
  ASSUME IInv, Crash
  PROVE  JInv'
<1>1. /\ mode' = "closed" /\ NoHandle /\ opens' = 0 /\ faults' = faults + 1 /\ faults < MaxFaults
      /\ UNCHANGED <<file, cursor, synced, promised>>
  BY DEF Crash, Dies
<1> QED BY <1>1, FaultFacts, DropFacts, DroppedKeeps

\* A careful owner drops the handle whose append failed.
LEMMA AppendFailsKeeps ==
  ASSUME IInv, Careful, AppendFails
  PROVE  JInv'
<1>1. /\ mode' = "closed" /\ NoHandle /\ opens' = 0 /\ faults' = faults + 1 /\ faults < MaxFaults
      /\ UNCHANGED <<file, cursor, synced, promised>>
  BY DEF AppendFails, fileVars
<1> QED BY <1>1, FaultFacts, DropFacts, DroppedKeeps

LEMMA TruncateFailsKeeps ==
  ASSUME IInv, TruncateFails
  PROVE  JInv' /\ RecordsIn(file)' = RecordsIn(file)
<1>1. /\ mode = "scanning"
      /\ Clipped(file, offset) \/ Garbled(file, offset)
      /\ mode' = "closed" /\ NoHandle /\ opens' = 0 /\ faults' = faults + 1 /\ faults < MaxFaults
      /\ UNCHANGED <<cursor, promised>>
      /\ \/ UNCHANGED <<file, synced>>
         \/ /\ file' = SubSeq(file, 1, offset)
            /\ synced' = IF synced < offset THEN synced ELSE offset
  BY DEF TruncateFails
<1>2. CASE UNCHANGED <<file, synced>>
  BY <1>1, <1>2, FaultFacts, DropFacts, DroppedKeeps
<1>3. CASE /\ file' = SubSeq(file, 1, offset)
           /\ synced' = IF synced < offset THEN synced ELSE offset
  <2>1. offset < Len(file) /\ ~Complete(file, offset)
    <3>1. offset \in Nat /\ Len(file) \in Nat
      BY DropFacts DEF IInv, JInv, TypeOK
    <3>2. Len(file) < offset + RecCells => ~(offset + RecCells <= Len(file))
      BY <3>1, AtFacts
    <3> QED BY <1>1, <3>2 DEF Clipped, Garbled, Complete
  <2>2. /\ file' \in Seq(Cell) /\ Len(file') = offset /\ entries = RecordsIn(file)
        /\ offset = At(Len(entries)) /\ offset \in Nat /\ JournalOf(file', entries)
        /\ RecordsIn(file') = entries
    <3>1. file' = SubSeq(file, 1, offset)
      BY <1>3
    <3> QED BY <1>1, <2>1, <3>1, CutFacts
  <2>3. synced \in Nat /\ synced' \in 0..Len(file') /\ (synced' = synced \/ synced' = offset)
    BY <1>3, <2>2, DropFacts
  <2>4. At(Len(promised)) <= synced'
    <3>1. Len(promised) <= Len(entries) /\ Len(entries) \in Nat /\ Len(promised) \in Nat
      BY <2>2, DropFacts, LenProperties DEF IsPrefixOf
    <3>2. At(Len(promised)) <= At(Len(entries))
      BY <3>1, AtFacts
    <3> QED BY <2>2, <2>3, <3>2, DropFacts
  <2>5. /\ RecordsIn(file)' \in Seq(Entry) /\ JournalOf(file', RecordsIn(file)')
        /\ IsPrefixOf(promised, RecordsIn(file)')
    BY <2>2, DropFacts
  <2>6. JInv'
    BY <1>1, <2>2, <2>3, <2>4, <2>5, FaultFacts, DropFacts, DroppedKeeps
  <2> QED BY <2>2, <2>6
<1> QED BY <1>1, <1>2, <1>3

\* Of the records, a loss of power leaves a prefix, and no promised one is lost.
LEMMA LostFacts ==
  ASSUME IInv, NEW n \in synced..Len(file)
  PROVE  /\ SubSeq(file, 1, n) \in Seq(Cell) /\ Len(SubSeq(file, 1, n)) = n /\ n \in Nat
         /\ RecordsIn(SubSeq(file, 1, n)) \in Seq(Entry)
         /\ JournalOf(SubSeq(file, 1, n), RecordsIn(SubSeq(file, 1, n)))
         /\ IsPrefixOf(RecordsIn(SubSeq(file, 1, n)), RecordsIn(file))
         /\ IsPrefixOf(promised, RecordsIn(SubSeq(file, 1, n)))
<1> DEFINE R == RecordsIn(file)
           g == SubSeq(file, 1, n)
<1>1. /\ file \in Seq(Cell) /\ R \in Seq(Entry) /\ JournalOf(file, R) /\ Len(file) \in Nat
      /\ synced \in Nat /\ synced <= Len(file) /\ Len(promised) \in Nat
      /\ IsPrefixOf(promised, R) /\ At(Len(promised)) <= synced
  BY DropFacts
<1>2. n \in 0..Len(file) /\ n \in Nat /\ synced <= n
  BY <1>1
<1>3. PICK m \in 0..Len(R) :
        /\ SubSeq(R, 1, m) \in Seq(Entry) /\ Len(SubSeq(R, 1, m)) = m
        /\ \A i \in 1..m : SubSeq(R, 1, m)[i] = R[i]
        /\ JournalOf(g, SubSeq(R, 1, m))
        /\ At(m) <= n /\ n < At(m) + RecCells
  BY <1>1, <1>2, PrefixJournal
<1>4. g \in Seq(Cell) /\ Len(g) = n
  BY <1>1, <1>2, PrefixJournal
<1>5. RecordsIn(g) = SubSeq(R, 1, m)
  BY <1>3, <1>4, RecordsUnique
<1>6. m \in Nat /\ m <= Len(R) /\ Len(R) \in Nat
  BY <1>1, <1>3, LenProperties
<1>7. Len(promised) <= m
  <2>1. m < Len(promised) => At(m) + RecCells <= At(Len(promised))
    BY <1>1, <1>6, AtFacts
  <2>2. At(m) \in Nat /\ RecCells \in Nat /\ At(Len(promised)) \in Nat
    BY <1>1, <1>6, AtFacts
  <2> QED BY <1>1, <1>2, <1>3, <1>6, <2>1, <2>2
<1>8. IsPrefixOf(SubSeq(R, 1, m), R)
  BY <1>3, <1>6 DEF IsPrefixOf
<1>9. IsPrefixOf(promised, SubSeq(R, 1, m))
  BY <1>1, <1>3, <1>6, <1>7 DEF IsPrefixOf
<1> QED BY <1>2, <1>3, <1>4, <1>5, <1>8, <1>9

LEMMA PowerLossKeeps ==
  ASSUME IInv, PowerLoss
  PROVE  JInv' /\ IsPrefixOf(RecordsIn(file)', RecordsIn(file))
<1>1. /\ mode' = "closed" /\ NoHandle /\ opens' = 0 /\ faults' = faults + 1 /\ faults < MaxFaults
      /\ UNCHANGED <<cursor, promised>>
  BY DEF PowerLoss, Dies
<1>2. PICK n \in synced..Len(file) : file' = SubSeq(file, 1, n) /\ synced' = n
  BY DEF PowerLoss
<1>3. /\ file' \in Seq(Cell) /\ synced' \in 0..Len(file') /\ At(Len(promised)) <= synced'
      /\ RecordsIn(file)' \in Seq(Entry) /\ JournalOf(file', RecordsIn(file)')
      /\ IsPrefixOf(RecordsIn(file)', RecordsIn(file)) /\ IsPrefixOf(promised, RecordsIn(file)')
  <2>1. synced \in Nat /\ synced <= n /\ At(Len(promised)) \in Nat
    BY DropFacts, AtFacts
  <2> QED BY <1>2, <2>1, LostFacts, DropFacts
<1> QED BY <1>1, <1>3, FaultFacts, DropFacts, DroppedKeeps

-----------------------------------------------------------------------------
(* append and rewind_to.                                                   *)

\* The append of change c to table t begins, for the owner or for a rewind.
LEMMA StartKeeps ==
  ASSUME IInv, NEW t \in Tables, NEW c \in Change, Serving, pending = <<>>, opens = 2,
         Len(entries) < MaxEntries,
         mode = "rewinding" => t = Head(todo).table /\ c = Head(todo).change,
         pending' = <<EntryFor(states, t, c)>>,
         UNCHANGED <<fileVars, scanVars, mode, entries, states, written, todo, target,
                     opens, promised, faults>>
  PROVE  JInv'
<1> DEFINE e == EntryFor(states, t, c)
<1>1. e \in Entry /\ e.table = t /\ e.change = c
  BY EntryForCorrect DEF IInv, JInv, TypeOK
<1>2. EntryFor(states, e.table, e.change) = e
  BY <1>1
<1> HIDE DEF e
<1>3. pending' = <<e>> /\ pending'[1] = e /\ pending' # <<>> /\ pending' \in Seq(Entry) /\ Len(pending') = 1
  BY <1>1 DEF e
<1>4. /\ UNCHANGED <<file, cursor, synced, offset, pos, mode, entries, states, written, todo, target,
                     opens, promised, faults>>
      /\ Serving' /\ Indexed' /\ Kept' = Kept /\ Indexed
  BY DEF fileVars, scanVars, Serving, Indexed, Kept
<1>5. written = 0 /\ cursor = Len(file) /\ RecordsIn(file) = entries /\ Len(file) = At(Len(entries))
      /\ Len(file) \in Nat
  BY <1>4, DropFacts DEF IInv, JInv, FileOK, HandleOK, OpensOK
<1>6. TypeOK'
  BY <1>3, <1>4 DEF IInv, JInv, TypeOK
<1>7. FileOK'
  <2>1. Len(file) = At(Len(entries)) + written /\ written < RecCells /\ 1..written = {}
    BY <1>5, AtFacts
  <2>2. RecordsIn(file)' \in Seq(Entry) /\ JournalOf(file, RecordsIn(file))'
    BY <1>4, DropFacts
  <2> QED BY <1>3, <1>4, <1>5, <2>1, <2>2 DEF FileOK
<1>8. HandleOK'
  BY <1>3, <1>4 DEF HandleOK, Serving
<1>9. OpensOK'
  BY <1>3, <1>4, <1>5 DEF OpensOK, Serving
<1>10. PendingOK'
  BY <1>1, <1>2, <1>3, <1>4 DEF IInv, JInv, PendingOK
<1>11. PromiseOK'
  BY <1>4 DEF IInv, JInv, PromiseOK
<1> QED BY <1>6, <1>7, <1>8, <1>9, <1>10, <1>11 DEF JInv

LEMMA StartAppendKeeps ==
  ASSUME IInv, Careful, NEW t \in Tables, NEW c \in Change, StartAppend(t, c)
  PROVE  JInv'
<1>1. /\ mode = "ready" /\ MayAppend(1) /\ pending' = <<EntryFor(states, t, c)>>
      /\ UNCHANGED <<fileVars, scanVars, mode, entries, states, written, todo, target,
                     opens, promised, faults>>
  BY DEF StartAppend
<1>2. pending = <<>> /\ opens = 2 /\ Len(entries) + 1 <= MaxEntries /\ Len(entries) \in Nat
  BY <1>1, LenProperties DEF MayAppend, IInv, JInv, TypeOK
<1>3. Len(entries) < MaxEntries /\ Serving /\ mode # "rewinding"
  BY <1>1, <1>2, JournalAssumption DEF Serving
<1> QED BY <1>1, <1>2, <1>3, StartKeeps

LEMMA StartCompensationKeeps ==
  ASSUME IInv, StartCompensation
  PROVE  JInv'
<1>1. /\ mode = "rewinding" /\ pending = <<>>
      /\ pending' = <<EntryFor(states, Head(todo).table, Head(todo).change)>>
      /\ UNCHANGED <<fileVars, scanVars, mode, entries, states, written, todo, target,
                     opens, promised, faults>>
  BY DEF StartCompensation
<1>2. opens = 2 /\ Len(entries) + Len(todo) <= MaxEntries /\ Len(entries) \in Nat
  BY <1>1, LenProperties DEF IInv, JInv, TypeOK, PendingOK
<1>3. Len(todo) \in Nat \ {0} /\ Head(todo).table \in Tables /\ Head(todo).change \in Change
  BY <1>1, LogFacts
<1>4. Len(entries) < MaxEntries /\ Serving
  BY <1>1, <1>2, <1>3, JournalAssumption DEF Serving
<1> QED BY <1>1, <1>2, <1>3, <1>4, StartKeeps

\* A rewind begins: its compensations fit, and are changes to tables.
LEMMA RewindToKeeps ==
  ASSUME IInv, Careful, NEW seq \in Nat, RewindTo(seq)
  PROVE  JInv'
<1> DEFINE start == IF seq < Len(entries) THEN seq ELSE Len(entries)
           n == Len(entries) - start
<1>1. /\ mode = "ready" /\ MayAppend(n) /\ todo' = LogP!Compensations(entries, start)
      /\ target' = start /\ mode' = (IF n = 0 THEN "ready" ELSE "rewinding")
      /\ UNCHANGED <<file, cursor, synced, offset, pos, entries, states, pending, written,
                     opens, promised, faults>>
  BY DEF RewindTo, LogP!Compensations, fileVars, scanVars
<1>2. entries \in Seq(Entry) /\ Len(entries) \in Nat /\ start \in 0..Len(entries) /\ n \in Nat
  BY LenProperties DEF IInv, JInv, TypeOK
<1>3. todo' \in Seq([table: Tables, change: Change]) /\ Len(todo') = n
  <2>1. LogP!Entry = Entry /\ LogP!Change = Change
    BY DEF Entry, Change, LogP!Entry, LogP!Change
  <2>2. /\ LogP!Compensations(entries, start) \in Seq([table: Tables, change: LogP!Change])
        /\ Len(LogP!Compensations(entries, start)) = n
    BY <1>2, <2>1, LogP!CompensationsAre, JournalAssumption, AbsentAssumption
  <2> QED BY <1>1, <2>1, <2>2
<1>4. target' \in Nat
  BY <1>1, <1>2
<1> HIDE DEF start, n
<1>5. /\ pending = <<>> /\ opens = 2 /\ Len(entries) + n <= MaxEntries
  BY <1>1 DEF MayAppend
<1>6. Serving /\ Serving' /\ Indexed /\ Indexed' /\ Kept' = Kept
  BY <1>1 DEF Serving, Indexed, Kept
<1>7. TypeOK'
  BY <1>1, <1>3, <1>4 DEF IInv, JInv, TypeOK
<1>8. FileOK'
  BY <1>1, <1>5, <1>6 DEF IInv, JInv, FileOK
<1>9. HandleOK'
  BY <1>1, <1>5, <1>6 DEF IInv, JInv, HandleOK
<1>10. OpensOK'
  BY <1>1, <1>5, <1>6 DEF IInv, JInv, OpensOK
<1>11. PendingOK'
  BY <1>1, <1>3, <1>5 DEF PendingOK
<1>12. PromiseOK'
  BY <1>1, <1>6 DEF IInv, JInv, PromiseOK
<1> QED BY <1>7, <1>8, <1>9, <1>10, <1>11, <1>12 DEF JInv

\* What is known while an append runs.
LEMMA RunningFacts ==
  ASSUME IInv, pending # <<>>
  PROVE  /\ Serving /\ Indexed /\ mode \in {"ready", "rewinding"} /\ Kept = entries
         /\ entries \in Seq(Entry) /\ Len(entries) \in Nat /\ Len(entries) < MaxEntries
         /\ pending[1] \in Entry /\ pending[1].table \in Tables /\ pending[1].change \in Change
         /\ pending[1] = EntryFor(states, pending[1].table, pending[1].change)
         /\ cursor = Len(file) /\ Len(file) = At(Len(entries)) + written
         /\ written \in 0..RecCells /\ opens = 2
<1>1. Serving
  BY DEF IInv, JInv, HandleOK
<1>2. pending[1] \in Entry
  BY DEF IInv, JInv, PendingOK
<1> QED BY <1>1, <1>2, LenProperties DEF Serving, Indexed, Kept, IInv, JInv, TypeOK, FileOK, PendingOK, Entry

LEMMA WriteCellKeeps ==
  ASSUME IInv, WriteCell
  PROVE  /\ JInv'
         /\ UNCHANGED <<mode, pos, entries, states, pending, todo, target>> /\ Kept' = Kept
<1> DEFINE e == pending[1]
<1>1. /\ pending # <<>> /\ written < RecCells /\ cursor' = cursor + 1 /\ written' = written + 1
      /\ file' = [i \in 1..(cursor + 1) |->
                    IF i = cursor + 1 THEN RecordCell(e, written + 1)
                    ELSE IF i <= Len(file) THEN file[i] ELSE Hole]
      /\ UNCHANGED <<synced, mode, offset, pos, entries, states, pending, todo, target,
                     opens, promised, faults>>
  BY DEF WriteCell, scanVars
<1>2. /\ Serving /\ Indexed /\ mode \in {"ready", "rewinding"} /\ Kept = entries
      /\ entries \in Seq(Entry) /\ Len(entries) \in Nat
      /\ e \in Entry /\ cursor = Len(file) /\ Len(file) = At(Len(entries)) + written
      /\ written \in 0..RecCells /\ opens = 2
  BY <1>1, RunningFacts
<1>3. file' = [i \in 1..(Len(file) + 1) |->
                 IF i = Len(file) + 1 THEN RecordCell(e, written + 1) ELSE file[i]]
  <2>1. Len(file) \in Nat
    BY DropFacts
  <2> QED BY <1>1, <1>2, <2>1
<1>4. /\ file \in Seq(Cell) /\ Len(file) \in Nat /\ written \in Nat
      /\ JournalOf(file, entries)
      /\ \A p \in 1..written : file[At(Len(entries)) + p] = RecordCell(e, p)
  <2>1. RecordsIn(file) = entries
    BY <1>1 DEF IInv, JInv, FileOK
  <2> QED BY <1>1, <1>2, <2>1, DropFacts DEF IInv, JInv, FileOK
<1> HIDE DEF e
<1>5. /\ file' \in Seq(Cell) /\ Len(file') = Len(file) + 1
      /\ \A p \in 1..(written + 1) : file'[At(Len(entries)) + p] = RecordCell(e, p)
      /\ written + 1 < RecCells => JournalOf(file', entries)
      /\ written + 1 = RecCells => JournalOf(file', Append(entries, e))
  BY <1>1, <1>2, <1>3, <1>4, OneCellMore
<1>6. RecCells \in Nat /\ written' \in 0..RecCells /\ (written' < RecCells \/ written' = RecCells)
  BY <1>1, <1>2, AtFacts
<1>7. RecordsIn(file') = IF written' < RecCells THEN entries ELSE Append(entries, e)
  <2>1. CASE written' < RecCells
    BY <1>1, <1>2, <1>5, <2>1, RecordsUnique
  <2>2. CASE written' = RecCells
    <3>1. Append(entries, e) \in Seq(Entry)
      BY <1>2, AppendProperties
    <3>2. RecordsIn(file') = Append(entries, e)
      BY <1>1, <1>5, <2>2, <3>1, RecordsUnique
    <3> QED BY <1>6, <2>2, <3>2
  <2> QED BY <1>6, <2>1, <2>2
<1>8. RecordsIn(file)' \in Seq(Entry) /\ JournalOf(file', RecordsIn(file)')
  <2>1. Append(entries, e) \in Seq(Entry)
    BY <1>2, AppendProperties
  <2> QED BY <1>1, <1>2, <1>5, <1>6, <1>7, <2>1
<1>9. Serving' /\ Indexed' /\ Kept' = Kept /\ pending' # <<>> /\ pending'[1] = e
  BY <1>1, <1>2 DEF Serving, Indexed, Kept, e
<1>10. TypeOK'
  <2>1. synced' \in 0..Len(file') /\ cursor' \in Nat
    BY <1>1, <1>2, <1>4, <1>5, DropFacts
  <2> QED BY <1>1, <1>5, <1>6, <2>1 DEF IInv, JInv, TypeOK, Cell
<1>11. FileOK'
  <2>1. cursor' = Len(file') /\ Len(file') = At(Len(entries)) + written'
    <3>1. At(Len(entries)) \in Nat
      BY <1>2, AtFacts
    <3> QED BY <1>1, <1>2, <1>4, <1>5, <3>1
  <2>2. \A p \in 1..written' : file'[At(Len(entries')) + p] = RecordCell(pending'[1], p)
    BY <1>1, <1>5, <1>9
  <2> QED BY <1>1, <1>7, <1>8, <1>9, <2>1, <2>2 DEF FileOK
<1>12. HandleOK'
  BY <1>1, <1>9 DEF HandleOK, Serving
<1>13. OpensOK'
  <2>1. cursor' = Len(file')
    BY <1>1, <1>2, <1>4, <1>5
  <2> QED BY <1>1, <1>2, <1>9, <2>1 DEF OpensOK
<1>14. PendingOK'
  BY <1>1 DEF IInv, JInv, PendingOK
<1>15. PromiseOK'
  BY <1>1, <1>9 DEF IInv, JInv, PromiseOK
<1> QED BY <1>1, <1>9, <1>10, <1>11, <1>12, <1>13, <1>14, <1>15 DEF JInv

\* The append returns: its record is in the file, on stable storage and in the index.
LEMMA AppendedKeeps ==
  ASSUME IInv, Appended
  PROVE  JInv'
<1> DEFINE e == pending[1]
<1>1. /\ pending # <<>> /\ written = RecCells /\ synced' = Len(file)
      /\ entries' = Append(entries, e) /\ promised' = entries'
      /\ states' = PatchStates(states, e.table, e.change)
      /\ pending' = <<>> /\ written' = 0
      /\ \/ /\ mode = "rewinding" /\ todo' = Tail(todo) /\ target' = target
            /\ mode' = (IF Len(todo) = 1 THEN "ready" ELSE "rewinding")
         \/ mode # "rewinding" /\ target' = None /\ UNCHANGED <<mode, todo>>
      /\ UNCHANGED <<file, cursor, offset, pos, opens, faults>>
  BY DEF Appended, scanVars
<1>2. /\ Serving /\ Indexed /\ mode \in {"ready", "rewinding"}
      /\ entries \in Seq(Entry) /\ Len(entries) \in Nat /\ Len(entries) < MaxEntries
      /\ e \in Entry /\ e.table \in Tables /\ e.change \in Change
      /\ cursor = Len(file) /\ Len(file) = At(Len(entries)) + RecCells /\ opens = 2
  BY <1>1, RunningFacts
<1>3. RecordsIn(file) = entries'
  <2>1. ~(RecCells < RecCells)
    BY AtFacts
  <2> QED BY <1>1, <2>1 DEF IInv, JInv, FileOK
<1> HIDE DEF e
<1>4. entries' \in Seq(Entry) /\ Len(entries') = Len(entries) + 1 /\ Len(entries') \in Nat
  BY <1>1, <1>2, AppendProperties
<1>5. Len(file) = At(Len(entries'))
  BY <1>2, <1>4, AtFacts
<1>6. states' \in States
  BY <1>1, <1>2, PatchType DEF IInv, JInv, TypeOK
<1>7. mode' \in {"ready", "rewinding"} /\ Serving' /\ Indexed' /\ Kept' = entries'
  BY <1>1, <1>2 DEF Serving, Indexed, Kept
<1>8. /\ todo' \in Seq([table: Tables, change: Change]) /\ target' \in Nat \cup {None}
      /\ mode' = "rewinding" => mode = "rewinding" /\ Len(todo') = Len(todo) - 1 /\ Len(todo) \in Nat
  BY <1>1, <1>2, LogFacts DEF IInv, JInv, TypeOK
<1>9. TypeOK'
  <2>1. synced' \in 0..Len(file') /\ 0 \in 0..RecCells
    BY <1>1, DropFacts, AtFacts
  <2>2. <<>> \in Seq(Entry) /\ Len(<<>>) <= 1
    OBVIOUS
  <2>3. /\ file' \in Seq([entry: Entry, part: 1..RecCells] \cup {Hole}) /\ cursor' \in Nat
        /\ offset' \in Nat /\ pos' \in Nat /\ opens' \in 0..2 /\ faults' \in 0..MaxFaults
    BY <1>1 DEF IInv, JInv, TypeOK
  <2> QED BY <1>1, <1>4, <1>6, <1>7, <1>8, <2>1, <2>2, <2>3 DEF TypeOK
<1>10. FileOK'
  <2>1. RecordsIn(file)' = entries' /\ Len(file') = At(Len(entries')) /\ pending' = <<>>
    BY <1>1, <1>3, <1>5
  <2>2. RecordsIn(file)' \in Seq(Entry) /\ JournalOf(file, RecordsIn(file))'
    BY <1>1, DropFacts
  <2> QED BY <2>1, <2>2 DEF FileOK
<1>11. HandleOK'
  BY <1>1, <1>7 DEF HandleOK, Serving
<1>12. OpensOK'
  <2>1. RecordsIn(file)' = entries' /\ Len(file') = At(Len(entries')) /\ cursor' = Len(file') /\ opens' = 2
    BY <1>1, <1>2, <1>3, <1>5
  <2> QED BY <1>7, <2>1 DEF OpensOK
<1>13. PendingOK'
  <2>1. mode' = "rewinding" => Len(entries') + Len(todo') <= MaxEntries
    <3>1. mode = "rewinding" => Len(entries) + Len(todo) <= MaxEntries
      BY DEF IInv, JInv, PendingOK
    <3> QED BY <1>2, <1>4, <1>8, <3>1, JournalAssumption
  <2> QED BY <1>1, <1>2, <2>1 DEF PendingOK
<1>14. PromiseOK'
  <2>1. IsPrefixOf(entries', entries')
    BY <1>4 DEF IsPrefixOf
  <2>2. At(Len(entries')) <= synced'
    BY <1>1, <1>5, DropFacts
  <2> QED BY <1>1, <1>7, <2>1, <2>2 DEF PromiseOK
<1> QED BY <1>9, <1>10, <1>11, <1>12, <1>13, <1>14 DEF JInv

-----------------------------------------------------------------------------
(* The refinement, step by step.                                           *)

\* The steps a client of the log cannot see.
LEMMA Unseen ==
  ASSUME Kept' = Kept, UNCHANGED <<states, pos, todo, target>>,
         mode' = mode \/ (~Serving /\ ~Serving')
  PROVE  UNCHANGED LogP!vars
BY DEF LogP!vars, Serving

LEMMA InitMaps == Init => LogP!Init
<1> SUFFICES ASSUME Init PROVE LogP!Init
  OBVIOUS
<1>1. ~Serving /\ ~Indexed /\ states = EmptyStates /\ pos = 0 /\ todo = <<>> /\ target = None
  BY DEF Init, Serving, Indexed
<1>2. Kept = <<>>
  <2>1. JInv /\ promised = <<>>
    BY InitKeeps DEF Init
  <2>2. RecordsIn(file) \in Seq(Entry) /\ Len(file) = 0 /\ At(Len(RecordsIn(file))) <= Len(file)
    BY <2>1 DEF Init, JInv, FileOK, JournalOf
  <2>3. Len(RecordsIn(file)) = 0
    <3>1. Len(RecordsIn(file)) \in Nat
      BY <2>2, LenProperties
    <3>2. Len(RecordsIn(file)) <= At(Len(RecordsIn(file))) /\ At(Len(RecordsIn(file))) \in Nat
      BY <3>1, AtFacts
    <3> QED BY <2>2, <3>1, <3>2
  <2> QED BY <1>1, <2>2, <2>3, EmptySeq DEF Kept
<1> QED BY <1>1, <1>2, SameAlgebra DEF LogP!Init

LEMMA RecoverMaps ==
  ASSUME IInv, Recover \/ OpenSkewed
  PROVE  JInv' /\ [LogP!Next]_(LogP!vars)
<1>1. CASE Open \/ OpenSkewed
  <2>1. /\ mode \in {"closed", "refused"} /\ mode' \in {"scanning", "skewed"}
        /\ UNCHANGED <<file, states, pos, todo, target>>
    BY <1>1 DEF Open, OpenSkewed, scanVars, memVars
  <2>2. Kept' = Kept /\ ~Serving /\ ~Serving'
    BY <2>1 DEF Kept, Indexed, Serving
  <2> QED BY <1>1, <2>1, <2>2, Unseen, OpenKeeps
<1>2. CASE ScanRecord
  <2>1. /\ mode = "scanning" /\ UNCHANGED <<file, mode, states, pos, todo, target>>
    BY <1>2 DEF ScanRecord, fileVars
  <2>2. Kept' = Kept
    BY <2>1 DEF Kept, Indexed
  <2> QED BY <1>2, <2>1, <2>2, Unseen, ScanRecordKeeps
<1>3. CASE ScanEnd \/ ScanTorn
  <2>1. /\ mode = "scanning" /\ mode' = "rebuilding" /\ UNCHANGED <<states, pos, todo, target>>
    BY <1>3 DEF ScanEnd, ScanTorn, scanVars, memVars
  <2>2. ~Serving /\ ~Serving'
    BY <2>1 DEF Serving
  <2> QED BY <1>3, <2>1, <2>2, Unseen, ScanEndKeeps
<1>4. CASE ScanInvalid
  <2>1. mode = "skewed" /\ JInv'
    BY <1>4, ScanInvalidKeeps
  <2>2. mode' = "refused" /\ NoHandle /\ file' = file
    BY <1>4 DEF ScanInvalid, fileVars
  <2>3. ~Indexed /\ ~Indexed' /\ ~Serving /\ ~Serving' /\ Kept' = Kept
    BY <2>1, <2>2 DEF Indexed, Serving, Kept
  <2>4. UNCHANGED <<states, pos, todo, target>>
    BY <2>2, <2>3 DEF NoHandle, IInv, JInv, HandleOK
  <2> QED BY <2>1, <2>3, <2>4, Unseen
<1>5. CASE RebuildStep
  <2>1. /\ mode = "rebuilding" /\ pos < Len(entries) /\ pos' = pos + 1
        /\ states' = PatchStates(states, entries[pos + 1].table, entries[pos + 1].change)
        /\ UNCHANGED <<mode, entries, todo, target>>
    BY <1>5 DEF RebuildStep
  <2>2. ~Serving /\ ~Serving' /\ Kept = entries /\ Kept' = entries
    BY <2>1 DEF Serving, Kept, Indexed
  <2>3. states' = LogP!PatchStates(states, Kept[pos + 1].table, Kept[pos + 1].change)
    BY <2>1, <2>2, SameAlgebra
  <2>4. LogP!RebuildStep
    BY <2>1, <2>2, <2>3 DEF LogP!RebuildStep
  <2> QED BY <1>5, <2>4, RebuildKeeps DEF LogP!Next
<1>6. CASE Opened
  <2>1. /\ mode = "rebuilding" /\ pos = Len(entries) /\ mode' = "ready"
        /\ UNCHANGED <<entries, states, pos, todo, target>>
    BY <1>6 DEF Opened, scanVars, memVars
  <2>2. ~Serving /\ Serving' /\ Kept = entries /\ Kept' = entries
    BY <2>1 DEF Serving, Kept, Indexed
  <2>3. LogP!Opened
    BY <2>1, <2>2 DEF LogP!Opened
  <2> QED BY <1>6, <2>3, RebuildKeeps DEF LogP!Next
<1> QED BY <1>1, <1>2, <1>3, <1>4, <1>5, <1>6 DEF Recover

\* Whatever drops the handle and keeps the file's records reopens the log, with the
\* record a running append had completed.
LEMMA DroppedMaps ==
  ASSUME IInv, NoHandle, mode' = "closed", RecordsIn(file)' = RecordsIn(file)
  PROVE  LogP!Next
<1>1. ~Serving' /\ Kept' = RecordsIn(file)
  BY DEF Serving, Indexed, Kept
<1>2. LogP!Reopening
  BY <1>1, SameAlgebra DEF NoHandle, LogP!Reopening
<1>3. CASE RecordsIn(file) = Kept
  BY <1>1, <1>2, <1>3 DEF LogP!Reopen, LogP!Next
<1>4. CASE RecordsIn(file) # Kept
  <2> DEFINE e == pending[1]
  <2>1. pending # <<>> /\ RecordsIn(file) = Append(entries, e)
    BY <1>4 DEF Kept, IInv, JInv, FileOK
  <2>2. /\ mode \in {"ready", "rewinding"} /\ Serving /\ Kept = entries /\ Len(entries) < MaxEntries
        /\ e.table \in Tables /\ e.change \in Change /\ e = EntryFor(states, e.table, e.change)
    BY <2>1, RunningFacts
  <2>3. mode = "rewinding" => e.table = Head(todo).table /\ e.change = Head(todo).change
    BY <2>1 DEF IInv, JInv, PendingOK
  <2> HIDE DEF e
  <2>4. Kept' = Append(Kept, LogP!EntryFor(states, e.table, e.change))
    BY <1>1, <2>1, <2>2, SameAlgebra DEF e
  <2>5. LogP!CrashAfterWrite(e.table, e.change)
    BY <1>2, <2>2, <2>3, <2>4 DEF LogP!CrashAfterWrite
  <2> QED BY <2>2, <2>5, SameAlgebra DEF LogP!Next
<1> QED BY <1>3, <1>4

LEMMA DropMaps ==
  ASSUME IInv, Close \/ TruncateFails \/ Crash \/ (Careful /\ AppendFails)
  PROVE  JInv' /\ LogP!Next
<1>1. CASE Close
  <2>1. mode' = "closed" /\ NoHandle /\ file' = file
    BY <1>1 DEF Close, fileVars
  <2> QED BY <1>1, <2>1, CloseKeeps, DroppedMaps
<1>2. CASE TruncateFails
  <2>1. mode' = "closed" /\ NoHandle
    BY <1>2 DEF TruncateFails
  <2> QED BY <1>2, <2>1, TruncateFailsKeeps, DroppedMaps
<1>3. CASE Crash
  <2>1. mode' = "closed" /\ NoHandle /\ file' = file
    BY <1>3 DEF Crash, Dies
  <2> QED BY <1>3, <2>1, CrashKeeps, DroppedMaps
<1>4. CASE Careful /\ AppendFails
  <2>1. mode' = "closed" /\ NoHandle /\ file' = file
    BY <1>4 DEF AppendFails, fileVars
  <2> QED BY <1>4, <2>1, AppendFailsKeeps, DroppedMaps
<1> QED BY <1>1, <1>2, <1>3, <1>4

LEMMA ServeMaps ==
  ASSUME IInv, Careful,
         \/ Proceed
         \/ \E t \in Tables, c \in Change : StartAppend(t, c)
         \/ \E seq \in 0..MaxEntries : RewindTo(seq)
  PROVE  JInv' /\ [LogP!Next]_(LogP!vars)
<1>1. ASSUME NEW t \in Tables, NEW c \in Change, StartAppend(t, c)
      PROVE  JInv' /\ [LogP!Next]_(LogP!vars)
  <2>1. UNCHANGED <<file, mode, entries, states, pos, todo, target>>
    BY <1>1 DEF StartAppend, fileVars, scanVars
  <2>2. Kept' = Kept
    BY <2>1 DEF Kept, Indexed
  <2> QED BY <1>1, <2>1, <2>2, Unseen, StartAppendKeeps
<1>2. CASE StartCompensation
  <2>1. UNCHANGED <<file, mode, entries, states, pos, todo, target>>
    BY <1>2 DEF StartCompensation, fileVars, scanVars
  <2>2. Kept' = Kept
    BY <2>1 DEF Kept, Indexed
  <2> QED BY <1>2, <2>1, <2>2, Unseen, StartCompensationKeeps
<1>3. CASE WriteCell
  BY <1>3, Unseen, WriteCellKeeps
<1>4. ASSUME NEW seq \in 0..MaxEntries, RewindTo(seq)
      PROVE  JInv' /\ [LogP!Next]_(LogP!vars)
  <2> DEFINE start == IF seq < Len(entries) THEN seq ELSE Len(entries)
             n == Len(entries) - start
  <2>1. seq \in Nat /\ Len(entries) \in Nat
    BY JournalAssumption, LenProperties DEF IInv, JInv, TypeOK
  <2>2. /\ mode = "ready" /\ todo' = LogP!Compensations(entries, start)
        /\ target' = start /\ mode' = (IF n = 0 THEN "ready" ELSE "rewinding")
        /\ UNCHANGED <<entries, states, pos>>
    BY <1>4 DEF RewindTo, LogP!Compensations, scanVars
  <2>3. n = 0 <=> start = Len(entries)
    BY <2>1
  <2>4. Serving /\ Serving' /\ Kept = entries /\ Kept' = entries
    BY <2>2 DEF Serving, Kept, Indexed
  <2> HIDE DEF n
  <2>5. LogP!RewindTo(seq)
    BY <2>2, <2>3, <2>4 DEF LogP!RewindTo
  <2> QED BY <1>4, <2>1, <2>5, RewindToKeeps DEF LogP!Next
<1>5. CASE Appended
  <2> DEFINE e == pending[1]
  <2>1. /\ pending # <<>> /\ entries' = Append(entries, e)
        /\ states' = PatchStates(states, e.table, e.change) /\ pos' = pos
        /\ \/ /\ mode = "rewinding" /\ todo' = Tail(todo) /\ target' = target
              /\ mode' = (IF Len(todo) = 1 THEN "ready" ELSE "rewinding")
           \/ mode # "rewinding" /\ target' = None /\ UNCHANGED <<mode, todo>>
    BY <1>5 DEF Appended, scanVars
  <2>2. /\ mode \in {"ready", "rewinding"} /\ Serving /\ Kept = entries /\ Len(entries) < MaxEntries
        /\ e.table \in Tables /\ e.change \in Change /\ e = EntryFor(states, e.table, e.change)
    BY <2>1, RunningFacts
  <2>3. mode = "rewinding" => e.table = Head(todo).table /\ e.change = Head(todo).change
    BY <2>1 DEF IInv, JInv, PendingOK
  <2> HIDE DEF e
  <2>4. Serving' /\ Kept' = entries' /\ mode' \in {"ready", "rewinding"}
    BY <2>1, <2>2 DEF Serving, Indexed, Kept
  <2>5. LogP!Logged(e.table, e.change)
    BY <2>1, <2>2, <2>4, SameAlgebra DEF LogP!Logged
  <2>6. CASE mode = "ready"
    <3>1. target' = LogP!None /\ UNCHANGED <<mode, todo>>
      BY <2>1, <2>6, SameAlgebra
    <3>2. LogP!AppendDelta(e.table, e.change)
      BY <2>1, <2>2, <2>4, <2>5, <2>6, <3>1 DEF LogP!AppendDelta
    <3> QED BY <1>5, <2>2, <3>2, AppendedKeeps, SameAlgebra DEF LogP!Next
  <2>7. CASE mode = "rewinding"
    <3>1. LogP!Compensate
      BY <2>1, <2>2, <2>3, <2>4, <2>5, <2>7 DEF LogP!Compensate
    <3> QED BY <1>5, <3>1, AppendedKeeps DEF LogP!Next
  <2> QED BY <2>2, <2>6, <2>7
<1> QED BY <1>1, <1>2, <1>3, <1>4, <1>5 DEF Proceed

-----------------------------------------------------------------------------
(* The inductive invariant.                                                *)

\* The inverses in the file restore, the record of a running append's included.
LEMMA FileRestoring ==
  ASSUME IInv
  PROVE  Restoring(RecordsIn(file))
<1>1. Kept \in Seq(Entry) /\ Restoring(Kept)
  BY LogFacts, SameReplay DEF IInv, LogP!IInv, LogP!InversesRestore
<1>2. CASE RecordsIn(file) = Kept
  BY <1>1, <1>2
<1>3. CASE RecordsIn(file) # Kept
  <2> DEFINE e == pending[1]
  <2>1. pending # <<>> /\ RecordsIn(file) = Append(entries, e)
    BY <1>3 DEF Kept, IInv, JInv, FileOK
  <2>2. /\ Serving /\ Kept = entries /\ entries \in Seq(Entry)
        /\ e.table \in Tables /\ e.change \in Change /\ e = EntryFor(states, e.table, e.change)
        /\ states \in States
    BY <2>1, RunningFacts DEF IInv, JInv, TypeOK
  <2> HIDE DEF e
  <2>3. states = StateAt(entries, Len(entries))
    <3>1. LogP!StatesAreReplay
      BY DEF IInv, LogP!IInv
    <3>2. (IF Serving THEN mode ELSE "opening") # "opening"
      BY <2>2 DEF Serving
    <3> QED BY <2>2, <3>1, <3>2, SameReplay DEF LogP!StatesAreReplay
  <2>4. RecordsIn(file) = Append(entries, EntryFor(states, e.table, e.change))
    BY <2>1, <2>2 DEF e
  <2>5. Restoring(entries) /\ RecordsIn(file) \in Seq(Entry)
    BY <1>1, <2>2, DropFacts
  <2>6. Restoring(Append(entries, EntryFor(states, e.table, e.change)))
    BY <2>2, <2>3, <2>5, AppendedRestores
  <2> QED BY <2>4, <2>6
<1> QED BY <1>2, <1>3

\* A loss of power reopens a log that may have lost its end.
LEMMA PowerLossInv ==
  ASSUME IInv, PowerLoss
  PROVE  IInv'
<1>1. JInv' /\ IsPrefixOf(RecordsIn(file)', RecordsIn(file))
  BY PowerLossKeeps
<1>2. mode' = "closed" /\ NoHandle
  BY DEF PowerLoss, Dies
<1>3. ~Serving' /\ Kept' = RecordsIn(file)'
  BY <1>2 DEF Serving, Indexed, Kept
<1>4. LogP!Reopening
  BY <1>2, <1>3, SameAlgebra DEF NoHandle, LogP!Reopening
<1>5. Kept' \in Seq(LogP!Entry)
  BY <1>1, <1>3, SameAlgebra DEF JInv, FileOK
<1>6. Restoring(Kept')
  <2>1. RecordsIn(file) \in Seq(Entry) /\ RecordsIn(file)' \in Seq(Entry)
    BY <1>1, DropFacts DEF JInv, FileOK
  <2>2. PICK es \in Seq(Entry), fs \in Seq(Entry) : es = RecordsIn(file) /\ fs = RecordsIn(file)'
    BY <2>1
  <2>3. /\ Len(fs) <= Len(es) /\ \A i \in 1..Len(fs) : fs[i] = es[i]
        /\ Restoring(es)
    BY <1>1, <2>2, FileRestoring DEF IsPrefixOf
  <2>4. Restoring(fs)
    BY <2>3, PrefixRestoring
  <2> QED BY <1>3, <2>2, <2>4
<1>7. LogP!InversesRestore'
  BY <1>6, SameReplay DEF LogP!InversesRestore
<1>8. LogP!IInv'
  BY <1>4, <1>5, <1>7, LogP!ReopeningKeeps, JournalAssumption, AbsentAssumption
<1> QED BY <1>1, <1>8 DEF IInv

\* Every step but a loss of power is a step of the log, or one it does not see.
LEMMA StepMaps ==
  ASSUME IInv, Careful, [Next]_vars
  PROVE  PowerLoss \/ (JInv' /\ [LogP!Next]_(LogP!vars))
<1>1. CASE Recover \/ OpenSkewed
  BY <1>1, RecoverMaps
<1>2. CASE \/ Proceed
           \/ \E t \in Tables, c \in Change : StartAppend(t, c)
           \/ \E seq \in 0..MaxEntries : RewindTo(seq)
  BY <1>2, ServeMaps
<1>3. CASE Close \/ TruncateFails \/ Crash \/ AppendFails
  BY <1>3, DropMaps
<1>4. CASE UNCHANGED vars
  <2>1. JInv'
    BY <1>4 DEF vars, IInv, JInv, TypeOK, FileOK, HandleOK, OpensOK, PendingOK, PromiseOK,
                Kept, Indexed, Serving
  <2>2. UNCHANGED <<file, mode, entries, states, pos, todo, target>>
    BY <1>4 DEF vars
  <2>3. Kept' = Kept
    BY <2>2 DEF Kept, Indexed
  <2> QED BY <2>1, <2>2, <2>3, Unseen
<1> QED BY <1>1, <1>2, <1>3, <1>4 DEF Next

LEMMA InitIInv == Init => IInv
<1>1. Init => LogP!IInv
  BY InitMaps, LogP!InitIInv, JournalAssumption, AbsentAssumption
<1> QED BY <1>1, InitKeeps DEF IInv

LEMMA StepIInv ==
  ASSUME IInv, Careful, [Next]_vars
  PROVE  IInv'
<1>1. CASE PowerLoss
  BY <1>1, PowerLossInv
<1>2. CASE JInv' /\ [LogP!Next]_(LogP!vars)
  <2>1. LogP!IInv
    BY DEF IInv
  <2>2. LogP!IInv'
    BY <1>2, <2>1, LogP!StepIInv, JournalAssumption, AbsentAssumption
  <2> QED BY <1>2, <2>2 DEF IInv
<1> QED BY <1>1, <1>2, StepMaps

LEMMA AlwaysIInv == Careful => (Spec => []IInv)
<1> SUFFICES ASSUME Careful PROVE Spec => []IInv
  OBVIOUS
<1>1. IInv /\ [Next]_vars => IInv'
  BY StepIInv
<1> QED BY <1>1, InitIInv, PTL DEF Spec

-----------------------------------------------------------------------------

\* Type correctness of a careful owner's journal.
THEOREM JournalTypes == Careful => (Spec => []TypeOK)
<1> SUFFICES ASSUME Careful PROVE Spec => []TypeOK
  OBVIOUS
<1>1. IInv => TypeOK
  BY DEF IInv, JInv
<1> QED BY <1>1, AlwaysIInv, PTL

\* Between two appends the file holds the records of the index and nothing else,
\* whatever crashes, torn writes and failed recoveries came before (log.rs: open_with,
\* append).
THEOREM FileIsIndex == Careful => (Spec => []FileMatchesMemory)
<1> SUFFICES ASSUME Careful PROVE Spec => []FileMatchesMemory
  OBVIOUS
<1>1. ASSUME IInv PROVE FileMatchesMemory
  <2>1. Serving => Indexed
    BY <1>1, Modes DEF IInv, JInv
  <2> QED BY <1>1, <2>1 DEF IInv, JInv, FileOK, FileMatchesMemory, At
<1> QED BY <1>1, AlwaysIInv, PTL

\* Every log opened later starts with what an append last promised, also after a loss
\* of power that keeps no more than what was synced (append: "durable before it
\* returns").
THEOREM PromisesKept == Careful => (Spec => []Durable)
<1> SUFFICES ASSUME Careful PROVE Spec => []Durable
  OBVIOUS
<1>1. ASSUME IInv PROVE Durable
  <2> SUFFICES ASSUME Serving
               PROVE  /\ Len(promised) <= Len(entries)
                      /\ SubSeq(entries, 1, Len(promised)) = promised
    BY DEF Durable
  <2>1. /\ entries \in Seq(Entry) /\ promised \in Seq(Entry) /\ IsPrefixOf(promised, entries)
        /\ Len(entries) \in Nat /\ Len(promised) \in Nat
    BY <1>1, Modes, LenProperties DEF IInv, JInv, TypeOK, PromiseOK, Kept
  <2>2. /\ Len(promised) <= Len(entries) /\ \A i \in 1..Len(promised) : promised[i] = entries[i]
    BY <2>1 DEF IsPrefixOf
  <2> DEFINE s == SubSeq(entries, 1, Len(promised))
  <2>3. /\ s \in Seq(Entry) /\ Len(s) = Len(promised)
        /\ \A i \in 1..Len(promised) : s[i] = entries[i]
    BY <2>1, <2>2, SubSeqProperties, ElementOfSeq
  <2>4. s = promised
    BY <2>1, <2>2, <2>3, SeqEqual
  <2> QED BY <2>2, <2>4
<1> QED BY <1>1, AlwaysIInv, PTL

\* No history of appends, failures and crashes makes a journal that the program that
\* wrote it refuses to open (open_with: Torn is cut, never an error).
THEOREM OpenNeverRefuses == Careful /\ "skew" \notin Faults => (Spec => []NeverRefused)
<1> SUFFICES ASSUME Careful, "skew" \notin Faults PROVE Spec => []NeverRefused
  OBVIOUS
<1>1. IInv => NeverRefused
  BY DEF IInv, JInv, HandleOK, NeverRefused
<1> QED BY <1>1, AlwaysIInv, PTL

\* rewind_to's law, of a log whose inverses a recovery read back.
THEOREM JournalRewinds == Careful => (Spec => []RewindLaw)
<1> SUFFICES ASSUME Careful PROVE Spec => []RewindLaw
  OBVIOUS
<1>1. ASSUME IInv PROVE RewindLaw
  <2> SUFFICES ASSUME target # None PROVE states = StateAt(entries, target + Len(todo))
    BY DEF RewindLaw
  <2>1. Indexed
    BY <1>1 DEF IInv, JInv, HandleOK
  <2>2. LogP!RewindLaw
    BY <1>1 DEF IInv, LogP!IInv
  <2>3. states = LogP!StateAt(entries, target + Len(todo))
    BY <2>1, <2>2, SameAlgebra DEF Kept, LogP!RewindLaw
  <2> QED BY <2>3, SameReplay
<1> QED BY <1>1, AlwaysIInv, PTL

-----------------------------------------------------------------------------
(* The refinement.                                                         *)

\* ImplementsDeltaLog maps the journal to DeltaLog as the invariant does.
LEMMA SameLog ==
  /\ LogP!Init => Log!Init
  /\ [LogP!Next]_(LogP!vars) => [Log!Next]_(Log!vars)
<1> USE DEF Kept
<1>1. /\ Log!Entry = Entry /\ Log!Change = Change /\ Log!EmptyStates = EmptyStates
      /\ Log!None = None
      /\ \A s, t, c : Log!EntryFor(s, t, c) = EntryFor(s, t, c)
      /\ \A s, t, c : Log!PatchStates(s, t, c) = PatchStates(s, t, c)
  <2>1. ASSUME NEW s, NEW t, NEW c
        PROVE  Log!EntryFor(s, t, c) = EntryFor(s, t, c)
    BY DEF EntryFor, Invert, InsertOf, UpdateOf, RemoveOf,
           Log!EntryFor, Log!Invert, Log!InsertOf, Log!UpdateOf, Log!RemoveOf
  <2>2. ASSUME NEW s, NEW t, NEW c
        PROVE  Log!PatchStates(s, t, c) = PatchStates(s, t, c)
    BY DEF PatchStates, Patch, Log!PatchStates, Log!Patch
  <2> QED BY <2>1, <2>2 DEF Change, Entry, EmptyStates, None, Log!Change, Log!Entry, Log!EmptyStates, Log!None
<1>2. LogP!Init => Log!Init
  BY <1>1, SameAlgebra DEF LogP!Init, Log!Init
<1>3. ASSUME NEW t, NEW c
      PROVE  /\ LogP!AppendDelta(t, c) => Log!AppendDelta(t, c)
             /\ LogP!CrashAfterWrite(t, c) => Log!CrashAfterWrite(t, c)
  BY <1>1, SameAlgebra
     DEF LogP!AppendDelta, LogP!Logged, LogP!CrashAfterWrite, LogP!Reopening,
         Log!AppendDelta, Log!Logged, Log!CrashAfterWrite, Log!Reopening
<1>4. ASSUME NEW seq
      PROVE  LogP!RewindTo(seq) => Log!RewindTo(seq)
  BY DEF LogP!RewindTo, LogP!Compensations, Log!RewindTo, Log!Compensations
<1>5. /\ LogP!Compensate => Log!Compensate
      /\ LogP!RewindAborts => Log!RewindAborts
  BY <1>1, SameAlgebra
     DEF LogP!Compensate, LogP!Logged, LogP!RewindAborts,
         Log!Compensate, Log!Logged, Log!RewindAborts
<1>6. /\ LogP!Reopen => Log!Reopen
      /\ LogP!RebuildStep => Log!RebuildStep
      /\ LogP!Opened => Log!Opened
  BY <1>1, SameAlgebra
     DEF LogP!Reopen, LogP!Reopening, LogP!RebuildStep, LogP!Opened,
         Log!Reopen, Log!Reopening, Log!RebuildStep, Log!Opened
<1>7. UNCHANGED LogP!vars => UNCHANGED Log!vars
  BY DEF LogP!vars, Log!vars
<1>8. LogP!Next => Log!Next
  BY <1>1, <1>3, <1>4, <1>5, <1>6, SameAlgebra DEF LogP!Next, Log!Next
<1> QED BY <1>2, <1>7, <1>8

\* While the machine does not lose power, a careful owner's journal implements the
\* delta log: over crashes, torn writes, failed syncs and recoveries a client observes
\* nothing that DeltaLog does not allow.
THEOREM JournalImplementsLog ==
  Careful /\ "power" \notin Faults => (Spec => ImplementsDeltaLog)
<1> SUFFICES ASSUME Careful, "power" \notin Faults PROVE Spec => ImplementsDeltaLog
  OBVIOUS
<1>1. Init => Log!Init
  BY InitMaps, SameLog
<1>2. IInv /\ [Next]_vars => [Log!Next]_(Log!vars)
  <2> SUFFICES ASSUME IInv, [Next]_vars PROVE [Log!Next]_(Log!vars)
    OBVIOUS
  <2>1. ~PowerLoss
    BY DEF PowerLoss
  <2> QED BY <2>1, StepMaps, SameLog
<1> QED BY <1>1, <1>2, AlwaysIInv, PTL DEF Spec, ImplementsDeltaLog, Log!Spec
=============================================================================
