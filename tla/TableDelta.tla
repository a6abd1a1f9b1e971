----------------------------- MODULE TableDelta -----------------------------
(***************************************************************************)
(* The change algebra of the delta log (crates/wasm-delta/src/delta.rs and *)
(* the entry type of log.rs).  A table is a map from keys to rows; a       *)
(* change is an insert or an update carrying a full row, or a remove       *)
(* carrying only a key.  The inverse of a change is computed from the row  *)
(* the change is about to overwrite.                                       *)
(*                                                                         *)
(* A row is abstracted to its key (the first field) and one opaque value   *)
(* standing for the other fields; "no row" is the value Absent.            *)
(***************************************************************************)
EXTENDS Integers, Sequences, SequencesExt

CONSTANTS Tables,   \* the registered tables of the schema set
          Keys,     \* values of the key field
          Values,   \* what a row holds besides its key
          Absent    \* "no row at this key"

ASSUME AbsentAssumption == Absent \notin Values

\* A table, key by key; the empty table; the materialized states of all tables.
\* BTreeMap drops absent keys, a total function keeps them as Absent.
Table == [Keys -> Values \cup {Absent}]
States == [Tables -> Table]
EmptyStates == [t \in Tables |-> [k \in Keys |-> Absent]]

-----------------------------------------------------------------------------
(* Changes.                                                                *)

InsertOf(k, v) == [op |-> "insert", key |-> k, val |-> v]
UpdateOf(k, v) == [op |-> "update", key |-> k, val |-> v]
RemoveOf(k)    == [op |-> "remove", key |-> k, val |-> Absent]

\* The well-typed changes: what validate lets through for a keyed schema.
Change == [op: {"insert", "update"}, key: Keys, val: Values]
            \cup [op: {"remove"}, key: Keys, val: {Absent}]

\* DeltaEntry: the change, the table it targets, and its stored inverse.
Entry == [table: Tables, change: Change, inverse: Change]

\* Table::patch: insert and update set the row, remove deletes it.
Patch(tab, c) == IF c.op = "remove" THEN [tab EXCEPT ![c.key] = Absent]
                                    ELSE [tab EXCEPT ![c.key] = c.val]

\* invert: the change that puts back the row found before c lands.
Invert(c, pre) ==
  IF pre = Absent THEN RemoveOf(c.key)
  ELSE IF c.op = "remove" THEN InsertOf(c.key, pre)
  ELSE UpdateOf(c.key, pre)

\* patch on the map of tables.
PatchStates(s, t, c) == [s EXCEPT ![t] = Patch(s[t], c)]

\* Mutant of EntryFor: the pre-image is read after the change has landed.
EntryFromPostImage(s, t, c) ==
  [table |-> t, change |-> c, inverse |-> Invert(c, Patch(s[t], c)[c.key])]

\* The entry append builds for change c on table t in states s.
EntryFor(s, t, c) ==
  [table |-> t, change |-> c, inverse |-> Invert(c, s[t][c.key])]

-----------------------------------------------------------------------------
(* The state after a prefix of the log, twice: as the code computes it (a  *)
(* fold of patch) and in closed form (a row is what the last change on its *)
(* key left).  The closed form is the one the invariants and the proofs    *)
(* use; the runs check that the two agree.                                 *)

\* Mutant of Replay: take(seq) one entry short.
ReplayOneShort(es, n) ==
  FoldLeft(LAMBDA s, e : PatchStates(s, e.table, e.change),
           EmptyStates, SubSeq(es, 1, n - 1))

Replay(es, n) ==
  FoldLeft(LAMBDA s, e : PatchStates(s, e.table, e.change),
           EmptyStates, SubSeq(es, 1, n))

Writers(es, n, t, k) == {i \in 1..n : es[i].table = t /\ es[i].change.key = k}
Latest(S) == CHOOSE i \in S : \A j \in S : j <= i
RowAt(es, n, t, k) ==
  LET W == Writers(es, n, t, k)
  IN IF W = {} THEN Absent ELSE es[Latest(W)].change.val
StateAt(es, n) == [t \in Tables |-> [k \in Keys |-> RowAt(es, n, t, k)]]

\* A log all of whose stored inverses restore the state before their change.
Restoring(es) ==
  \A i \in 1..Len(es) :
    PatchStates(StateAt(es, i), es[i].table, es[i].inverse) = StateAt(es, i - 1)
=============================================================================
