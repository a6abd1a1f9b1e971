------------------------------ MODULE DeltaLog ------------------------------
(***************************************************************************)
(* The append-only delta log over a backend that keeps what it accepted:   *)
(* DeltaLog<B> of crates/wasm-delta/src/log.rs with its durable side       *)
(* reduced to outcomes.  An append either returns with its record kept, or *)
(* fails and leaves the log as it was, or is interrupted by a crash, after *)
(* which its record may or may not be in the log.  DeltaJournal refines    *)
(* this module with the file, its cursor and its torn writes.              *)
(*                                                                         *)
(* Requests that validate rejects (unknown table, ill-typed row or key,    *)
(* key-less schema) return before anything changes: they are stuttering    *)
(* steps here.  The handle is &mut: while a rewind runs, nothing else does.*)
(***************************************************************************)
EXTENDS TableDelta

CONSTANT MaxEntries      \* bound on the length of the log, a guard of the model

ASSUME MaxEntriesAssumption == MaxEntries \in Nat

VARIABLES
  entries,   \* the entry index
  states,    \* the materialized tables
  mode,      \* "opening" (rebuild_states runs), "ready", "rewinding"
  pos,       \* entries already replayed by rebuild_states
  todo,      \* the compensations a running rewind_to has left
  target     \* the prefix the last rewind_to aims at or reached; None: changed since

vars == <<entries, states, mode, pos, todo, target>>

None == -1

\* Mutant of Compensations: the entries are not walked in reverse.
CompensationsForward(es, start) ==
  [i \in 1..(Len(es) - start) |->
     [table |-> es[start + i].table, change |-> es[start + i].inverse]]

\* The compensations of rewind_to(start): table and stored inverse of the
\* entries after start, last first, collected before the first is appended.
Compensations(es, start) ==
  [i \in 1..(Len(es) - start) |->
     [table |-> es[Len(es) + 1 - i].table, change |-> es[Len(es) + 1 - i].inverse]]

TypeOK ==
  /\ entries \in Seq(Entry)
  /\ states \in States
  /\ mode \in {"opening", "ready", "rewinding"}
  /\ pos \in Nat
  /\ todo \in Seq([table: Tables, change: Change])
  /\ target \in Nat \cup {None}

Init ==
  /\ entries = <<>>
  /\ states = EmptyStates
  /\ mode = "opening"
  /\ pos = 0
  /\ todo = <<>>
  /\ target = None

-----------------------------------------------------------------------------

\* append: what its success changes, for a client's delta and for a compensation.
Logged(t, c) ==
  /\ Len(entries) < MaxEntries
  /\ entries' = Append(entries, EntryFor(states, t, c))
  /\ states' = PatchStates(states, t, c)

AppendDelta(t, c) ==
  /\ mode = "ready"
  /\ Logged(t, c)
  /\ target' = None
  /\ UNCHANGED <<mode, pos, todo>>

\* rewind_to(seq): a seq past the end is the end.
RewindTo(seq) ==
  LET start == IF seq < Len(entries) THEN seq ELSE Len(entries)
  IN /\ mode = "ready"
     /\ todo' = Compensations(entries, start)
     /\ target' = start
     /\ mode' = IF start = Len(entries) THEN "ready" ELSE "rewinding"
     /\ UNCHANGED <<entries, states, pos>>

\* One turn of rewind_to's loop: the next inverse goes through append.
Compensate ==
  /\ mode = "rewinding"
  /\ Logged(Head(todo).table, Head(todo).change)
  /\ todo' = Tail(todo)
  /\ mode' = IF Len(todo) = 1 THEN "ready" ELSE "rewinding"
  /\ UNCHANGED <<pos, target>>

\* A compensation's append fails: rewind_to returns the error half way.
RewindAborts ==
  /\ mode = "rewinding"
  /\ mode' = "ready"
  /\ todo' = <<>>
  /\ target' = None
  /\ UNCHANGED <<entries, states, pos>>

-----------------------------------------------------------------------------
(* The process dies, or drops the handle, and the log is opened again.     *)

Reopening ==
  /\ states' = EmptyStates
  /\ mode' = "opening"
  /\ pos' = 0
  /\ todo' = <<>>
  /\ target' = None

Reopen == Reopening /\ UNCHANGED entries

\* The crash hits an append after its record reached the backend and before
\* it returned: the entry is in the log although nobody was told.
CrashAfterWrite(t, c) ==
  /\ \/ mode = "ready"
     \/ mode = "rewinding" /\ t = Head(todo).table /\ c = Head(todo).change
  /\ Len(entries) < MaxEntries
  /\ entries' = Append(entries, EntryFor(states, t, c))
  /\ Reopening

\* rebuild_states, one entry per turn of its loop.
RebuildStep ==
  /\ mode = "opening"
  /\ pos < Len(entries)
  /\ states' = PatchStates(states, entries[pos + 1].table, entries[pos + 1].change)
  /\ pos' = pos + 1
  /\ UNCHANGED <<entries, mode, todo, target>>

\* Mutant of Opened: rebuild_states leaves out the last entry.
OpenedOneShort ==
  /\ mode = "opening"
  /\ pos + 1 >= Len(entries)
  /\ mode' = "ready"
  /\ UNCHANGED <<entries, states, pos, todo, target>>

Opened ==
  /\ mode = "opening"
  /\ pos = Len(entries)
  /\ mode' = "ready"
  /\ UNCHANGED <<entries, states, pos, todo, target>>

Next ==
  \/ \E t \in Tables, c \in Change : AppendDelta(t, c)
  \/ \E seq \in 0..MaxEntries : RewindTo(seq)
  \/ Compensate
  \/ RewindAborts
  \/ Reopen
  \/ \E t \in Tables, c \in Change : CrashAfterWrite(t, c)
  \/ RebuildStep
  \/ Opened

Spec == Init /\ [][Next]_vars

-----------------------------------------------------------------------------
(* Safety.                                                                 *)

\* The tables an open log answers from are the replay of its entries, whatever
\* appends, aborted rewinds and reopenings led there; while rebuild_states runs
\* they are the replay of the entries it has passed.  (log.rs: "materialized
\* per-table state, kept in step on every append".)
StatesAreReplay ==
  states = StateAt(entries, IF mode = "opening" THEN pos ELSE Len(entries))

\* Each stored inverse, applied to the state its change produced, restores the
\* state before it: correct_invert at every position of the log, also for
\* compensations of compensations and for entries a reopening brought back.
InversesRestore == Restoring(entries)

\* rewind_to unwinds one entry per compensation: with m of them left, the
\* tables are those of prefix target + m, and once none is left the current
\* state equals state_at(target).  A rewind that follows an aborted one, or
\* one over earlier compensations, obeys it too.
RewindLaw ==
  target # None => states = StateAt(entries, target + Len(todo))

\* What the rewind loop has left are the inverses of the entries it has yet to
\* undo, in an order nothing appended meanwhile disturbs.
TodoIsSuffixUndone ==
  \A i \in 1..Len(todo) :
    LET e == entries[target + Len(todo) + 1 - i]
    IN todo[i] = [table |-> e.table, change |-> e.inverse]

\* state_at as the code folds it agrees with the closed form, at every prefix.
ReplayAgrees ==
  \A n \in 0..Len(entries) : Replay(entries, n) = StateAt(entries, n)

\* The log is append-only: no step rewrites or drops an entry, a rewind included.
AppendOnly ==
  [][Len(entries') >= Len(entries) /\ SubSeq(entries', 1, Len(entries)) = entries]_vars

-----------------------------------------------------------------------------
(* The log implements UndoHistory: entry n is the step from state n to     *)
(* state n + 1 of the history, and a compensation is one step of an undo.  *)

History == INSTANCE UndoHistory WITH
  hist <- [n \in 1..(Len(entries) + 1) |-> StateAt(entries, n - 1)],
  back <- IF mode = "rewinding" THEN target + Len(todo) ELSE 0,
  goal <- IF mode = "rewinding" THEN target + 1 ELSE 0

\* Every step of the log is a step of the history or none: a client that only
\* sees states cannot tell the log from a store that keeps whole snapshots and
\* undoes by copying them back.
ImplementsUndoHistory == History!HSpec
=============================================================================
