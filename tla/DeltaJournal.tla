---------------------------- MODULE DeltaJournal ----------------------------
(***************************************************************************)
(* The delta log over its file backend (DeltaLog<FsBackend>, log.rs): the  *)
(* bytes of the journal, the file handle's cursor, what is on stable       *)
(* storage, the recovery scan of open_with and the failures it must face.  *)
(*                                                                         *)
(* A record is RecCells cells, each standing for one or more of its bytes, *)
(* so that a write can stop inside a record.  A cell knows the entry it    *)
(* belongs to: the envelope's version, fingerprint and length prefix are   *)
(* what lets the scan find the same record again (EnvelopeScan checks that *)
(* part on bytes).                                                         *)
(*                                                                         *)
(* The append of one record is not atomic: write_all writes cell after     *)
(* cell, then sync_data runs, then the memory is updated.  A crash or an   *)
(* I/O error may come between any two of these steps.  What the owner of   *)
(* the handle does after an error is not part of the code; Careful says    *)
(* which of two owners is modelled.                                        *)
(***************************************************************************)
EXTENDS TableDelta

CONSTANTS
  RecCells,     \* cells per record
  Hole,         \* a zero byte the file system invents
  Faults,       \* which of FaultKinds may happen
  Careful,      \* TRUE: the owner drops the handle after any append error, and
                \* opens twice after an error or a crash before it appends
  MaxEntries,   \* bound: entries in the log
  MaxCells,     \* bound: cells in the file
  MaxFaults     \* bound: crashes and errors in a behaviour

FaultKinds ==
  {"crash",    \* the process dies; what was written survives
   "power",    \* the machine dies; what was not synced may be lost
   "refuse",   \* write_all fails before its first byte
   "write",    \* write_all fails after some bytes
   "sync",     \* sync_data fails after the record was written
   "cut",      \* the recovery's truncate fails
   "skew"}     \* a program built for other schemas opens the journal

ASSUME JournalAssumption ==
  /\ RecCells \in Nat \ {0, 1} /\ Hole \notin [entry: Entry, part: 1..RecCells]
  /\ Faults \subseteq FaultKinds
  /\ Careful \in BOOLEAN
  /\ MaxEntries \in Nat /\ MaxCells \in Nat /\ MaxFaults \in Nat

VARIABLES
  file,      \* the journal's cells
  cursor,    \* the handle's position, in cells
  synced,    \* a prefix of this length is on stable storage
  mode,      \* "closed", "scanning", "skewed", "rebuilding", "refused", "ready",
             \* "rewinding"
  offset,    \* how far the recovery scan got, in cells
  pos,       \* entries already replayed by rebuild_states
  entries, states,
  pending,   \* <<entry>> while its append runs, else <<>>
  written,   \* cells of the pending record written so far
  todo, target,
  opens,     \* opens that succeeded since the last crash or error, 2 for more
  promised,  \* the log as it was when an append last returned success
  faults     \* faults so far

fileVars == <<file, cursor, synced>>
memVars == <<entries, states, pending, written, todo, target>>
scanVars == <<offset, pos>>
vars == <<file, cursor, synced, mode, offset, pos, entries, states, pending, written,
          todo, target, opens, promised, faults>>

None == -1
Serving == mode \in {"ready", "rewinding"}
RecordCell(e, p) == [entry |-> e, part |-> p]

TypeOK ==
  /\ file \in Seq([entry: Entry, part: 1..RecCells] \cup {Hole})
  /\ cursor \in Nat
  /\ synced \in 0..Len(file)
  /\ mode \in {"closed", "scanning", "skewed", "rebuilding", "refused", "ready", "rewinding"}
  /\ offset \in Nat /\ pos \in Nat
  /\ entries \in Seq(Entry) /\ promised \in Seq(Entry)
  /\ states \in States
  /\ pending \in Seq(Entry) /\ Len(pending) <= 1
  /\ written \in 0..RecCells
  /\ todo \in Seq([table: Tables, change: Change])
  /\ target \in Nat \cup {None}
  /\ opens \in 0..2 /\ faults \in 0..MaxFaults

Init ==
  /\ file = <<>> /\ cursor = 0 /\ synced = 0
  /\ mode = "closed" /\ offset = 0 /\ pos = 0
  /\ entries = <<>> /\ states = EmptyStates
  /\ pending = <<>> /\ written = 0
  /\ todo = <<>> /\ target = None
  /\ opens = 0 /\ promised = <<>> /\ faults = 0

-----------------------------------------------------------------------------
(* What the scan makes of the bytes at an offset.                          *)

\* A complete envelope holding an entry.
Complete(f, o) ==
  /\ o + RecCells <= Len(f)
  /\ f[o + 1] # Hole
  /\ \A p \in 1..RecCells : f[o + p] = RecordCell(f[o + 1].entry, p)

\* The beginning of a record, cut by the end of the file.
Clipped(f, o) ==
  /\ o < Len(f) /\ Len(f) < o + RecCells
  /\ f[o + 1] # Hole
  /\ \A p \in 1..(Len(f) - o) : f[o + p] = RecordCell(f[o + 1].entry, p)

\* Anything else: zeros, or the beginning of one record run into another.  The
\* decoder reads its three header numbers from whatever is there: one zero byte
\* before a record makes the fingerprint a length, which overruns the file
\* (Torn), two or more make a complete envelope of version 0 (WrongVersion), and
\* a mixed payload does not decode (Corrupt) unless its length was misread.
Garbled(f, o) == o < Len(f) /\ ~Complete(f, o) /\ ~Clipped(f, o)

\* The entries of the complete records the file starts with.
RecordsIn(f) ==
  LET n == CHOOSE m \in 0..Len(f) :
             /\ \A i \in 1..m : Complete(f, (i - 1) * RecCells)
             /\ ~Complete(f, m * RecCells)
  IN [i \in 1..n |-> f[(i - 1) * RecCells + 1].entry]

-----------------------------------------------------------------------------
(* open_with.                                                              *)

NoHandle ==
  /\ entries' = <<>> /\ states' = EmptyStates
  /\ pending' = <<>> /\ written' = 0
  /\ todo' = <<>> /\ target' = None
  /\ offset' = 0 /\ pos' = 0

\* FsBackend::open and load: seek to the start, read to the end.
Open ==
  /\ mode \in {"closed", "refused"}
  /\ mode' = "scanning"
  /\ cursor' = Len(file)
  /\ UNCHANGED <<file, synced, opens, promised, faults>>
  /\ UNCHANGED <<scanVars, memVars>>

\* The same by a program whose schemas have another fingerprint.  Of a file that starts
\* with no complete record it makes a log of its own, as any other would.
OpenSkewed ==
  /\ mode \in {"closed", "refused"}
  /\ "skew" \in Faults /\ faults < MaxFaults
  /\ Complete(file, 0)
  /\ faults' = faults + 1
  /\ mode' = "skewed"
  /\ cursor' = Len(file)
  /\ UNCHANGED <<file, synced, opens, promised>>
  /\ UNCHANGED <<scanVars, memVars>>

ScanRecord ==
  /\ mode = "scanning"
  /\ Complete(file, offset)
  /\ entries' = Append(entries, file[offset + 1].entry)
  /\ offset' = offset + RecCells
  /\ UNCHANGED <<fileVars, mode, pos, states, pending, written, todo, target,
                 opens, promised, faults>>

ScanEnd ==
  /\ mode = "scanning"
  /\ offset = Len(file)
  /\ mode' = "rebuilding"
  /\ UNCHANGED <<fileVars, scanVars, memVars, opens, promised, faults>>

\* Mutant of ScanTorn: the torn bytes stay in the file.
ScanTornUncut ==
  /\ mode = "scanning"
  /\ Clipped(file, offset) \/ Garbled(file, offset)
  /\ mode' = "rebuilding"
  /\ UNCHANGED <<fileVars, scanVars, memVars, opens, promised, faults>>

\* Torn: the file is cut at the offset (set_len and sync_data; neither moves the
\* cursor) and the scan ends.
ScanTorn ==
  /\ mode = "scanning"
  /\ Clipped(file, offset) \/ Garbled(file, offset)
  /\ file' = SubSeq(file, 1, offset)
  /\ synced' = offset
  /\ mode' = "rebuilding"
  /\ UNCHANGED <<cursor, scanVars, memVars, opens, promised, faults>>

\* A whole record, or what reads as one, that is not of this log.
Invalid == IF mode = "skewed" THEN Complete(file, offset)
                              ELSE mode = "scanning" /\ Garbled(file, offset)

\* Mutant of ScanInvalid: a mismatch is cut off like a torn tail.
ScanInvalidCut ==
  /\ Invalid
  /\ file' = SubSeq(file, 1, offset)
  /\ synced' = offset
  /\ mode' = "refused"
  /\ NoHandle
  /\ UNCHANGED <<cursor, opens, promised, faults>>

\* WrongVersion, Corrupt, FingerprintMismatch: open returns the error, the file
\* is left as it is.
ScanInvalid ==
  /\ Invalid
  /\ mode' = "refused"
  /\ NoHandle
  /\ UNCHANGED <<fileVars, opens, promised, faults>>

\* rebuild_states, one entry per turn of its loop.
RebuildStep ==
  /\ mode = "rebuilding"
  /\ pos < Len(entries)
  /\ states' = PatchStates(states, entries[pos + 1].table, entries[pos + 1].change)
  /\ pos' = pos + 1
  /\ UNCHANGED <<fileVars, mode, offset, entries, pending, written, todo, target,
                 opens, promised, faults>>

Opened ==
  /\ mode = "rebuilding"
  /\ pos = Len(entries)
  /\ mode' = "ready"
  /\ opens' = IF opens = 2 THEN 2 ELSE opens + 1
  /\ UNCHANGED <<fileVars, scanVars, memVars, promised, faults>>

\* The owner drops a working handle.
Close ==
  /\ mode = "ready"
  /\ pending = <<>>
  /\ mode' = "closed"
  /\ NoHandle
  /\ UNCHANGED <<fileVars, opens, promised, faults>>

-----------------------------------------------------------------------------
(* append, up to its write: the caller's own, or the next compensation.    *)

\* The owner may ask for n records, and they fit under the model's bounds.
MayAppend(n) ==
  /\ pending = <<>>
  /\ Careful => opens = 2
  /\ Len(entries) + n <= MaxEntries
  /\ cursor + n * RecCells <= MaxCells

StartAppend(t, c) ==
  /\ mode = "ready"
  /\ MayAppend(1)
  /\ pending' = <<EntryFor(states, t, c)>>
  /\ UNCHANGED <<fileVars, scanVars, mode, entries, states, written, todo, target,
                 opens, promised, faults>>

\* Mutant of RewindTo: the compensations are collected first entry first.
RewindToForward(seq) ==
  LET start == IF seq < Len(entries) THEN seq ELSE Len(entries)
      n == Len(entries) - start
  IN /\ mode = "ready"
     /\ MayAppend(n)
     /\ todo' = [i \in 1..n |-> [table |-> entries[start + i].table,
                                 change |-> entries[start + i].inverse]]
     /\ target' = start
     /\ mode' = IF n = 0 THEN "ready" ELSE "rewinding"
     /\ UNCHANGED <<fileVars, scanVars, entries, states, pending, written,
                    opens, promised, faults>>

\* rewind_to: a seq past the end is the end.
RewindTo(seq) ==
  LET start == IF seq < Len(entries) THEN seq ELSE Len(entries)
      n == Len(entries) - start
  IN /\ mode = "ready"
     /\ MayAppend(n)
     /\ todo' = [i \in 1..n |-> [table |-> entries[Len(entries) + 1 - i].table,
                                 change |-> entries[Len(entries) + 1 - i].inverse]]
     /\ target' = start
     /\ mode' = IF n = 0 THEN "ready" ELSE "rewinding"
     /\ UNCHANGED <<fileVars, scanVars, entries, states, pending, written,
                    opens, promised, faults>>

StartCompensation ==
  /\ mode = "rewinding"
  /\ pending = <<>>
  /\ pending' = <<EntryFor(states, Head(todo).table, Head(todo).change)>>
  /\ UNCHANGED <<fileVars, scanVars, mode, entries, states, written, todo, target,
                 opens, promised, faults>>

-----------------------------------------------------------------------------
(* FsBackend::append.                                                      *)

\* Some more bytes of write_all reach the file at the cursor.  Beyond the end of
\* the file the gap reads as zeros.
WriteCell ==
  /\ pending # <<>>
  /\ written < RecCells
  /\ file' = [i \in 1..(cursor + 1) |->
                IF i = cursor + 1 THEN RecordCell(pending[1], written + 1)
                ELSE IF i <= Len(file) THEN file[i] ELSE Hole]
  /\ cursor' = cursor + 1
  /\ written' = written + 1
  /\ UNCHANGED <<synced, mode, scanVars, entries, states, pending, todo, target,
                 opens, promised, faults>>

\* Mutant of Appended: the record is never synced.
AppendedUnsynced ==
  /\ pending # <<>>
  /\ written = RecCells
  /\ entries' = Append(entries, pending[1])
  /\ states' = PatchStates(states, pending[1].table, pending[1].change)
  /\ promised' = entries'
  /\ pending' = <<>> /\ written' = 0
  /\ IF mode = "rewinding"
     THEN /\ todo' = Tail(todo)
          /\ mode' = IF Len(todo) = 1 THEN "ready" ELSE "rewinding"
          /\ UNCHANGED target
     ELSE target' = None /\ UNCHANGED <<mode, todo>>
  /\ UNCHANGED <<file, cursor, synced, scanVars, opens, faults>>

\* sync_data returns; append patches the state, pushes the entry and returns Ok.
Appended ==
  /\ pending # <<>>
  /\ written = RecCells
  /\ synced' = Len(file)
  /\ entries' = Append(entries, pending[1])
  /\ states' = PatchStates(states, pending[1].table, pending[1].change)
  /\ promised' = entries'
  /\ pending' = <<>> /\ written' = 0
  /\ IF mode = "rewinding"
     THEN /\ todo' = Tail(todo)
          /\ mode' = IF Len(todo) = 1 THEN "ready" ELSE "rewinding"
          /\ UNCHANGED target
     ELSE target' = None /\ UNCHANGED <<mode, todo>>
  /\ UNCHANGED <<file, cursor, scanVars, opens, faults>>

\* The backend reports an error: append returns it with the memory as it was, a
\* running rewind_to passes it on, and the handle stays usable.
AppendFails ==
  /\ pending # <<>>
  /\ faults < MaxFaults
  /\ \/ written = 0 /\ Faults \cap {"refuse", "write"} # {}
     \/ written \in 1..(RecCells - 1) /\ "write" \in Faults
     \/ written = RecCells /\ "sync" \in Faults
  /\ faults' = faults + 1
  /\ opens' = 0
  /\ IF Careful
     THEN mode' = "closed" /\ NoHandle
     ELSE /\ mode' = "ready"
          /\ pending' = <<>> /\ written' = 0 /\ todo' = <<>>
          /\ target' = IF mode = "rewinding" THEN None ELSE target
          /\ UNCHANGED <<scanVars, entries, states>>
  /\ UNCHANGED <<fileVars, promised>>

-----------------------------------------------------------------------------
(* The environment.                                                        *)

\* The recovery's truncate fails, having cut the file or not: open returns Err.
TruncateFails ==
  /\ mode = "scanning"
  /\ Clipped(file, offset) \/ Garbled(file, offset)
  /\ "cut" \in Faults /\ faults < MaxFaults
  /\ faults' = faults + 1
  /\ opens' = 0
  /\ \/ UNCHANGED <<file, synced>>
     \/ /\ file' = SubSeq(file, 1, offset)
        /\ synced' = IF synced < offset THEN synced ELSE offset
  /\ mode' = "closed"
  /\ NoHandle
  /\ UNCHANGED <<cursor, promised>>

Dies ==
  /\ mode # "closed"
  /\ faults < MaxFaults
  /\ faults' = faults + 1
  /\ opens' = 0
  /\ mode' = "closed"
  /\ NoHandle
  /\ UNCHANGED <<cursor, promised>>

Crash == "crash" \in Faults /\ Dies /\ UNCHANGED <<file, synced>>

PowerLoss ==
  /\ "power" \in Faults
  /\ Dies
  /\ \E n \in synced..Len(file) : file' = SubSeq(file, 1, n) /\ synced' = n

-----------------------------------------------------------------------------

Recover == Open \/ ScanRecord \/ ScanEnd \/ ScanTorn \/ ScanInvalid \/ RebuildStep \/ Opened

Proceed == StartCompensation \/ WriteCell \/ Appended

Next ==
  \/ Recover
  \/ OpenSkewed
  \/ Proceed
  \/ Close
  \/ \E t \in Tables, c \in Change : StartAppend(t, c)
  \/ \E seq \in 0..MaxEntries : RewindTo(seq)
  \/ AppendFails
  \/ TruncateFails
  \/ Crash
  \/ PowerLoss

Spec == Init /\ [][Next]_vars

\* The owner opens a closed log, and a call that is running runs on: nothing in
\* the code waits for anything but the operating system.
FairSpec == Spec /\ WF_vars(Recover) /\ WF_vars(Proceed)

-----------------------------------------------------------------------------
(* Safety.                                                                 *)

\* "An append that returns is on stable storage": whatever fails or crashes
\* between, every log opened later starts with all the entries that were in the
\* log when an append last returned success.
Durable ==
  Serving => /\ Len(promised) <= Len(entries)
             /\ SubSeq(entries, 1, Len(promised)) = promised

\* "Reopening must truncate to the last complete record and yield a consistent
\* log, never an error": no history of appends, failures and crashes makes a
\* journal that open refuses.
NeverRefused == mode # "refused"

\* Between two appends the file holds the records of the entry index and nothing
\* else, so what a reopening would load is what the memory holds.
FileMatchesMemory ==
  Serving /\ pending = <<>> =>
    /\ RecordsIn(file) = entries
    /\ Len(file) = RecCells * Len(entries)

\* "After rewind_to(k), the current state equals state_at(k)", also when the
\* inverses come from a recovered file.
RewindLaw ==
  target # None => states = StateAt(entries, target + Len(todo))

-----------------------------------------------------------------------------
(* Liveness.                                                               *)

\* Once failures stop, an interrupted or running log gets back to where it takes
\* requests: no recovery loops, is refused for good or waits for ever.
ServesAgain == (mode # "ready") ~> (mode = "ready")

-----------------------------------------------------------------------------
(* Refinement: while no handle has an index, the log is what the file's    *)
(* complete records say.  A record completed before a crash or an error    *)
(* that closes the handle is DeltaLog's CrashAfterWrite.                   *)

Indexed == mode \in {"rebuilding", "ready", "rewinding"}

Log == INSTANCE DeltaLog WITH
  entries <- IF Indexed THEN entries ELSE RecordsIn(file),
  states <- states,
  mode <- IF Serving THEN mode ELSE "opening",
  pos <- pos,
  todo <- todo,
  target <- target

\* The journal implements the delta log: nothing a client can observe of it, over
\* crashes, torn writes and reopenings, is outside what DeltaLog allows.
ImplementsDeltaLog == Log!Spec
=============================================================================
