# lean-rust-wasm in TLA+

A verification development for the parts of this repository that keep state
across calls, crashes and failures. It models them in TLA+, checks the models
with TLC on small instances, and proves the central results with TLAPS for
every value of the constants.

Contents: [the system](#the-system) ·
[hard behaviours](#hard-behaviours-and-what-correctness-means) ·
[modules](#modules-and-how-they-correspond-to-the-code) ·
[runs](#what-the-runs-check-and-show) · [fairness](#fairness) ·
[proofs](#proofs) · [findings](#where-the-code-and-its-claims-part) ·
[not modelled](#what-is-not-modelled-and-why) · [plan](#plan)

## The system

Programs written in Lean are compiled to WebAssembly components and run by Rust
hosts; the state they share with the outside is kept in an append-only log of
table deltas. The parts, with their state and their operations:

| part | where | state | operations |
|---|---|---|---|
| delta log | `crates/wasm-delta/src/{log,delta}.rs` | entry index, materialized tables | `open`, `append`, `rewind_to`, `state_at`, `state` |
| journal backends | `crates/wasm-delta/src/log.rs` (`MemBackend`, `FsBackend`) | the file, its cursor, what is on disk | `load`, `append`, `truncate` |
| codec | `crates/wasm-delta/src/{codec,row,value}.rs` | none | encode, strict decode |
| guest heap | `lean/wasm-backend/runtime.wat` | linear memory, two globals | `$alloc`, `$rc_inc`, `$rc_dec`, string routines |
| retained interpreter | `crates/guestlang-rt/src/lib.rs` | a wasmi store and instance | `new`, `call`, `snapshot`, `restore` |
| component host | `crates/guestlang-host/src/{runtime,engine,lib}.rs` | wasmtime store (fuel, epoch deadline), engine epoch, tick threads | `new`, `instantiate(_checked)`, `call` |
| router pattern | `crates/guestlang-host/tests/hot_reload.rs`, `examples/warm_start_event_log.rs` | current runtime, served count, each under a lock | `swap`, `route`, `served` |
| startup gate, schema check | `crates/guestlang-host/src/{schema,hostgen}.rs` | the snapshot parser's open item | compare surfaces, `parse_snapshot`, `validate_committed`, print bindings |
| forge | `crates/forge/src/{main,oci}.rs` | working tree, artifact store, index | `gen`, `--store`, `--check` |
| guests | `crates/splicer-mw`, `crates/guest-demo` | a call counter | demonstration exports |
| oracle runner | `crates/oracle-runner`, `generated/rust/oracle_mirror_generated.rs` | one runtime, the rows still to replay, the failures | `probe`, `explain`, compare and classify outcomes |
| generated machines | `generated/rust/` | a stream of ticks, an order's status | circuit evaluation, the order's step table and typestate |
| binary, DBSP mirror | `src/` | none | command line, a trait over changes |
| Lean packages | `lean/*` | none at run time | compiler, generators, proved theories (machines, dbsp, ledger), tooling |

How they interact: the delta log drives a backend through a three-call
interface and trusts the codec's verdict *torn* / *corrupt* to find the end of a
journal. A compiled guest carries the heap runtime inside its own module; the
interpreter or the component host calls its exports, bounds each call by fuel
(and, in the host, by an epoch deadline on an engine all runtimes share) and, in
the interpreter, copies its memory out and back. The router swaps whole
component runtimes under traffic. The oracle runner drives one such runtime row
by row. Before a host starts it parses the committed snapshot of the universe and
checks it against the contract it was built for. Forge runs the Lean generators
and compares their output with the committed tree; the emitted Rust (circuits,
machines, comparison tables) is meant to be what the Lean sources are.

`vendor/`, `patches/`, `targets/`, `devenv/`, `docs-site/`, `template/` and
`notes/` are third-party, build or documentation files and hold no program
logic.

## Hard behaviours, and what correctness means

* **Crash and recovery of the journal.** A record is written by several system
  calls and synced by another; the process or the machine may die between any
  two, a call may fail half way, and so may recovery itself. Correct: whatever
  `append` returned for is kept (`Durable`); what is reopened is a genuine log,
  equal to what the file's whole records say (`ImplementsDeltaLog`); open never refuses a journal the program wrote
  (`NeverRefused`) and ends (`ServesAgain`).
* **Undo by stored inverses.** `rewind_to` appends inverses that were computed
  when their entries were written, one by one, each append computing an inverse
  of its own; it may stop half way, and be run over its own compensations.
  Correct: every prefix of the loop leaves the state of a past prefix
  (`RewindLaw`), and a client cannot tell the log from a store of snapshots
  (`ImplementsUndoHistory`).
* **Cached state.** Tables are patched in memory by `append` and rebuilt by
  `open`; both must be the replay of the entries (`StatesAreReplay`).
* **Boundaries of the codec.** The verdict on a partial input must be *torn*
  exactly as long as bytes are missing (`NumbersExact`, `VerdictIsFinal`,
  `ScanExact`); typed values must return whatever follows them, and what foreign
  bytes decode to must be a value (`ValuesReturn`); a journal opened under other
  schemas of the same fingerprint must not be misread (`NeverMisread`).
* **The guest's heap.** Free lists threaded through freed objects, counts and
  links in the same word, a bump pointer, growth by one page; a fuel trap can
  cut a call anywhere and the instance is used again; a snapshot restores the
  memory and not the globals. Correct: live objects never overlap (`NoAlias`),
  lists and counts are what the guest's references and frees make them
  (`WellFormed`), blocks come back (`NothingLeaks`), objects lie in memory as far as
  the one page a growth adds was enough (`InMemory`), and strings fill the blocks they were sized for
  (`StringsAreTexts`).
* **Shared clocks, tanks and locks of the host.** Fuel is filled once, the epoch
  deadline set once, every start ticks the epoch of all; `route` holds a lock
  across the guest's call and counts under another, `swap` builds before it locks.
  Correct: a routed call runs on the installed runtime only (`RoutedOnCurrent`),
  every answer is counted once (`EveryAnswerCounted`), what is installed was
  started (`InstalledIsReady`), after a checked start no call of a function of the
  contract finds it missing (`NeverSkewedMidRequest`), every call ends (`EveryCallEnds`).
* **Partial failure in forge.** Jobs fail half way, writes are cut off, the
  driver is killed, the store is damaged, and the tree is regenerated by the very
  check that judges it. Correct: exit 0 means tied (`CleanMeansTied`), a refusal
  means untied (`NoFalseDrift`), the store heals (`StoreHeals`).
* **One runtime for all rows of the oracle.** A trap, a tick or a dry tank fails
  every later row. Correct: a clean probe proves agreement (`CleanProbeAgrees`),
  wrongly blamed rows show the mark of it (`BlameSpreads`), verdicts name what
  happened (`VerdictNames`), texts separate values (`TextsDetermine`), the probe
  ends (`ProbeEnds`).
* **Parsers and emitted code.** A snapshot is refused at its first malformed line
  and never read in part (`SnapshotReadWhole`), what passes the gate is callable
  (`ValidMeansCallable`); incremental and batch circuits agree where sums wrap
  (`IncrementalAgrees`); typestate and step table admit the same lives
  (`TypestateFollows`).

`PROJECT.json` lists each hazard at the line where it bites, with the
properties that would catch it.

## Modules, and how they correspond to the code

    TableDelta ─┬─ DeltaLog ──── (implements) UndoHistory
                └─ DeltaJournal ─ (implements) DeltaLog
    Codec ─┬─ EnvelopeScan ───────────────┐
           ├─ ByteStream ─┬───────────────┤
           │              └─ ValueStream ─┤
           └─ ValueCodec ─┬──────┘        │
                          └─ SchemaSets ──┤
    Snapshot   SnapshotTypes ─────────────┼─ MCStreams
    Circuit ──────┬─ Generated ───────────┤
    OrderMachine ─┘                       │
    GuestString   RowForms ───────────────┘
    HostRuntime ─┬─ HostRouter
                 └─ OracleProbe ── OracleMirror
    GuestHeap    Forge

**TableDelta** — the change algebra of `delta.rs` and the entry of `log.rs`:
`Patch` (`Table::patch`), `Invert` (`invert`), `EntryFor` (the entry `append`
builds), `Replay` (`state_at`'s fold). A row is its key and one opaque value for
all other fields. A `BTreeMap` table is a total function with a value `Absent`.
`StateAt` is the closed form of `Replay` (a row is what the last change on its
key left); invariants and proofs use it, and a run checks that the two agree.

**DeltaLog** — `DeltaLog<B>` over a backend that keeps what it accepts. Actions
`AppendDelta`, `RewindTo` and `Compensate` (one turn of its loop),
`RewindAborts` (a compensation's append fails), `Reopen`, `CrashAfterWrite` (the
record got there, the caller was never told), `RebuildStep`, `Opened`. Requests
that validation rejects change nothing and are stuttering steps.

**UndoHistory** — the abstract specification: whole states, a write that changes
one row, an undo that copies past states back. `DeltaLog!ImplementsUndoHistory`
is the refinement.

**DeltaJournal** — the log over `FsBackend`. The file is a sequence of cells,
`RecCells` per record, so that writes and crashes stop inside a record. The
handle's `cursor` is explicit because `set_len` does not move it. `Open`,
`ScanRecord`, `ScanEnd`, `ScanTorn`, `ScanInvalid`, `RebuildStep`, `Opened` are
`open_with`; `StartAppend`/`StartCompensation`, `WriteCell`, `Appended` and
`AppendFails` are one `append` from its checks to its return; `TruncateFails`,
`Crash` and `PowerLoss` are the environment, and `OpenSkewed` is a program built
for other schemas, which is refused. `synced` is the length of the
prefix on stable storage; power loss keeps any prefix at least that long. What a
garbled tail makes the decoder say is a choice between torn and refused;
EnvelopeScan decides which happens for runs of zeros. `MemBackend` is the same
model with `RecCells` written at once and no faults, and adds no behaviour.
`Careful` says how the owner of a handle behaves, which is not part of the
library: a careful owner drops the handle after an append error and opens twice
before it appends again.

**Codec** — `dec_varnat`, `dec_bytes`, `dec_envelope_prefix` and their encoders,
operator by operator, over a word of `WordBits` and digits of `DigitBits` (64
and 7 in the code). `Shifted` drops the bits shifted past the word, as
`checked_shl` does; `DecVarnat` says of the loop what it has after each turn (`Sums`)
and which turn returns. The recursions of Codec are functions, so that it can be proved about.
**ValueCodec** adds the typed codec of `value.rs` and
`row.rs` and the entries of `log.rs`: types of one kind share a case (`"u16"` is
every unsigned type narrower than a word, `"i16"` every signed one), and narrow
signed numbers are cast as Rust's `as` does (`AsNarrow`). **ByteStream** feeds the
decoders of Codec one byte at a time, and **ValueStream** those of typed values and
changes with them. **EnvelopeScan** runs the recovery loop over real
bytes: whole records, a torn last one, or a gap of zeros left by a stale cursor;
`DeltaError` is what a reader makes of the decoder's verdict. The codec of the entries is
its parameter (`EncEntry`, `DecEntry`; ValueCodec's in the run), of which it assumes that a
payload returns its entry (`ScanAssumption`).
**SchemaSets** registers tables in two schema sets, the one a journal was written
under and the one it is opened with; `FingerprintText` is what
`SchemaSet::fingerprint` hashes. `EntriesOf` has every entry `append` can log for a
table: an insert or an update whose inverse removes the key or puts an old row back,
and a removal whose inverse is itself or inserts the old row.

**HostRuntime** — `ComponentRuntime` of `guestlang-host`: a tank filled once
(`New`), a deadline set once, of which only matters whether the epoch moved since
(`overdue`), the typed exports of a component (`Exports`) and its
surface (`SurfaceOf`), which a checked start compares with the committed one
(`Contract`, `VerifySurface`), the result types a call has placeholders for
(`Placeholders`, from `default_val`; an export with another result is refused at
every call, which a checked start does not rule out), and the rule of wasmtime that an
instance which trapped is not entered again. Only the components `WithStart` run code
when they are instantiated, and only those can be refused by a dry tank or a passed
deadline at their start (`MayStart`). `Tick` is the thread `instantiate` starts and
nobody joins. Its operators are parts of actions; **HostRouter** and
**OracleProbe** make actions of them. In HostRouter tasks swap (`Build`, `Start`,
`Started` or `StartFails`, `Install`), route (`Route`, `Enter` or `RoutePanics`,
the call, `Count`) and call a runtime they were handed (`CallOld`), or one they have
not started (`CallNotInstantiated`). A call ends in `CallReturns`, in `CallTraps`, which
the instance does not survive, or in an error it does survive: `CallMissing`,
`CallUnsupported`, and `CallRefused`, for arguments of another number or type. A step
ends at every await. `lock` is the mutex of `current`; that of `served` is held without an
await and is the step `Count`. Guest code is `Compute`, `Sleep` and `Wake`.
`answers` and `ticked` are history. **OracleProbe** replays a manifest's rows:
`RowReturns`, `RowTraps`, `RowMissing`, `RowArgs` (an argument does not parse and
the run ends), `StreamFails`; what it compares with is **OracleMirror**, the two
tables of `oracle_mirror_generated.rs` folded from the first row on. **RowForms**
is `ser_val` and the argument builders.

**Forge** — `forge` with its job loop, the generated stage machine (`Step`), the
store and the index. A file is a header stamp and a body; a digest is the file
itself. `Jobs` are those of
the manifest that is itself an artifact (`Listed`) and those of the other
(`Unlisted`). They are external: they write all their outputs, or fail or die with some
written, or all, and at most one cut. A write to the store that fails leaves the blob
as it was, or cut (`StoreFails`). `GenJob`, `GenEnds`, `StoreBegins`, `StoreBlob`, `VerifyAll`,
`WriteIndex` are `gen --store`; `CheckJob`, `CheckFails`, `CheckEnds` are
`--check`; `Begin` loads the manifests, one of which is an artifact a job writes.

**Snapshot** — `parse_snapshot` line by line, with the open item and the 1-based
line of the error, its items (`Item`, `FuncSem`), `surface` and the contract check. The
parser of type texts is its parameter (`ReadTy`, `WriteTy`), of which it assumes that it
takes the legal texts, loses nothing and tells a reference, by its name, from every other
type (`GateAssumption`). `Callable` says of the lines alone what the gate promises about
them. **SnapshotTypes** has the
code's, with its recursion and depth limit, and the format it is a parser of; the run
puts it in the parameter's place and checks the assumption on every type text of its
lines. **Circuit** is the circuit evaluator over wrapping integers: a
value is a function from the paths of its leaves, a node an operator from streams to
streams. **OrderMachine** is the step table and the typestate of an order, and
**Generated** sets the two side by side.

**GuestString** — `$string_oflist` with its two passes, `$string_cat`,
`$string_eq`, `$string_len` of `runtime.wat`.

**GuestHeap** — `$alloc`, `$rc_inc`, `$rc_dec` of `runtime.wat` inside the
retained instance of `guestlang-rt`. `mem` holds the words at list heads and
block starts, `class` the class byte; the link of a free block and the count of
a live one are the same word, as in the code. `$alloc` is `Pop`, or `Bump`,
`Grow`, `InitHeader`; `$rc_dec` is `RcDec` and `Push`; they are split where fuel
can run out. `OutOfFuel`, `OutOfMemory` and `OutOfBounds` abandon the call: what
it held is in `lost`. `Restore` is a snapshot restored into a fresh instance:
the memory is kept, `$heap` and `$heap-end` start again. The guest is any
program that holds up to `Objects` objects and only decrements what it holds;
what it stores in them is left out. `blocks`, `pool` and `lost` are ghosts.

Each `MC*` module extends its module with what TLC needs, a symmetry set or the
payloads, and nothing else; **MCStreams** sets the sequential readers side by
side, one of them at work in a behaviour. Definitions called `…Forward`,
`…OneShort`, `…Inverted` and the like, each marked "Mutant", are deliberate bugs:
putting one in the place of the definition it varies must break the property
`PROJECT.json` names, which shows that the property depends on it.

## What the runs check and show

| run | instance | what it shows |
|---|---|---|
| `delta_log` | 2 tables, 1 key, 2 values, 4 entries | `StatesAreReplay`, `InversesRestore`, `RewindLaw`, `ReplayAgrees`; DeltaLog implements UndoHistory |
| `journal_refines` | 1 table, 1 key, 2 values, 4 entries of 3 cells, 2 faults: crashes, every I/O error, opens under other schemas | `FileMatchesMemory`; DeltaJournal implements DeltaLog, careful owner |
| `journal_power` | the same, with power losses, fair | `Durable`, `NeverRefused`, `RewindLaw`, `ServesAgain`, careful owner |
| `streams` | see below | `ScanExact`, `NumbersExact`, `ValuesReturn`, `VerdictIsFinal`, `NeverMisread`, `SnapshotReadWhole`, `ValidMeansCallable`, `IncrementalAgrees`, `TypestateFollows`, `StringsAreTexts`, `TextsDetermine` |
| `host_router` | 2 tasks, 2 runtimes, 2 components, 2 functions, fuel 2 | types, `RoutedOnCurrent`, `EveryAnswerCounted`, `NeverSkewedMidRequest`, `InstalledIsReady`, `EveryCallEnds` |
| `forge` | 2 jobs, one writing the manifest that lists it; 3 runs, 1 edit, 2 versions, 2 stamps | types and stages, `CleanMeansTied`, `NoFalseDrift`, `StoreHeals` |
| `oracle_probe` | manifests of up to 4 rows of 8 kinds, at least 2 asked for, fuel 3 | `CleanProbeAgrees`, `BlameSpreads`, `VerdictNames`, `ProbeEnds` |
| `guest_heap` | 3 objects, 2 classes and two oversized sizes, one longer than a page, 2 pages | `NoAlias`, `WellFormed`, `NothingLeaks`, `InMemory`, with traps and with clean snapshots |
| `recover_then_append` | crash only, no second open | `NeverRefused` fails |
| `retry_after_torn_write` | failing writes, handle reused | `Durable` fails |
| `idle_runtime` | as `host_router` | `InterruptedOnlyByATick` fails |
| `restored_heap` | a snapshot with a block on a free list | `NoAlias` fails |

Why these bounds are enough. *delta_log*: an inverse depends on one key of one
table, so one key suffices for its arithmetic, two tables show that one does not
disturb the other, two values separate insert, update and no-op; four entries
hold a write, a rewind over it, a rewind over the compensation, and one more.
Beyond four the proofs take over. *journal*: three cells give a first, a middle
and a last write of a record, with a cut before and after each; two faults give
a failure during the recovery from a failure. *guest_heap*: three objects are the
least for a freed block between two live ones; sizes 8, 9 and 16 cover the
smallest and both ends of a class, 24 and 32 are oversized and multiples of the
granule; 24-byte pages make a block straddle a page and need a growth, and a block of
32 bytes longer than what a growth adds, so that it ends past the memory; two pages
reach a failing growth; addresses to 64 hold up to seven blocks. `WordMod` (2^32 in the
code) is only there so that counts wrap. *host_router*: a second task to swap
while the first routes, a second runtime to swap to; two units of fuel let a call
compute and then run dry, or return and leave a runtime that refuses the next.
*forge*: an edit between runs, a run that damages, and one that judges; the
manifest among the artifacts, since the driver reads what it writes. *oracle_probe*:
three units of fuel are fewer than the rows, so a tank runs dry inside a manifest.

*streams* bounds each reader on its own. Words of 7 bits in digits of 2 take four
digits, the last with one bit too many, as ten seven-bit digits have six too many
for 64 bits; narrow numbers have 3 bits (`NarrowBits`), so a word does not fit.
Streams have 5 bytes (`MaxBytes`): past the digit limit, and an envelope with a
payload. Journals have 3 records (`MaxRecords`) and gaps up to 4 bytes (`MaxGap`),
with a fingerprint of several digits so that a cut falls inside every field.
Snapshots have 5 lines (`MaxLines`), enough for a type and a function that uses
it, from lines of every kind, malformed ones among them, and every text one lexeme away from five type texts; the
depth limit is 2 (`MAX_TY_DEPTH`), which the deepest text exceeds. Circuits run 5
ticks (`MaxTicks`) modulo 16 (`Modulus`), so that squares and sums wrap. Orders see 6
events (`MaxEvents`): a whole life, a reset and another start. Schema sets have
two tables of one or two fields with names that run together, numbers for keys.
Strings have up to 3 characters (`MaxChars`) from both ends of each of the four
lengths of UTF-8. Result types have 2 constructors (`MaxDepth`) around a scalar:
options in lists, lists in records.

Deadlock is checked except where the system really stops: in `streams` a reader
has its input, in `forge` the runs are used up, in `oracle_probe` the probe ended,
and in `host_router` and `idle_runtime` every task may have panicked. `guest_heap` sets `FreeOversized = FALSE`: the runtime's header
says that blocks past the largest class never free, and `$rc_dec` does not enforce
it (see below); its oversized sizes are multiples of the granule, where the code
rounds neither sizes nor the bump pointer; and `CleanImages = TRUE`: snapshots with
empty lists only. All three are what the code needs, not what it checks: `NoAlias` is
violated with `FreeOversized = TRUE`, with 20 among the sizes, and in `restored_heap`.

## Fairness

*journal_power*: `FairSpec` has weak fairness on `Recover`
(someone opens a closed log, and the scan and rebuild loops go on) and on
`Proceed` (a running `append` or `rewind_to` goes on). The code is sequential and
waits for nothing but the operating system, so a call that has started returns.
That a closed log is opened again is an assumption on the owner. Nothing makes
clients write, and faults need no fairness: they are bounded by `MaxFaults`, so
`ServesAgain` says that once they stop the log serves.

*host_router*: a task that can go on does (weak fairness on the steps of guest
code and on the count: the executor runs what is runnable), and the mutex of
`current` is handed to its waiters in order, as tokio's is (strong fairness on
taking it). Nothing makes a tick come or a sleeping guest wake: `EveryCallEnds`
rests on fuel alone, and excepts the time some guest waits in a host call.

*oracle_probe*: weak fairness on the driver's own steps. It waits for nothing but
guest code, which fuel ends.

## Proofs

Checked by TLAPS, for every value of the constants: eight modules, one for
each component. 33 of the 40 properties the passing runs check are theorems too.

| module | theorems | from |
|---|---|---|
| `DeltaLog_proofs` | `TypeCorrect`, `ReplayCorrect`, `InversionCorrect`, `RewindCorrect`, `QueueCorrect`, `LogIsAppendOnly`, `StateAtCorrect`, `LogImplementsUndoHistory` | `Absent` is no value, `MaxEntries` a natural number |
| `DeltaJournal_proofs` | `JournalTypes`, `FileIsIndex`, `PromisesKept`, `OpenNeverRefuses`, `JournalRewinds`, `JournalImplementsLog` | a careful owner, records of at least two cells |
| `Codec_proofs` | `StreamOfBytes`, `NumbersRight`, `FramesFinal`, `ScanRight` | digits of at least one bit, words wider than a digit; for the scan a version that is not 0, payloads that return their entry |
| `GuestHeap_proofs` | `HeapInvariant`, `HeapWellFormed`, `HeapNoAlias`, `HeapNothingLeaks`, `HeapInMemory` | clean images; behaviours in which every block begins on a granule and no oversized one is given up |
| `HostRouter_proofs` | `TypeCorrect`, `RoutedOnCurrentHolds`, `InstalledIsReadyHolds`, `CheckedSurface`, `EveryAnswerCountedHolds` | fuel at least one, finitely many tasks |
| `OracleProbe_proofs` | `ProbeInvariant`, `CleanProbe`, `BlameOnlySpreads`, `VerdictsName` | `MaxRows` a natural number |
| `Forge_proofs` | `DriverInvariant`, `DriverTypes`, `VerdictsRight`, `DriftIsReal`, `StoreIsHealed` | every artifact has one job |
| `Streams_proofs` | `SnapshotRight`, `ContractHolds`, `IncrementalNeverDrifts`, `TypestateNeverDrifts`, `GuestStrings` | a type parser that takes the legal texts, loses nothing and tells references from the rest; any modulus, any inputs; characters of 21 bits at most |

Induction over an operator is out of the provers' reach, so what must be shown of
every position of a sequence is had from the least position at which it would fail,
a well-founded minimum. The greatest element of a set of positions (`LatestIsTop`),
the fold of `Replay` (`ReplayAgrees`), the first of two differing payloads
(`VerdictNames`), the sums of a stream (`IncrementalAgrees`) and the walk along an
order's methods (`TypestateFollows`) are all found that way.

*DeltaLog_proofs* begins with the change algebra: `LatestInSet` and `LatestIsTop` (the
last writer of a key exists and a newer one takes over), from which `StateAtStep` (the
state of prefix n + 1 is that of prefix n, patched by entry n + 1) and `StateAtPrefix`
(it depends on the prefix only). `InvertRestores`: a change and the inverse computed
from its pre-image are the identity on all tables. `EntryForCorrect` puts this in the
form `append` uses. The inductive invariant is

    IInv == TypeOK /\ Shape /\ StatesAreReplay /\ InversesRestore
                   /\ RewindLaw /\ TodoIsSuffixUndone

Few of its parts are inductive alone. `RewindLaw` over a `Compensate` step needs
that the head of the queue is the inverse of exactly the entry being undone
(`TodoIsSuffixUndone`), that this inverse restores (`InversesRestore`), and that
the state it is applied to is the replay (`StatesAreReplay`); `InversesRestore`
over an append needs `StatesAreReplay`, since the inverse is computed from the
cached tables; `Shape` ties `mode`, `pos`, `todo` and `target` together. One lemma
per action (`AppendDeltaKeeps`, `RewindToKeeps`, `CompensateKeeps`, …) carries it
over each step. `StateAtCorrect` shows that `state_at`, a fold, answers with the
closed form the invariant uses. `LogImplementsUndoHistory`: initial states map to
initial states; each action, under IInv, maps to `Write`, `BeginUndo`, `UndoOne`,
`Interrupted` or a stutter.

*DeltaJournal_proofs*: the invariant has two halves,

    IInv == JInv /\ LogP!IInv
    JInv == TypeOK /\ FileOK /\ HandleOK /\ OpensOK /\ PendingOK /\ PromiseOK

`LogP` is DeltaLog's proof module, of the log the refinement mapping finds in the
journal (`Kept`: the index, or what the file says of it while there is none). `FileOK`
says that the file holds the records of that log and at most the beginning of one
more, in every mode and half way through an append; `OpensOK` that the second open
since a failure has nothing to cut, so its cursor is at the end of the file, which is
why a careful owner's append never lands past a gap. A file is the journal of one log only
(`RecordsUnique`), and a prefix of it, where a crash may leave it, is the journal of a
prefix (`PrefixJournal`). Every step of the journal is one of DeltaLog's or a stutter, so
the second half is carried over by DeltaLog's own lemmas, and `JournalImplementsLog`
follows; `LogP!IInv` also gives `RewindLaw` to a rewind over entries that a recovery
read back. Hypotheses: `Careful` throughout (the runs `recover_then_append` and
`retry_after_torn_write` show that without it `NeverRefused` and `Durable` fail); no
opening under other schemas for `NeverRefused`, which such an open breaks by
design; no loss of power for the refinement (see
[not modelled](#what-is-not-modelled-and-why)).

*Codec_proofs*, numbers and frames: the stream holds bytes, and everything else is about the functions
of Codec. The recursive ones (`Pow2`, `EncVarnat`, `Sums`) are first shown to have
values at all (`Recursion`, `EncExists`: a computation up to one position extends to the
next). `Bounds`: the digits before the i-th make less than the place of the i-th. So no
bit is lost before the last digit (`NothingLost`), and at the last one, where digits may
have more bits than the word has left, what is kept still leaves its place free and the
sum is a word (`LastSum`): the refused shift and the overflow that `dec_varnat` guards
against are never met, a digit too many always comes first (`OnlyDigitsFail`). With that
each answer is one of three (`VarnatAnswer`). `EncWrites`: what `enc_varnat` writes spells
its argument and has no digit to spare, so a word fits the digits there are
(`WordReturns`). `VarnatFinal`, `BytesFinal` and `EnvelopeFinal` compare a stream with
a longer one.

*Codec_proofs*, the scan: a record is read back whatever follows it (`RecordAhead`), a
part of one is torn (`RecordCut`, from `EnvelopeFinal`: a verdict on the part would be
the verdict on the whole), and zeros in front of one shift its numbers by as many places
(`GapReads`). The inductive invariant is

    ScanInv == ScanTypes /\ Layout /\ Contents /\ Extent /\ Passed /\ Stopped

`Layout` and `Contents` say where the file has which record's bytes, cut or not, `Extent`
how much of it there is, and `Passed` that what the scan is past are the first
records, in order, and no gap: the offset is always where a record or the gap begins, so
no byte in the middle of a record is ever read as the start of one. `Stopped` says
why it stopped; that it then has found every whole record (`FoundWhole`) and where it
cut the file is `ScanExact`. What the invariant leaves open is the fate of a gap when
the last record is cut too, which depends on where; `GapVerdict` says nothing of it either.

*GuestHeap_proofs*: the inductive invariant

    IInv == TypeOK /\ BumpSane /\ BlocksOK /\ OneOwner /\ ListsSpellPools /\ RcIsRefs

`WellFormed` says that counts and lists in memory are what the guest's references and
frees made them (`RcIsRefs`, `ListsSpellPools`). It is not inductive: a `Pop` hands
out a block that must not be live, listed or half pushed already (`OneOwner`) and
must be long enough for every size of its class; that in turn needs blocks to be
disjoint, aligned and as long as their class byte says (`BlocksOK`), and so the bump
pointer to be aligned (`BumpSane`). `NoAlias` follows from `BlocksOK` and `OneOwner`;
`NothingLeaks` is
inductive over IInv; `InMemory` needs `Extent`, how far the memory reaches below the
first block longer than a page and the first bump a trap cut short (`Steady`).

The theorems are `CleanImages => (Spec /\ []Tidy => []...)`. They hold for every set
of sizes, requests of more than a page and unaligned ones included, but only of the
behaviours that are `Tidy` throughout: every block begins on a granule, and no
oversized block has been given up. That is a condition on the guest which nothing
checks and which guests break: `$string_cat` and `$string_oflist` ask for 16 bytes and
the contents, so a string of 85 bytes is an oversized block after which the bump
pointer is off the granule, and `$rc_dec` pushes any block whose count reaches zero.
`CleanImages`, snapshots with empty lists, is a condition on the host which nothing
checks either. Outside these conditions `NoAlias` is false (`restored_heap`, and the
list of [observations](#where-the-code-and-its-claims-part)). `Tidy` says nothing of
what the allocator does with the blocks: that they lie apart, are as long as their
class and belong to one owner is what the proof shows.

*HostRouter_proofs*: the inductive invariant

    IInv == TypeOK /\ Shapes /\ RoutedOnCurrent /\ InstalledIsReady
                   /\ CheckedSurfaceHolds

`CheckedSurfaceHolds` says that a runtime whose start was checked has the committed
surface in its exports; no step takes it away, a start that fails after the check
included, so a `CallMissing` on such a runtime is of no function of the contract
(`CheckedSurface`). `Shapes` says what a task holds at each of its steps and in which phase the
runtime in its hands is; without it an `Install` could install what was never
started. `RoutedOnCurrent` carries that a runtime is in one pair of hands, which
is what keeps a swap from installing the runtime another task is still building.
`EveryAnswerCountedHolds` is inductive over IInv by itself: its lemmas are about how
the cardinality of the tasks that have yet to count changes, and `Tasks` must be
finite for it.

*OracleProbe_proofs*: the inductive invariant

    IInv == Types /\ Queue /\ Phase /\ Blame /\ Spoilt /\ BlameSpreads

`Queue` says that the rows left are an end of the rows asked for; `Blame` that a
failure is about a replayed row and a replayed row without one is answered as
expected; `Spoilt` that whoever blamed a row wrongly has a runtime that trapped,
which never answers again, so blame spreads to all rows that follow. `VerdictNames`
rests on the comparison tables: in every mode and for every pair of outcomes the
first matching row is named (`FirstRow`, `CompareIsArms`), and it is the one of Lean.

*Forge_proofs*: the inductive invariant

    IInv == Types /\ Shape /\ GenSoFar /\ CheckSoFar /\ StoreSoFar
                  /\ CleanMeansTied /\ NoFalseDrift /\ StoreHeals

The verdicts are about a run that ended; `GenSoFar`, `CheckSoFar` and `StoreSoFar` say
what holds of the jobs and pairs done so far. `CheckSoFar` is the delicate one: a check
regenerates the tree it judges, so it must say that an artifact whose job is still to
run is as the check found it. No bound on runs and edits is used.

*Streams_proofs*, the snapshot gate: the inductive invariant

    GateInv == GateTypes /\ GateStands /\ SnapshotReadWhole

`GateStands` says that what is understood is written in lines of the file's kind and
that the last line read tells which item is open and how far it is (`LastToken`). The
first makes every action add to the text understood the line it read (`MemberAdds`,
`RetAdds`, `SemAdds`, `NewItem`); the second makes the parser's guards, which look at
the open item, agree with the format, which looks at the line before
(`Judged`, `EndJudged`), so that the line refused is the first that breaks it. At the
end of the file the error names the last line that is not blank, where the text still
is all there is (`LastLine`).

What passes the gate can be called (`ContractHolds`), with the inductive invariant

    ContractInv == GateInv /\ ValidMeansCallable
                   /\ every item is made of lines the parser took
                   /\ status = "parsed" => cur = <<>>

The host counts the slots of a function on the items it parsed, the property counts them
on the lines of the file. `LaidOut` says where in the lines each item lies, for files of
any number of items; so the headers of the lines are the items (`Headed`), the lines of a
member's kind behind one are that item's members (`RunIs`), and the first header of a
name is the first item of it (`FoundHeader`), which is what a reference resolves to on
either side (`SlotsAgree`). The two sums then have the same terms (`ArityAgrees`), and
what is reported as covered are the named functions, each once (`Picked`, `CoveredIs`).

*Streams_proofs*, the emitted Rust: what a stream holds are the numbers modulo `Modulus`, a group that
doubling respects (Lean's proof is over unbounded integers); from that, that a batch
circuit's change is what the incremental circuit emits, tick by tick, and the laws of
sums, pairs and feedback. For the order, `LifeInv` names the value each call of a
method returned.

*Streams_proofs*, guest strings: the passes and the reading back are recursive functions,
each shown to be what one more character or byte makes of it (`CountedIs`, `BytesAre`,
`DecodedIs`, and from them `EncodedAppend` and `DecodedAppend`), so that what holds of
every chain is had by lengthening it (`Lengthen`). `CharacterRead` is the heart: whatever
was read before, the one to four bytes of a character are read as its bits, none lost and
none shared (`Bits`). From `ChainRead` equal bytes have equal texts (`StringsEqual`), and
from `EncodedConcat` the halves of a text make its string.

Only model-checked:

* the liveness properties, which are beyond the prover: `ServesAgain`,
  `EveryCallEnds`, `ProbeEnds`;
* the readers written with recursive operators, which the prover does not see
  through (ValueCodec, ValueStream, SchemaSets, SnapshotTypes, RowForms):
  `ValuesReturn`, `VerdictIsFinal` for typed values and changes (`FramesFinal` is its
  other half), `NeverMisread`, `TextsDetermine`.

## Where the code and its claims part

1. `recover_then_append` — after recovery of a torn tail the handle's cursor is
   still at the old end. The first append leaves a gap of zeros and the next
   open refuses the whole journal, or, for a gap of one byte, silently drops what
   follows (`GapVerdict`). `tests/crash_recovery.rs` reopens once more before it
   appends, which hides this.
2. `retry_after_torn_write` — a `write_all` that fails half way leaves its bytes
   and a usable handle; a retry that returns success is lost at the next open.
3. `idle_runtime` — the epoch deadline is one tick past the epoch of the
   construction, and every instantiation of any runtime starts a thread that ticks
   for good. A runtime built before the last tick is interrupted at its next call,
   however short, and is dead from there on: a router that swapped to a fresh
   runtime leaves the old one unusable after one tick, where the comments and the
   hot-reload test call the increments harmless and the old runtime functional.
4. `restored_heap` — after `Snapshot::restore` the free lists are those of the
   image and the bump pointer is not. If the image has a free block, an
   allocation of its class pops it and another carves the same bytes again. The
   tests call functions that hold too few objects to notice.

Observed while modelling, and not claimed by a run:

* An oversized block advances the bump pointer without rounding; the pooled block
  after it may be shorter than its class and, reused, overlap its neighbour. The
  allocator proved in Lean rounds every size. Every string of more than 80 bytes whose
  length is not a multiple of 16 is such a block. Freeing an oversized block
  pushes it on a list whose head is the word at address 1020, inside the heap
  (`FreeOversized = TRUE` breaks `NoAlias`).
* `$alloc` grows the memory by one page whatever it was asked for
  (runtime.wat:69-84 and :102-117). `$string_cat` and `$string_oflist` ask for
  16 bytes and the contents, without a limit, so a request of more than 64 KiB may be
  given a block that ends past the memory: `$alloc` returns it, and the trap comes
  when the guest writes there, if it does. `$heap-end` stays behind, so later blocks
  are past the memory too. `InMemory` without its condition on `CutBumps` and long
  blocks is violated in `guest_heap`.
* A trap between the bump and the growth leaves the bump pointer ahead of the
  memory for good, so `InMemory` says nothing of the blocks above; a
  restored instance with several pages grows again for memory it already has.
* Comments say that a tensor without dimensions is written `tensor(;elem)`
  (hostgen.rs:359-360, Snapshot.lean:89 and :360). The printer writes `tensor(elem)`,
  the tests pin it (hostgen.rs:865 and :885, SnapshotRT.lean:262), and both parsers
  refuse the comments' text. `SnapshotReadWhole` takes the printer's format for the
  legal one, so the refused text is a malformed line of the run.
* The tenth digit's excess bits are dropped by `checked_shl`: a number beyond 64
  bits is accepted with a smaller value, where the comments promise *corrupt*.
  Only foreign bytes hold one.
* A failed sync leaves a record in the file that the memory lacks; an owner who
  goes on from there can lose `RewindLaw` after the next open.
* With lists of bytes for keys, two schema sets of one fingerprint can misread
  each other's entries: an item of the key is taken for the tag of the inverse.
  `NeverMisread` is checked with numbers for keys.
* `ser_val` prints every stream alike, and texts inside lists and records with
  characters of the form's own; `TextsDetermine` says nothing else collides.
* A failed index write is printed and the run exits 0, with labels that are stale or
  gone; no property covers it (`StoreHeals` is about blobs).
* Forge's list of jobs is an artifact: cut to nothing it lists no jobs and a check
  is clean; cut inside, every command refuses and no run can repair it.
  `CleanMeansTied` is about the jobs that were listed.

## What is not modelled, and why

* The hash behind a fingerprint, a digest or a surface: two texts that hash alike
  by chance. That two different schema sets have one text is modelled.
* `state` returning none for an unknown table as opposed to an empty one, and the
  wording of errors.
* Power loss in the refinement of DeltaLog: `open` does not sync what it reads,
  so a record loaded once can be gone at the next open. `Durable`, which covers
  the appends that returned, is what holds.
* The arrays and adapters of `runtime.wat`, and what objects contain;
  the engine configuration, import linking and argument coercion of
  `guestlang-rt` and `guestlang-host`, the pool's limit of instances (a start may
  fail at any time, `StartFails`) and the capabilities of the host state.
* The content of what forge generates (a body is its artifact and the version of
  its sources), two drivers at once, and edits while one runs.
* The text `hostgen` prints, the drain of a stream's items in the oracle (one
  step), its flags and output formats.
* The generated updates, invariants, generators and change enums: straight-line
  code that only tests call.
* The compiler, generators, schema and query languages and the tooling in
  `lean/`: pure functions on trees and text; where they matter they are proved in
  Lean.
* The demonstration guests, the command line and the DBSP trait: they keep no state
  of their own, but for a call counter.

## Plan

Done, in this order: the delta log and its proofs, the journal over it, the codec
and the recovery scan, the guest heap, the host's runtimes and router with
proofs, forge, the oracle, the snapshot gate, the emitted circuits and machines,
strings; then the proofs about the journal and its refinement, the heap, forge, the
oracle, the emitted Rust, the codec, the recovery scan, the snapshot gate and guest strings. What is left, the most useful first:

1. The codec of typed values without recursive operators, so that the assumption
   `ScanRight` makes of the entries' codec becomes a theorem (`ValuesReturn`).
2. The driver of the oracle before its first row: flags, malformed manifests, the
   lookup of `explain`.
3. The session and synchronisation machines of `lean/Machines`, once Rust code
   runs them.
