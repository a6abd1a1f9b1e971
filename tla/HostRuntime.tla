---------------------------- MODULE HostRuntime -----------------------------
(***************************************************************************)
(* The runtimes of one engine (crates/guestlang-host/src/runtime.rs,       *)
(* engine.rs, schema.rs).  A runtime is a store with a fuel tank, filled   *)
(* once, and an epoch deadline, set once; every instantiation starts a     *)
(* daemon thread that advances the epoch of the whole engine for good.     *)
(*                                                                         *)
(* The deadline is one tick past the epoch at construction, so all that    *)
(* matters of the epoch is whether it moved since: overdue.  Guest code    *)
(* that runs overdue or without fuel traps (wasmtime), and an instance     *)
(* that trapped is never entered again (wasmtime).                         *)
(*                                                                         *)
(* The actions here say what an operation does to its runtime; who runs it *)
(* and when is HostRouter's.                                               *)
(***************************************************************************)
EXTENDS Naturals, FiniteSets, SequencesExt

CONSTANTS
  Runtimes,     \* runtimes the process can build
  Components,   \* loaded components
  Functions,    \* export names
  Exports,      \* [Components -> [Functions -> FuncType]], NoExport where there is none
  Expected,     \* the entries of the host's committed surface: <<function, arity>>, or
                \* <<text>> for what does not parse
  WithStart,    \* components that run code when they are instantiated
  NoExport,     \* stands for "no such export"
  Fuel          \* DEFAULT_FUEL

\* A component type, as far as it is looked at: its constructor, the number of its fields
\* if it is a record, and the constructors default_val reaches in it, through options and
\* records.
Type == [kind : STRING, fields : Nat, within : SUBSET STRING]
FuncType == [params : Seq(Type), results : Seq(Type)]

ASSUME RuntimeAssumption ==
  /\ Exports \in [Components -> [Functions -> FuncType \cup {NoExport}]]
  /\ WithStart \subseteq Components
  /\ Fuel \in Nat \ {0}

\* What parse_surface makes of an entry: a name and a number.
ASSUME SurfaceAssumption ==
  /\ \A e \in Range(Expected) : Len(e) = 2 => e[1] \in Functions /\ e[2] \in Nat
  /\ NoExport \notin Nat

VARIABLES
  ticking,    \* an epoch thread was started; none is ever joined
  rt          \* the runtimes

hostVars == <<ticking, rt>>

Phases == {"unbuilt", "closed", "ready", "dropped"}

\* closed: built, its instance is None.
NoExports == [f \in Functions |-> NoExport]
Unbuilt == [phase |-> "unbuilt", fuel |-> 0, overdue |-> FALSE, trapped |-> FALSE,
            exports |-> NoExports, checked |-> FALSE]

RuntimeType ==
  [phase : Phases, fuel : 0..Fuel, overdue : BOOLEAN, trapped : BOOLEAN,
   exports : {NoExports} \cup {Exports[c] : c \in Components}, checked : BOOLEAN]

HostTypeOK == ticking \in BOOLEAN /\ rt \in [Runtimes -> RuntimeType]

HostInit == ticking = FALSE /\ rt = [r \in Runtimes |-> Unbuilt]

-----------------------------------------------------------------------------
(* Construction and instantiation.                                         *)

\* ComponentRuntime::new: fuel and deadline are set here and nowhere else.
New(r) ==
  /\ rt[r].phase = "unbuilt"
  /\ rt' = [rt EXCEPT ![r].phase = "closed", ![r].fuel = Fuel]
  /\ UNCHANGED ticking

\* start_epoch_thread's loop: increment_epoch passes the deadline of every store there
\* is.  A store built later starts from the new epoch.
Tick ==
  /\ ticking
  /\ rt' = [r \in Runtimes |-> IF rt[r].phase \in {"closed", "ready"}
                               THEN [rt[r] EXCEPT !.overdue = TRUE] ELSE rt[r]]
  /\ UNCHANGED ticking

\* An argument rides as a record's fields, as a variant's discriminant and payload, or as
\* one slot.
FlatArity(ty) ==
  CASE ty.kind = "record" -> ty.fields
    [] ty.kind = "variant" -> 2
    [] OTHER -> 1

\* surface_of: the flat arity of every function a component exports.
SurfaceOf(exports) ==
  [f \in Functions |->
     IF exports[f] = NoExport THEN NoExport
     ELSE FoldSeq(LAMBDA ty, n : FlatArity(ty) + n, 0, exports[f].params)]

\* parse_surface: entries that do not parse are dropped, and the contract is shorter.
Contract == {e \in Range(Expected) : Len(e) = 2}

\* verify_surface: every expected export is there with the expected arity; exports the
\* expectation does not name are not looked at.
\* (Mutant: an expected export the guest lacks is skipped like an extra one.)
VerifySurfacePresentOnly(c) ==
  \A e \in Contract : SurfaceOf(Exports[c])[e[1]] \in {e[2], NoExport}

VerifySurface(c) == \A e \in Contract : SurfaceOf(Exports[c])[e[1]] = e[2]

\* instantiate up to the first guest code: the epoch thread starts before anything can fail.
Instantiate ==
  /\ ticking' = TRUE
  /\ UNCHANGED rt

\* The instance is in place; checked if instantiate_checked asked for it.
Instantiated(r, c, checked) ==
  /\ rt' = [rt EXCEPT ![r].phase = "ready", ![r].exports = Exports[c], ![r].checked = checked]
  /\ UNCHANGED ticking

\* Dropping the runtime; its epoch thread goes on.
Drop(r) ==
  /\ rt' = [rt EXCEPT ![r] = [Unbuilt EXCEPT !.phase = "dropped"]]
  /\ UNCHANGED ticking

-----------------------------------------------------------------------------
(* Guest code.                                                             *)

\* default_val: the constructors it has a placeholder for.
Placeholders ==
  {"bool", "s8", "u8", "s16", "u16", "s32", "u32", "s64", "u64", "float32", "float64",
   "char", "string", "option", "record", "list", "stream", "future", "result"}
HasDefault(ty) == ty.within \subseteq Placeholders

\* call: the export is there, and every one of its results has a placeholder.
Exported(r, f) == rt[r].exports[f] # NoExport
ResultsFit(r, f) ==
  \A i \in DOMAIN rt[r].exports[f].results : HasDefault(rt[r].exports[f].results[i])
Callable(r, f) == Exported(r, f) /\ ResultsFit(r, f)

MayRun(r) == rt[r].fuel > 0 /\ ~rt[r].overdue /\ ~rt[r].trapped

\* A component without start code is instantiated on a runtime that is overdue, too.
MayStart(r, c) == c \in WithStart => MayRun(r)

\* Mutant of Burn: the guest runs on when the tank is empty.
BurnUnmetered(r) ==
  /\ rt' = [rt EXCEPT ![r].fuel = @ - 1]
  /\ UNCHANGED ticking

Burn(r) ==
  /\ MayRun(r)
  /\ rt' = [rt EXCEPT ![r].fuel = @ - 1]
  /\ UNCHANGED ticking

\* The guest stops where it is: out of fuel, interrupted by the epoch, refused because
\* it trapped before, or, when it may run, on its own account.
Trap(r) ==
  /\ rt' = [rt EXCEPT ![r].trapped = TRUE]
  /\ UNCHANGED ticking
=============================================================================
