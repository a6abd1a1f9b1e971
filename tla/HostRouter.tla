----------------------------- MODULE HostRouter -----------------------------
(***************************************************************************)
(* Tasks of a host that serve calls through a router and replace the       *)
(* component behind it while it serves (Router in                          *)
(* crates/guestlang-host/tests/hot_reload.rs and                           *)
(* examples/warm_start_event_log.rs), on the runtimes of HostRuntime.      *)
(*                                                                         *)
(* route holds the lock of `current` across the guest's call and takes the *)
(* lock of `served` after it let the first go; swap builds and             *)
(* instantiates the new runtime before it takes the lock, and hands the    *)
(* old one to its caller, who may go on calling it.  Between two awaits a  *)
(* task runs alone or beside the others; every await is a step boundary.   *)
(***************************************************************************)
EXTENDS HostRuntime

CONSTANTS Tasks,     \* concurrent callers of the router
          Nobody     \* no task, no runtime

ASSUME RouterAssumption == /\ Nobody \notin Tasks \cup Runtimes
                           /\ IsFiniteSet(Tasks)

VARIABLES
  current,   \* the installed runtime
  lock,      \* the task inside the mutex of `current`
  served,    \* successful routes, counted
  answers,   \* successful routes, returned by a runtime (history)
  task       \* what each task is doing

vars == <<ticking, rt, current, lock, served, answers, task>>

PCs == {"idle", "built", "starting", "install", "route", "call", "asleep", "count", "panicked"}

\* run: the runtime the task builds, calls or was handed; routed: its call goes through
\* the router; ticked: the epoch moved since its guest code began (history).
Idle == [pc |-> "idle", run |-> Nobody, component |-> Nobody, checked |-> FALSE,
         routed |-> FALSE, func |-> Nobody, ticked |-> FALSE]

TaskType ==
  [pc : PCs, run : Runtimes \cup {Nobody}, component : Components \cup {Nobody},
   checked : BOOLEAN, routed : BOOLEAN, func : Functions \cup {Nobody},
   ticked : BOOLEAN]

TypeOK ==
  /\ HostTypeOK
  /\ current \in Runtimes \cup {Nobody}
  /\ lock \in Tasks \cup {Nobody}
  /\ served \in Nat /\ answers \in Nat
  /\ task \in [Tasks -> TaskType]

Init ==
  /\ HostInit
  /\ current = Nobody /\ lock = Nobody /\ served = 0 /\ answers = 0
  /\ task = [t \in Tasks |-> Idle]

routerVars == <<current, lock, served, answers>>

-----------------------------------------------------------------------------
(* swap, and a start that is checked against the committed surface.        *)

Build(t, r) ==
  /\ task[t].pc = "idle" /\ task[t].run = Nobody
  /\ New(r)
  /\ task' = [task EXCEPT ![t] = [Idle EXCEPT !.pc = "built", !.run = r]]
  /\ UNCHANGED routerVars

\* HostFault::NotInstantiated: a call before the start leaves the runtime as it was.
CallNotInstantiated(t) ==
  /\ task[t].pc = "built"
  /\ UNCHANGED vars

\* swap starts unchecked; instantiate_checked first looks at the component's type.
Start(t, c, checked) ==
  /\ task[t].pc = "built"
  /\ checked => VerifySurface(c)
  /\ Instantiate
  /\ task' = [task EXCEPT ![t].pc = "starting", ![t].component = c, ![t].checked = checked,
                          ![t].ticked = FALSE]
  /\ UNCHANGED routerVars

\* StartError::Skew: the runtime is as it was and may be given another component.
StartSkewed(t, c) ==
  /\ task[t].pc = "built"
  /\ ~VerifySurface(c)
  /\ UNCHANGED vars

Started(t) ==
  /\ task[t].pc = "starting"
  /\ MayStart(task[t].run, task[t].component)
  /\ Instantiated(task[t].run, task[t].component, task[t].checked)
  /\ task' = [task EXCEPT ![t].pc = "install"]
  /\ UNCHANGED routerVars

\* Mutant of StartFails: the error of instantiate is dropped and swap goes on.
StartFailsUnseen(t) ==
  /\ task[t].pc = "starting"
  /\ task' = [task EXCEPT ![t].pc = "install"]
  /\ UNCHANGED <<hostVars, routerVars>>

\* Linking failed or the start function trapped: swap returns the error and drops the
\* runtime it built; the router keeps the one it has.
StartFails(t) ==
  /\ task[t].pc = "starting"
  /\ task' = [task EXCEPT ![t] = Idle]
  /\ Drop(task[t].run)
  /\ UNCHANGED routerVars

\* mem::replace under the lock; no await until the guard is dropped.
Install(t) ==
  /\ task[t].pc = "install" /\ lock = Nobody
  /\ current' = task[t].run
  /\ task' = [task EXCEPT ![t] = [Idle EXCEPT !.run = current]]
  /\ UNCHANGED <<hostVars, lock, served, answers>>

DropOld(t) ==
  /\ task[t].pc = "idle" /\ task[t].run # Nobody
  /\ Drop(task[t].run)
  /\ task' = [task EXCEPT ![t].run = Nobody]
  /\ UNCHANGED routerVars

-----------------------------------------------------------------------------
(* route, and a direct call on a runtime that was handed back.             *)

Route(t, f) ==
  /\ task[t].pc = "idle" /\ task[t].run = Nobody
  /\ task' = [task EXCEPT ![t] = [Idle EXCEPT !.pc = "route", !.routed = TRUE, !.func = f]]
  /\ UNCHANGED <<hostVars, routerVars>>

\* expect("router: no runtime installed"); the guard is dropped by the unwinding.
RoutePanics(t) ==
  /\ task[t].pc = "route" /\ lock = Nobody
  /\ current = Nobody
  /\ task' = [task EXCEPT ![t].pc = "panicked"]
  /\ UNCHANGED <<hostVars, routerVars>>

\* Mutant of Enter: the guard is dropped before the call.
EnterUnguarded(t) ==
  /\ task[t].pc = "route" /\ lock = Nobody
  /\ current # Nobody
  /\ task' = [task EXCEPT ![t].pc = "call", ![t].run = current, ![t].ticked = FALSE]
  /\ UNCHANGED <<hostVars, current, lock, served, answers>>

Enter(t) ==
  /\ task[t].pc = "route" /\ lock = Nobody
  /\ current # Nobody
  /\ lock' = t
  /\ task' = [task EXCEPT ![t].pc = "call", ![t].run = current, ![t].ticked = FALSE]
  /\ UNCHANGED <<hostVars, current, served, answers>>

CallOld(t, f) ==
  /\ task[t].pc = "idle" /\ task[t].run # Nobody
  /\ task' = [task EXCEPT ![t].pc = "call", ![t].func = f, ![t].ticked = FALSE]
  /\ UNCHANGED <<hostVars, routerVars>>

\* The task after its call: a route lets go of the runtime, an owner keeps it.
Ended(t) == [Idle EXCEPT !.run = IF task[t].routed THEN Nobody ELSE task[t].run]

\* Mutant of Unlocked: the guard lives on past the call.
StillLocked(t) == lock

Unlocked(t) == IF task[t].routed THEN Nobody ELSE lock

\* HostFault::MissingExport: looked up on the instance, before any guest code.
CallMissing(t) ==
  /\ task[t].pc = "call"
  /\ ~Exported(task[t].run, task[t].func)
  /\ lock' = Unlocked(t)
  /\ task' = [task EXCEPT ![t] = Ended(t)]
  /\ UNCHANGED <<hostVars, current, served, answers>>

\* HostFault::UnsupportedResult: a result of a type default_val does not know, an enum say,
\* refuses every call of the export, before any guest code.  The surface check looks at
\* names and parameters only, so a checked start does not rule it out.
CallUnsupported(t) ==
  /\ task[t].pc = "call"
  /\ Exported(task[t].run, task[t].func) /\ ~ResultsFit(task[t].run, task[t].func)
  /\ lock' = Unlocked(t)
  /\ task' = [task EXCEPT ![t] = Ended(t)]
  /\ UNCHANGED <<hostVars, current, served, answers>>

\* call_async errs and the instance may be entered again: the arguments have another number
\* or other types than the function wants.  (Guest code makes room for arguments before a
\* later one is refused, and may burn fuel or trap: Compute, CallTraps.  A call's arguments
\* are not kept, so the model lets it be refused at any of its steps.)
CallRefused(t) ==
  /\ task[t].pc = "call"
  /\ Callable(task[t].run, task[t].func)
  /\ lock' = Unlocked(t)
  /\ task' = [task EXCEPT ![t] = Ended(t)]
  /\ UNCHANGED <<hostVars, current, served, answers>>

\* Mutant of CallTraps: a failed call goes on to the count like any other.
CallTrapsCounted(t) ==
  /\ task[t].pc = "call"
  /\ Callable(task[t].run, task[t].func)
  /\ Trap(task[t].run)
  /\ lock' = Unlocked(t)
  /\ task' = [task EXCEPT ![t] = [Ended(t) EXCEPT !.pc = IF task[t].routed THEN "count" ELSE "idle"]]
  /\ UNCHANGED <<current, served, answers>>

CallTraps(t) ==
  /\ task[t].pc = "call"
  /\ Callable(task[t].run, task[t].func)
  /\ Trap(task[t].run)
  /\ lock' = Unlocked(t)
  /\ task' = [task EXCEPT ![t] = Ended(t)]
  /\ UNCHANGED <<current, served, answers>>

CallReturns(t) ==
  /\ task[t].pc = "call"
  /\ Callable(task[t].run, task[t].func)
  /\ Burn(task[t].run)
  /\ lock' = Unlocked(t)
  /\ answers' = IF task[t].routed THEN answers + 1 ELSE answers
  /\ task' = [task EXCEPT ![t] = [Ended(t) EXCEPT !.pc = IF task[t].routed THEN "count" ELSE "idle"]]
  /\ UNCHANGED <<current, served>>

\* *self.served.lock().await += 1
Count(t) ==
  /\ task[t].pc = "count"
  /\ served' = served + 1
  /\ task' = [task EXCEPT ![t].pc = "idle"]
  /\ UNCHANGED <<hostVars, current, lock, answers>>

-----------------------------------------------------------------------------
(* Guest code between its start and its end.                               *)

InGuest(t) ==
  \/ task[t].pc = "starting" /\ task[t].component \in WithStart
  \/ task[t].pc = "call" /\ Callable(task[t].run, task[t].func)

Compute(t) ==
  /\ InGuest(t)
  /\ Burn(task[t].run)
  /\ UNCHANGED <<routerVars, task>>

\* The guest waits in a host call (a clock, a stream): no fuel is burnt and no epoch
\* check is passed until the host answers.
Sleep(t) ==
  /\ task[t].pc = "call"
  /\ Callable(task[t].run, task[t].func)
  /\ MayRun(task[t].run)
  /\ task' = [task EXCEPT ![t].pc = "asleep"]
  /\ UNCHANGED <<hostVars, routerVars>>

Wake(t) ==
  /\ task[t].pc = "asleep"
  /\ task' = [task EXCEPT ![t].pc = "call"]
  /\ UNCHANGED <<hostVars, routerVars>>

EpochTick ==
  /\ Tick
  /\ task' = [t \in Tasks |-> IF task[t].pc \in {"starting", "call", "asleep"}
                               THEN [task[t] EXCEPT !.ticked = TRUE] ELSE task[t]]
  /\ UNCHANGED routerVars

GuestStep(t) ==
  \/ Started(t) \/ StartFails(t)
  \/ CallMissing(t) \/ CallUnsupported(t) \/ CallRefused(t) \/ CallTraps(t) \/ CallReturns(t)
  \/ Compute(t)

Next ==
  \/ EpochTick
  \/ \E t \in Tasks :
       \/ \E r \in Runtimes : Build(t, r)
       \/ \E c \in Components, checked \in BOOLEAN : Start(t, c, checked)
       \/ \E c \in Components : StartSkewed(t, c)
       \/ CallNotInstantiated(t)
       \/ \E f \in Functions : Route(t, f) \/ CallOld(t, f)
       \/ Install(t) \/ DropOld(t) \/ RoutePanics(t) \/ Enter(t) \/ Count(t)
       \/ GuestStep(t) \/ Sleep(t) \/ Wake(t)

Spec == Init /\ [][Next]_vars

\* A task that can go on does (the executor), and the mutex of `current` is handed to
\* its waiters in order (tokio's), so who waits for it again and again gets it.
Fairness ==
  \A t \in Tasks : /\ WF_vars(GuestStep(t) \/ Count(t))
                   /\ SF_vars(Enter(t) \/ RoutePanics(t) \/ Install(t))

FairSpec == Spec /\ Fairness

-----------------------------------------------------------------------------

\* Whose hands a runtime is in besides the router's: a task's that builds it, calls it
\* directly or was handed it.
Holds(t, r) == task[t].run = r /\ ~task[t].routed

\* "The old runtime is quiesced (unrouted)", "its store/instance are self-owned": a
\* runtime is in one place at a time, so a routed call only ever runs on the runtime
\* that is installed now, inside the lock, and never on one that was handed back.
RoutedOnCurrent ==
  /\ \A t \in Tasks : task[t].routed /\ task[t].pc \in {"call", "asleep"}
                        => lock = t /\ task[t].run = current
  /\ \A t, u \in Tasks, r \in Runtimes : Holds(t, r) /\ Holds(u, r) => t = u
  /\ \A t \in Tasks, r \in Runtimes : Holds(t, r) => r # current

\* "The host's state counts across both runtimes continuously": every answer a router
\* returned is counted once, however swaps fall between the answer and the count.
Pending == {t \in Tasks : task[t].pc = "count"}
EveryAnswerCounted == answers = served + Cardinality(Pending)

\* "Never as a wasm trap mid-request": no call of a function the committed surface names
\* ends in a missing export on a runtime whose start was checked, however refused starts,
\* other components and swaps came between the check and the call.
NeverSkewedMidRequest ==
  [][\A t \in Tasks : CallMissing(t) /\ rt[task[t].run].checked
                       => task[t].func \notin {e[1] : e \in Contract}]_vars

\* What the router installs was started, and stays alive while it is installed.
InstalledIsReady == current # Nobody => rt[current].phase = "ready"

\* "Bounded resources": every route, direct call and start ends, by fuel alone if no
\* tick comes, unless some guest waits in a host call, which neither fuel nor the epoch
\* ends.
EveryCallEnds ==
  \A t \in Tasks :
    task[t].pc \in {"starting", "install", "route", "call", "count"}
      ~> \/ task[t].pc \in {"idle", "panicked"}
         \/ \E u \in Tasks : task[u].pc = "asleep"

\* "Trap when execution outlives one tick past now", "increments are harmless to other
\* runtimes": a call that has fuel, on an instance that never trapped, is interrupted
\* only when a tick came after it began.
InterruptedOnlyByATick ==
  [][\A t \in Tasks :
       CallTraps(t) /\ rt[task[t].run].overdue
         => \/ task[t].ticked
            \/ rt[task[t].run].fuel = 0 \/ rt[task[t].run].trapped]_vars
=============================================================================
