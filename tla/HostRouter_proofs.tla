------------------------- MODULE HostRouter_proofs --------------------------
(* Proofs about HostRouter, for all runtimes, components, tasks and fuel.  *)
EXTENDS HostRouter, FiniteSetTheorems, TLAPS

\* What a task holds at each of its steps, and the state of the runtime in its hands.
Shape(t) ==
  /\ task[t].pc = "idle" =>
       /\ ~task[t].routed
       /\ task[t].run # Nobody => rt[task[t].run].phase = "ready"
  /\ task[t].pc \in {"count", "route", "panicked"} => task[t].run = Nobody
  /\ task[t].pc = "count" => ~task[t].routed
  /\ task[t].pc \in {"built", "starting"} =>
       /\ ~task[t].routed /\ task[t].run \in Runtimes
       /\ rt[task[t].run].phase = "closed"
  /\ task[t].pc = "starting" =>
       /\ task[t].component \in Components
       /\ task[t].checked => VerifySurface(task[t].component)
  /\ task[t].pc = "install" =>
       /\ ~task[t].routed /\ task[t].run \in Runtimes
       /\ rt[task[t].run].phase = "ready"
  /\ task[t].pc \in {"call", "asleep"} =>
       /\ task[t].run \in Runtimes /\ task[t].func \in Functions
       /\ rt[task[t].run].phase = "ready"

Shapes == \A t \in Tasks : Shape(t)

\* A runtime whose start was checked has the committed surface, in anyone's hands.
CheckedSurfaceHolds ==
  \A r \in Runtimes : rt[r].phase = "ready" /\ rt[r].checked =>
    \A e \in Contract : SurfaceOf(rt[r].exports)[e[1]] = e[2]

IInv == TypeOK /\ Shapes /\ RoutedOnCurrent /\ InstalledIsReady /\ CheckedSurfaceHolds

\* A dropped runtime is a runtime (Drop).
LEMMA DroppedIsRuntime == [Unbuilt EXCEPT !.phase = "dropped"] \in RuntimeType
<1>1. 0 \in 0..Fuel
  BY RuntimeAssumption
<1>2. Unbuilt \in RuntimeType
  BY <1>1 DEF RuntimeType, Phases, Unbuilt
<1> QED BY <1>2 DEF RuntimeType, Phases

\* A trapped runtime is a runtime (Trap).
LEMMA TrappedIsRuntime ==
  ASSUME TypeOK, NEW r \in Runtimes
  PROVE  [rt[r] EXCEPT !.trapped = TRUE] \in RuntimeType
<1>1. rt[r] \in RuntimeType
  BY DEF TypeOK, HostTypeOK
<1> QED BY <1>1 DEF RuntimeType

\* A runtime that may run has fuel to burn (Burn).
LEMMA BurntIsRuntime ==
  ASSUME TypeOK, NEW r \in Runtimes, MayRun(r)
  PROVE  [rt[r] EXCEPT !.fuel = @ - 1] \in RuntimeType
<1>1. rt[r] \in RuntimeType
  BY DEF TypeOK, HostTypeOK
<1>2. rt[r].fuel - 1 \in 0..Fuel
  BY <1>1, RuntimeAssumption DEF RuntimeType, MayRun
<1> QED BY <1>1, <1>2 DEF RuntimeType

\* The epoch thread's tick changes nothing the invariant speaks of but the types.
LEMMA EpochTickKeeps ==
  ASSUME IInv, EpochTick
  PROVE  IInv'
<1> USE RouterAssumption, RuntimeAssumption DEF IInv, TypeOK, HostTypeOK, Idle, Unbuilt, hostVars, routerVars
<1>1. TypeOK'
  <2>1. rt' \in [Runtimes -> RuntimeType]
    <3>1. \A r \in Runtimes : [rt[r] EXCEPT !.overdue = TRUE] \in RuntimeType
      BY DEF RuntimeType
    <3> QED BY <3>1 DEF EpochTick, Tick
  <2>2. task' \in [Tasks -> TaskType]
    <3>1. \A t \in Tasks : [task[t] EXCEPT !.ticked = TRUE] \in TaskType
      BY ZenonT(60) DEF TaskType
    <3> QED BY <3>1 DEF EpochTick
  <2> QED BY <2>1, <2>2 DEF EpochTick, Tick, TaskType
<1>2. Shapes'
  BY DEF EpochTick, Tick, Shapes, Shape, TaskType
<1>3. RoutedOnCurrent'
  BY DEF EpochTick, Tick, RoutedOnCurrent, Holds
<1>4. InstalledIsReady'
  BY DEF EpochTick, Tick, InstalledIsReady
<1>5. CheckedSurfaceHolds'
  BY DEF EpochTick, Tick, CheckedSurfaceHolds
<1> QED BY <1>1, <1>2, <1>3, <1>4, <1>5

\* A runtime just built was in nobody's hands and not installed.
LEMMA BuildKeeps ==
  ASSUME IInv, NEW t \in Tasks, NEW r \in Runtimes, Build(t, r)
  PROVE  IInv'
<1> USE RouterAssumption, RuntimeAssumption DEF IInv, TypeOK, HostTypeOK, Idle, Unbuilt, hostVars, routerVars
<1>1. TypeOK'
  <2>1. rt' \in [Runtimes -> RuntimeType]
    <3>1. rt[r] \in RuntimeType /\ Fuel \in 0..Fuel
      BY RuntimeAssumption
    <3>2. [rt[r] EXCEPT !.phase = "closed", !.fuel = Fuel] \in RuntimeType
      BY <3>1 DEF RuntimeType, Phases
    <3> QED BY <3>2 DEF Build, New
  <2>2. task' \in [Tasks -> TaskType]
    BY DEF Build, New, TaskType, PCs, Shapes, Shape
  <2> QED BY <2>1, <2>2 DEF Build, New, TaskType
<1>2. Shapes'
  BY DEF Build, New, Shapes, Shape, TaskType
<1>3. RoutedOnCurrent'
  <2>1. rt[r].phase = "unbuilt" /\ r # current
    BY DEF Build, New, InstalledIsReady, RuntimeType
  <2>2. \A u \in Tasks : task[u].run # r
    <3> SUFFICES ASSUME NEW u \in Tasks, task[u].run = r PROVE FALSE
      OBVIOUS
    <3>1. Shape(u) /\ task[u].pc \in PCs /\ r # Nobody
      BY DEF Shapes, TaskType
    <3> QED BY <2>1, <3>1 DEF Shape, PCs
  <2>3. \A u \in Tasks : u # t => task'[u] = task[u]
    BY DEF Build
  <2>4. task'[t].run = r /\ ~task'[t].routed /\ task'[t].pc = "built"
    BY DEF Build, Idle
  <2>5. current' = current /\ lock' = lock
    BY DEF Build, routerVars
  <2>6. \A u \in Tasks : task'[u].routed /\ task'[u].pc \in {"call", "asleep"}
                           => lock' = u /\ task'[u].run = current'
    BY <2>3, <2>4, <2>5 DEF RoutedOnCurrent
  <2>7. \A u, w \in Tasks, q \in Runtimes : Holds(u, q)' /\ Holds(w, q)' => u = w
    BY <2>2, <2>3, <2>4 DEF RoutedOnCurrent, Holds
  <2>8. \A u \in Tasks, q \in Runtimes : Holds(u, q)' => q # current'
    BY <2>1, <2>3, <2>4, <2>5 DEF RoutedOnCurrent, Holds
  <2> QED BY <2>6, <2>7, <2>8 DEF RoutedOnCurrent
<1>4. InstalledIsReady'
  BY DEF Build, New, InstalledIsReady
<1>5. CheckedSurfaceHolds'
  BY DEF Build, New, CheckedSurfaceHolds
<1> QED BY <1>1, <1>2, <1>3, <1>4, <1>5

\* A start leaves the runtime closed; if it is checked, the surface was verified.
LEMMA StartKeeps ==
  ASSUME IInv, NEW t \in Tasks, NEW c \in Components, NEW checked \in BOOLEAN, Start(t, c, checked)
  PROVE  IInv'
<1> USE RouterAssumption, RuntimeAssumption DEF IInv, TypeOK, HostTypeOK, Idle, Unbuilt, hostVars, routerVars
<1>1. TypeOK'
  <2>1. rt' \in [Runtimes -> RuntimeType]
    BY DEF Start, Instantiate, RuntimeType, Phases, Shapes, Shape
  <2>2. task' \in [Tasks -> TaskType]
    <3>1. [task[t] EXCEPT !.pc = "starting", !.component = c, !.checked = checked,
                          !.ticked = FALSE] \in TaskType
      BY ZenonT(60) DEF TaskType, PCs
    <3> QED BY <3>1 DEF Start
  <2> QED BY <2>1, <2>2 DEF Start, Instantiate, TaskType
<1>2. Shapes'
  BY DEF Start, Instantiate, Shapes, Shape
<1>3. RoutedOnCurrent'
  BY DEF Start, Instantiate, RoutedOnCurrent, Holds
<1>4. InstalledIsReady'
  BY DEF Start, Instantiate, InstalledIsReady
<1>5. CheckedSurfaceHolds'
  BY DEF Start, Instantiate, CheckedSurfaceHolds
<1> QED BY <1>1, <1>2, <1>3, <1>4, <1>5

\* A call before the start changes nothing.
LEMMA CallNotInstantiatedKeeps ==
  ASSUME IInv, NEW t \in Tasks, CallNotInstantiated(t)
  PROVE  IInv'
  BY DEF CallNotInstantiated, vars, IInv, TypeOK, HostTypeOK, Shapes, Shape, RoutedOnCurrent, Holds,
         InstalledIsReady, CheckedSurfaceHolds

\* A refused start changes nothing.
LEMMA StartSkewedKeeps ==
  ASSUME IInv, NEW t \in Tasks, NEW c \in Components, StartSkewed(t, c)
  PROVE  IInv'
<1> USE RouterAssumption, RuntimeAssumption DEF IInv, TypeOK, HostTypeOK, Idle, Unbuilt, hostVars, routerVars
<1>1. TypeOK'
  BY DEF StartSkewed, vars, TaskType, RuntimeType, PCs, Phases, Shapes, Shape
<1>2. Shapes'
  BY DEF StartSkewed, vars, Shapes, Shape
<1>3. RoutedOnCurrent'
  BY DEF StartSkewed, vars, RoutedOnCurrent, Holds
<1>4. InstalledIsReady'
  BY DEF StartSkewed, vars, InstalledIsReady
<1>5. CheckedSurfaceHolds'
  BY DEF StartSkewed, vars, CheckedSurfaceHolds
<1> QED BY <1>1, <1>2, <1>3, <1>4, <1>5

\* A task that asks for a route holds nothing yet.
LEMMA RouteKeeps ==
  ASSUME IInv, NEW t \in Tasks, NEW f \in Functions, Route(t, f)
  PROVE  IInv'
<1> USE RouterAssumption, RuntimeAssumption DEF IInv, TypeOK, HostTypeOK, Idle, Unbuilt, hostVars, routerVars
<1>1. TypeOK'
  BY DEF Route, TaskType, RuntimeType, PCs, Phases, Shapes, Shape
<1>2. Shapes'
  BY DEF Route, Shapes, Shape
<1>3. RoutedOnCurrent'
  BY DEF Route, RoutedOnCurrent, Holds
<1>4. InstalledIsReady'
  BY DEF Route, InstalledIsReady
<1>5. CheckedSurfaceHolds'
  BY DEF Route, CheckedSurfaceHolds
<1> QED BY <1>1, <1>2, <1>3, <1>4, <1>5

\* The task calls the runtime it was handed.
LEMMA CallOldKeeps ==
  ASSUME IInv, NEW t \in Tasks, NEW f \in Functions, CallOld(t, f)
  PROVE  IInv'
<1> USE RouterAssumption, RuntimeAssumption DEF IInv, TypeOK, HostTypeOK, Idle, Unbuilt, hostVars, routerVars
<1>1. TypeOK'
  <2>1. rt' \in [Runtimes -> RuntimeType]
    BY DEF CallOld, RuntimeType, Phases, Shapes, Shape
  <2>2. task' \in [Tasks -> TaskType]
    <3>1. [task[t] EXCEPT !.pc = "call", !.func = f, !.ticked = FALSE] \in TaskType
      BY ZenonT(60) DEF TaskType, PCs
    <3> QED BY <3>1 DEF CallOld
  <2> QED BY <2>1, <2>2 DEF CallOld, TaskType
<1>2. Shapes'
  BY DEF CallOld, Shapes, Shape, TaskType
<1>3. RoutedOnCurrent'
  BY DEF CallOld, RoutedOnCurrent, Holds, Shapes, Shape
<1>4. InstalledIsReady'
  BY DEF CallOld, InstalledIsReady
<1>5. CheckedSurfaceHolds'
  BY DEF CallOld, CheckedSurfaceHolds
<1> QED BY <1>1, <1>2, <1>3, <1>4, <1>5

\* The installed runtime and the task's change places.
LEMMA InstallKeeps ==
  ASSUME IInv, NEW t \in Tasks, Install(t)
  PROVE  IInv'
<1> USE RouterAssumption, RuntimeAssumption DEF IInv, TypeOK, HostTypeOK, Idle, Unbuilt, hostVars, routerVars
<1>1. TypeOK'
  BY DEF Install, TaskType, RuntimeType, PCs, Phases, Shapes, Shape
<1>2. Shapes'
  BY DEF Install, Shapes, Shape, InstalledIsReady
<1>3. RoutedOnCurrent'
  BY DEF Install, RoutedOnCurrent, Holds, Shapes, Shape
<1>4. InstalledIsReady'
  BY DEF Install, InstalledIsReady, Shapes, Shape
<1>5. CheckedSurfaceHolds'
  BY DEF Install, CheckedSurfaceHolds
<1> QED BY <1>1, <1>2, <1>3, <1>4, <1>5

\* The runtime that is dropped was the task's alone.
LEMMA DropOldKeeps ==
  ASSUME IInv, NEW t \in Tasks, DropOld(t)
  PROVE  IInv'
<1> USE RouterAssumption, RuntimeAssumption DEF IInv, TypeOK, HostTypeOK, Idle, Unbuilt, hostVars, routerVars
<1>1. TypeOK'
  <2>1. rt' \in [Runtimes -> RuntimeType]
    <3>1. [Unbuilt EXCEPT !.phase = "dropped"] \in RuntimeType
      BY DroppedIsRuntime
    <3> QED BY <3>1 DEF DropOld, Drop
  <2>2. task' \in [Tasks -> TaskType]
    <3>1. [task[t] EXCEPT !.run = Nobody] \in TaskType
      BY SMTT(60) DEF TaskType
    <3> QED BY <3>1 DEF DropOld
  <2> QED BY <2>1, <2>2 DEF DropOld, Drop, TaskType
<1>2. Shapes'
  BY DEF DropOld, Drop, Shapes, Shape, RoutedOnCurrent, Holds
<1>3. RoutedOnCurrent'
  BY DEF DropOld, Drop, RoutedOnCurrent, Holds
<1>4. InstalledIsReady'
  BY DEF DropOld, Drop, InstalledIsReady, Shapes, Shape, RoutedOnCurrent, Holds
<1>5. CheckedSurfaceHolds'
  BY DEF DropOld, Drop, CheckedSurfaceHolds
<1> QED BY <1>1, <1>2, <1>3, <1>4, <1>5

\* The panic leaves the router as it was.
LEMMA RoutePanicsKeeps ==
  ASSUME IInv, NEW t \in Tasks, RoutePanics(t)
  PROVE  IInv'
<1> USE RouterAssumption, RuntimeAssumption DEF IInv, TypeOK, HostTypeOK, Idle, Unbuilt, hostVars, routerVars
<1>1. TypeOK'
  <2>1. rt' \in [Runtimes -> RuntimeType]
    BY DEF RoutePanics
  <2>2. task' \in [Tasks -> TaskType]
    BY DEF RoutePanics, TaskType, PCs, Shapes, Shape
  <2> QED BY <2>1, <2>2 DEF RoutePanics, TaskType
<1>2. Shapes'
  BY DEF RoutePanics, Shapes, Shape
<1>3. RoutedOnCurrent'
  BY DEF RoutePanics, RoutedOnCurrent, Holds
<1>4. InstalledIsReady'
  BY DEF RoutePanics, InstalledIsReady
<1>5. CheckedSurfaceHolds'
  BY DEF RoutePanics, CheckedSurfaceHolds
<1> QED BY <1>1, <1>2, <1>3, <1>4, <1>5

\* The task that enters has the lock and what is installed.
LEMMA EnterKeeps ==
  ASSUME IInv, NEW t \in Tasks, Enter(t)
  PROVE  IInv'
<1> USE RouterAssumption, RuntimeAssumption DEF IInv, TypeOK, HostTypeOK, Idle, Unbuilt, hostVars, routerVars
<1>1. TypeOK'
  BY DEF Enter, TaskType, RuntimeType, PCs, Phases, Shapes, Shape
<1>2. Shapes'
  BY DEF Enter, Shapes, Shape, TaskType
<1>3. RoutedOnCurrent'
  BY DEF Enter, RoutedOnCurrent, Holds, TaskType
<1>4. InstalledIsReady'
  BY DEF Enter, InstalledIsReady
<1>5. CheckedSurfaceHolds'
  BY DEF Enter, CheckedSurfaceHolds
<1> QED BY <1>1, <1>2, <1>3, <1>4, <1>5

\* Counting touches no runtime.
LEMMA CountKeeps ==
  ASSUME IInv, NEW t \in Tasks, Count(t)
  PROVE  IInv'
<1> USE RouterAssumption, RuntimeAssumption DEF IInv, TypeOK, HostTypeOK, Idle, Unbuilt, hostVars, routerVars
<1>1. TypeOK'
  <2>1. rt' \in [Runtimes -> RuntimeType]
    BY DEF Count, RuntimeType, Phases, Shapes, Shape
  <2>2. task' \in [Tasks -> TaskType]
    BY SMTT(60) DEF Count, TaskType, PCs, Shapes, Shape
  <2> QED BY <2>1, <2>2 DEF Count, TaskType
<1>2. Shapes'
  BY DEF Count, Shapes, Shape
<1>3. RoutedOnCurrent'
  BY DEF Count, RoutedOnCurrent, Holds
<1>4. InstalledIsReady'
  BY DEF Count, InstalledIsReady
<1>5. CheckedSurfaceHolds'
  BY DEF Count, CheckedSurfaceHolds
<1> QED BY <1>1, <1>2, <1>3, <1>4, <1>5

\* The instance that is put in place has the component's surface.
LEMMA StartedKeeps ==
  ASSUME IInv, NEW t \in Tasks, Started(t)
  PROVE  IInv'
<1> USE RouterAssumption, RuntimeAssumption DEF IInv, TypeOK, HostTypeOK, Idle, Unbuilt, hostVars, routerVars
<1>1. TypeOK'
  <2>1. rt' \in [Runtimes -> RuntimeType]
    <3> DEFINE r == task[t].run
    <3>1. /\ r \in Runtimes /\ rt[r] \in RuntimeType
          /\ task[t].component \in Components
          /\ task[t].checked \in BOOLEAN
      BY DEF TaskType, Shapes, Shape, Started
    <3>2. [rt[r] EXCEPT !.phase = "ready", !.exports = Exports[task[t].component],
                        !.checked = task[t].checked] \in RuntimeType
      BY <3>1 DEF RuntimeType, Phases
    <3> QED BY <3>1, <3>2 DEF Started, Instantiated
  <2>2. task' \in [Tasks -> TaskType]
    <3>1. [task[t] EXCEPT !.pc = "install"] \in TaskType
      BY DEF TaskType, PCs
    <3> QED BY <3>1 DEF Started
  <2> QED BY <2>1, <2>2 DEF Started, Instantiated
<1>2. Shapes'
  <2> DEFINE r == task[t].run
  <2>1. r \in Runtimes /\ Holds(t, r)
    BY DEF Started, Shapes, Shape, Holds
  <2>2. /\ rt'[r].phase = "ready"
        /\ \A q \in Runtimes : q # r => rt'[q] = rt[q]
    BY <2>1 DEF Started, Instantiated
  <2>3. Shape(t)'
    BY <2>1, <2>2 DEF Started, Shapes, Shape, TaskType
  <2>4. ASSUME NEW u \in Tasks, u # t
        PROVE  Shape(u)'
    <3>1. Shape(u) /\ task'[u] = task[u] /\ task[u] \in TaskType
      BY <2>4 DEF Started, Shapes
    <3>2. task[u].run = r => task[u].routed
      BY <2>1, <2>4 DEF RoutedOnCurrent, Holds
    <3> QED BY <2>2, <3>1, <3>2, RouterAssumption DEF Shape, TaskType
  <2> QED BY <2>3, <2>4 DEF Shapes
<1>3. RoutedOnCurrent'
  BY DEF Started, Instantiated, MayRun, RoutedOnCurrent, Holds
<1>4. InstalledIsReady'
  BY DEF Started, Instantiated, MayRun, InstalledIsReady
<1>5. CheckedSurfaceHolds'
  BY DEF Started, Instantiated, MayRun, CheckedSurfaceHolds, Shapes, Shape, VerifySurface
<1> QED BY <1>1, <1>2, <1>3, <1>4, <1>5

\* The runtime whose start failed was the task's alone.
LEMMA StartFailsKeeps ==
  ASSUME IInv, NEW t \in Tasks, StartFails(t)
  PROVE  IInv'
<1> USE RouterAssumption, RuntimeAssumption DEF IInv, TypeOK, HostTypeOK, Idle, Unbuilt, hostVars, routerVars
<1>1. TypeOK'
  <2>1. rt' \in [Runtimes -> RuntimeType]
    <3>1. [Unbuilt EXCEPT !.phase = "dropped"] \in RuntimeType
      BY DroppedIsRuntime
    <3> QED BY <3>1 DEF StartFails, Drop
  <2>2. task' \in [Tasks -> TaskType]
    BY DEF StartFails, Drop, TaskType, PCs, Shapes, Shape
  <2> QED BY <2>1, <2>2 DEF StartFails, Drop, TaskType
<1>2. Shapes'
  BY DEF StartFails, Drop, Shapes, Shape, RoutedOnCurrent, Holds
<1>3. RoutedOnCurrent'
  BY DEF StartFails, Drop, RoutedOnCurrent, Holds
<1>4. InstalledIsReady'
  BY DEF StartFails, Drop, InstalledIsReady, Shapes, Shape
<1>5. CheckedSurfaceHolds'
  BY DEF StartFails, Drop, CheckedSurfaceHolds
<1> QED BY <1>1, <1>2, <1>3, <1>4, <1>5

\* A call of a missing export lets go of the lock.
LEMMA CallMissingKeeps ==
  ASSUME IInv, NEW t \in Tasks, CallMissing(t)
  PROVE  IInv'
<1> USE RouterAssumption, RuntimeAssumption DEF IInv, TypeOK, HostTypeOK, Idle, Unbuilt, hostVars, routerVars
<1>1. TypeOK'
  BY DEF CallMissing, Ended, Unlocked, TaskType, RuntimeType, PCs, Phases, Shapes, Shape
<1>2. Shapes'
  BY DEF CallMissing, Ended, Unlocked, Shapes, Shape
<1>3. RoutedOnCurrent'
  BY DEF CallMissing, Ended, Unlocked, RoutedOnCurrent, Holds
<1>4. InstalledIsReady'
  BY DEF CallMissing, Ended, Unlocked, InstalledIsReady
<1>5. CheckedSurfaceHolds'
  BY DEF CallMissing, Ended, Unlocked, CheckedSurfaceHolds
<1> QED BY <1>1, <1>2, <1>3, <1>4, <1>5

\* A call whose result has no placeholder lets go of the lock.
LEMMA CallUnsupportedKeeps ==
  ASSUME IInv, NEW t \in Tasks, CallUnsupported(t)
  PROVE  IInv'
<1> USE RouterAssumption, RuntimeAssumption DEF IInv, TypeOK, HostTypeOK, Idle, Unbuilt, hostVars, routerVars
<1>1. TypeOK'
  BY DEF CallUnsupported, Ended, Unlocked, TaskType, RuntimeType, PCs, Phases, Shapes, Shape
<1>2. Shapes'
  BY DEF CallUnsupported, Ended, Unlocked, Shapes, Shape
<1>3. RoutedOnCurrent'
  BY DEF CallUnsupported, Ended, Unlocked, RoutedOnCurrent, Holds
<1>4. InstalledIsReady'
  BY DEF CallUnsupported, Ended, Unlocked, InstalledIsReady
<1>5. CheckedSurfaceHolds'
  BY DEF CallUnsupported, Ended, Unlocked, CheckedSurfaceHolds
<1> QED BY <1>1, <1>2, <1>3, <1>4, <1>5

\* A call whose arguments do not fit lets go of the lock.
LEMMA CallRefusedKeeps ==
  ASSUME IInv, NEW t \in Tasks, CallRefused(t)
  PROVE  IInv'
<1> USE RouterAssumption, RuntimeAssumption DEF IInv, TypeOK, HostTypeOK, Idle, Unbuilt, hostVars, routerVars
<1>1. TypeOK'
  BY DEF CallRefused, Ended, Unlocked, TaskType, RuntimeType, PCs, Phases, Shapes, Shape
<1>2. Shapes'
  BY DEF CallRefused, Ended, Unlocked, Shapes, Shape
<1>3. RoutedOnCurrent'
  BY DEF CallRefused, Ended, Unlocked, RoutedOnCurrent, Holds
<1>4. InstalledIsReady'
  BY DEF CallRefused, Ended, Unlocked, InstalledIsReady
<1>5. CheckedSurfaceHolds'
  BY DEF CallRefused, Ended, Unlocked, CheckedSurfaceHolds
<1> QED BY <1>1, <1>2, <1>3, <1>4, <1>5

\* A trap leaves the runtime in place.
LEMMA CallTrapsKeeps ==
  ASSUME IInv, NEW t \in Tasks, CallTraps(t)
  PROVE  IInv'
<1> USE RouterAssumption, RuntimeAssumption DEF IInv, TypeOK, HostTypeOK, Idle, Unbuilt, hostVars, routerVars
<1>1. TypeOK'
  <2>1. rt' \in [Runtimes -> RuntimeType]
    <3>1. task[t].run \in Runtimes
      BY DEF CallTraps, Shapes, Shape
    <3>2. [rt[task[t].run] EXCEPT !.trapped = TRUE] \in RuntimeType
      BY <3>1, TrappedIsRuntime
    <3> QED BY <3>1, <3>2 DEF CallTraps, Trap
  <2>2. task' \in [Tasks -> TaskType]
    BY DEF CallTraps, Trap, Ended, Unlocked, TaskType, PCs, Shapes, Shape
  <2> QED BY <2>1, <2>2 DEF CallTraps, Trap, Ended, Unlocked, TaskType
<1>2. Shapes'
  BY DEF CallTraps, Trap, Ended, Unlocked, Shapes, Shape
<1>3. RoutedOnCurrent'
  BY DEF CallTraps, Trap, Ended, Unlocked, RoutedOnCurrent, Holds
<1>4. InstalledIsReady'
  BY DEF CallTraps, Trap, Ended, Unlocked, InstalledIsReady
<1>5. CheckedSurfaceHolds'
  BY DEF CallTraps, Trap, Ended, Unlocked, CheckedSurfaceHolds
<1> QED BY <1>1, <1>2, <1>3, <1>4, <1>5

\* A return leaves the runtime in place, with less fuel.
LEMMA CallReturnsKeeps ==
  ASSUME IInv, NEW t \in Tasks, CallReturns(t)
  PROVE  IInv'
<1> USE RouterAssumption, RuntimeAssumption DEF IInv, TypeOK, HostTypeOK, Idle, Unbuilt, hostVars, routerVars
<1>1. TypeOK'
  <2>1. rt' \in [Runtimes -> RuntimeType]
    <3>1. task[t].run \in Runtimes /\ MayRun(task[t].run)
      BY DEF CallReturns, Burn, Shapes, Shape
    <3>2. [rt[task[t].run] EXCEPT !.fuel = @ - 1] \in RuntimeType
      BY <3>1, BurntIsRuntime
    <3> QED BY <3>1, <3>2 DEF CallReturns, Burn
  <2>2. task' \in [Tasks -> TaskType]
    BY DEF CallReturns, Burn, MayRun, Ended, Unlocked, TaskType, PCs, Shapes, Shape
  <2> QED BY <2>1, <2>2 DEF CallReturns, Burn, MayRun, Ended, Unlocked, TaskType
<1>2. Shapes'
  BY DEF CallReturns, Burn, MayRun, Ended, Unlocked, Shapes, Shape
<1>3. RoutedOnCurrent'
  BY DEF CallReturns, Burn, MayRun, Ended, Unlocked, RoutedOnCurrent, Holds
<1>4. InstalledIsReady'
  BY DEF CallReturns, Burn, MayRun, Ended, Unlocked, InstalledIsReady
<1>5. CheckedSurfaceHolds'
  BY DEF CallReturns, Burn, MayRun, Ended, Unlocked, CheckedSurfaceHolds
<1> QED BY <1>1, <1>2, <1>3, <1>4, <1>5

\* Guest code burns fuel.
LEMMA ComputeKeeps ==
  ASSUME IInv, NEW t \in Tasks, Compute(t)
  PROVE  IInv'
<1> USE RouterAssumption, RuntimeAssumption DEF IInv, TypeOK, HostTypeOK, Idle, Unbuilt, hostVars, routerVars
<1>1. TypeOK'
  <2>1. task[t].run \in Runtimes /\ MayRun(task[t].run)
    BY DEF Compute, Burn, InGuest, Shapes, Shape
  <2>2. [rt[task[t].run] EXCEPT !.fuel = @ - 1] \in RuntimeType
    BY <2>1, BurntIsRuntime
  <2> QED BY <2>1, <2>2 DEF Compute, Burn
<1>2. Shapes'
  BY DEF Compute, Burn, MayRun, InGuest, Shapes, Shape
<1>3. RoutedOnCurrent'
  BY DEF Compute, Burn, MayRun, InGuest, RoutedOnCurrent, Holds
<1>4. InstalledIsReady'
  BY DEF Compute, Burn, MayRun, InGuest, InstalledIsReady
<1>5. CheckedSurfaceHolds'
  BY DEF Compute, Burn, MayRun, InGuest, CheckedSurfaceHolds
<1> QED BY <1>1, <1>2, <1>3, <1>4, <1>5

\* A waiting guest keeps its runtime and the lock.
LEMMA SleepKeeps ==
  ASSUME IInv, NEW t \in Tasks, Sleep(t)
  PROVE  IInv'
<1> USE RouterAssumption, RuntimeAssumption DEF IInv, TypeOK, HostTypeOK, Idle, Unbuilt, hostVars, routerVars
<1>1. TypeOK'
  <2>1. rt' \in [Runtimes -> RuntimeType]
    BY DEF Sleep
  <2>2. task' \in [Tasks -> TaskType]
    <3>1. [task[t] EXCEPT !.pc = "asleep"] \in TaskType
      BY DEF TaskType, PCs
    <3> QED BY <3>1 DEF Sleep
  <2> QED BY <2>1, <2>2 DEF Sleep
<1>2. Shapes'
  BY DEF Sleep, Shapes, Shape
<1>3. RoutedOnCurrent'
  BY DEF Sleep, RoutedOnCurrent, Holds
<1>4. InstalledIsReady'
  BY DEF Sleep, InstalledIsReady
<1>5. CheckedSurfaceHolds'
  BY DEF Sleep, CheckedSurfaceHolds
<1> QED BY <1>1, <1>2, <1>3, <1>4, <1>5

\* The guest goes on where it was.
LEMMA WakeKeeps ==
  ASSUME IInv, NEW t \in Tasks, Wake(t)
  PROVE  IInv'
<1> USE RouterAssumption, RuntimeAssumption DEF IInv, TypeOK, HostTypeOK, Idle, Unbuilt, hostVars, routerVars
<1>1. TypeOK'
  <2>1. rt' \in [Runtimes -> RuntimeType]
    BY DEF Wake
  <2>2. task' \in [Tasks -> TaskType]
    <3>1. [task[t] EXCEPT !.pc = "call"] \in TaskType
      BY DEF TaskType, PCs
    <3> QED BY <3>1 DEF Wake
  <2> QED BY <2>1, <2>2 DEF Wake
<1>2. Shapes'
  BY DEF Wake, Shapes, Shape
<1>3. RoutedOnCurrent'
  BY DEF Wake, RoutedOnCurrent, Holds
<1>4. InstalledIsReady'
  BY DEF Wake, InstalledIsReady
<1>5. CheckedSurfaceHolds'
  BY DEF Wake, CheckedSurfaceHolds
<1> QED BY <1>1, <1>2, <1>3, <1>4, <1>5

-----------------------------------------------------------------------------

\* Nothing is built, installed or held at the start.
LEMMA InitIInv == Init => IInv
<1> SUFFICES ASSUME Init PROVE IInv
  OBVIOUS
<1> USE RouterAssumption, RuntimeAssumption DEF Init, HostInit
<1>1. Unbuilt \in RuntimeType
  <2>1. 0 \in 0..Fuel
    OBVIOUS
  <2> QED BY <2>1 DEF RuntimeType, Phases, Unbuilt
<1>2. Idle \in TaskType
  BY DEF Idle, TaskType, PCs
<1>3. TypeOK
  BY <1>1, <1>2 DEF TypeOK, HostTypeOK
<1>4. Shapes
  BY DEF Shapes, Shape, Idle
<1>5. RoutedOnCurrent /\ InstalledIsReady
  BY DEF RoutedOnCurrent, Holds, InstalledIsReady, Idle
<1>6. CheckedSurfaceHolds
  BY DEF CheckedSurfaceHolds, Unbuilt
<1> QED BY <1>3, <1>4, <1>5, <1>6 DEF IInv

\* Every step of the router and its runtimes keeps the invariant.
LEMMA NextKeeps == IInv /\ [Next]_vars => IInv'
<1> SUFFICES ASSUME IInv, [Next]_vars PROVE IInv'
  OBVIOUS
<1>1. CASE UNCHANGED vars
  BY <1>1 DEF IInv, TypeOK, HostTypeOK, Shapes, Shape, RoutedOnCurrent, Holds, InstalledIsReady,
              CheckedSurfaceHolds, VerifySurface, vars
<1>2. CASE EpochTick
  BY <1>2, EpochTickKeeps
<1>3. ASSUME NEW t \in Tasks, \E r \in Runtimes : Build(t, r)
      PROVE  IInv'
  BY <1>3, BuildKeeps
<1>8. ASSUME NEW t \in Tasks, CallNotInstantiated(t)
      PROVE  IInv'
  BY <1>8, CallNotInstantiatedKeeps
<1>4. ASSUME NEW t \in Tasks, NEW c \in Components, StartSkewed(t, c) \/ \E b \in BOOLEAN : Start(t, c, b)
      PROVE  IInv'
  BY <1>4, StartSkewedKeeps, StartKeeps
<1>5. ASSUME NEW t \in Tasks, NEW f \in Functions, Route(t, f) \/ CallOld(t, f)
      PROVE  IInv'
  BY <1>5, RouteKeeps, CallOldKeeps
<1>6. ASSUME NEW t \in Tasks, Install(t) \/ DropOld(t) \/ RoutePanics(t) \/ Enter(t) \/ Count(t)
      PROVE  IInv'
  BY <1>6, InstallKeeps, DropOldKeeps, RoutePanicsKeeps, EnterKeeps, CountKeeps
<1>7. ASSUME NEW t \in Tasks, GuestStep(t) \/ Sleep(t) \/ Wake(t)
      PROVE  IInv'
  BY <1>7, StartedKeeps, StartFailsKeeps, CallMissingKeeps, CallUnsupportedKeeps,
     CallRefusedKeeps, CallTrapsKeeps, CallReturnsKeeps, ComputeKeeps, SleepKeeps, WakeKeeps DEF GuestStep
<1> QED BY <1>1, <1>2, <1>3, <1>4, <1>5, <1>6, <1>7, <1>8 DEF Next

\* IInv holds in every reachable state.
LEMMA Invariance == Spec => []IInv
<1> QED BY InitIInv, NextKeeps, PTL DEF Spec

\* Type correctness of the router, the tasks and the runtimes: no tank runs below empty.
THEOREM TypeCorrect == Spec => []TypeOK
<1>1. IInv => TypeOK
  BY DEF IInv
<1> QED BY <1>1, Invariance, PTL

\* "The old runtime is quiesced": a routed call runs on the installed runtime, inside the
\* lock, and no runtime is in two hands, however many tasks swap and call.
THEOREM RoutedOnCurrentHolds == Spec => []RoutedOnCurrent
<1>1. IInv => RoutedOnCurrent
  BY DEF IInv
<1> QED BY <1>1, Invariance, PTL

\* A runtime that failed to start or was dropped is never installed.
THEOREM InstalledIsReadyHolds == Spec => []InstalledIsReady
<1>1. IInv => InstalledIsReady
  BY DEF IInv
<1> QED BY <1>1, Invariance, PTL

\* "Never as a wasm trap mid-request": for any surface, components, tasks and swaps, a call
\* of a function of the contract finds it on a runtime whose start was checked.
THEOREM CheckedSurface == Spec => NeverSkewedMidRequest
<1> DEFINE Found == \A t \in Tasks : CallMissing(t) /\ rt[task[t].run].checked
                                    => task[t].func \notin {e[1] : e \in Contract}
<1>1. IInv => Found
  <2> SUFFICES ASSUME IInv, NEW t \in Tasks, CallMissing(t), rt[task[t].run].checked,
                      NEW e \in Contract, task[t].func = e[1]
               PROVE  FALSE
    OBVIOUS
  <2>1. PICK q, f : q = task[t].run /\ f = task[t].func
    OBVIOUS
  <2>2. q \in Runtimes /\ f \in Functions /\ rt[q].phase = "ready" /\ rt[q].exports[f] = NoExport
    BY <2>1 DEF CallMissing, Exported, IInv, Shapes, Shape
  <2>3. SurfaceOf(rt[q].exports)[f] = e[2]
    BY <2>1, <2>2 DEF IInv, CheckedSurfaceHolds
  <2>4. SurfaceOf(rt[q].exports)[f] = NoExport
    BY <2>2 DEF SurfaceOf
  <2>5. e[2] \in Nat
    BY SurfaceAssumption DEF Contract
  <2> QED BY <2>3, <2>4, <2>5, SurfaceAssumption
<1> QED BY <1>1, Invariance, PTL DEF NeverSkewedMidRequest

-----------------------------------------------------------------------------
(* The count of answers.                                                   *)

\* A step that adds no task to those about to count, takes none from them, and neither
\* answers nor counts, leaves the balance as it is.
LEMMA BalanceUnchanged ==
  ASSUME EveryAnswerCounted, Pending' = Pending, UNCHANGED <<served, answers>>
  PROVE  EveryAnswerCounted'
<1>1. Cardinality(Pending') = Cardinality(Pending)
  OBVIOUS
<1> QED BY <1>1 DEF EveryAnswerCounted

\* The tasks about to count are finitely many.
LEMMA PendingFinite == IsFiniteSet(Pending) /\ Cardinality(Pending) \in Nat
<1>1. Pending \subseteq Tasks
  BY DEF Pending
<1> QED BY <1>1, RouterAssumption, FS_Subset, FS_CardinalityType

\* A task other than those that count or answer changes no balance.
LEMMA OthersKeepBalance ==
  ASSUME TypeOK, EveryAnswerCounted, NEW t \in Tasks, UNCHANGED <<served, answers>>,
         task[t].pc # "count", task'[t].pc # "count",
         \A u \in Tasks : u # t => task'[u] = task[u]
  PROVE  EveryAnswerCounted'
<1>1. Pending' = Pending
  BY DEF Pending
<1> QED BY <1>1, BalanceUnchanged

\* An answer adds one to both sides: its task is then about to count.
LEMMA AnswerKeepsBalance ==
  ASSUME TypeOK, EveryAnswerCounted, NEW t \in Tasks, CallReturns(t)
  PROVE  EveryAnswerCounted'
<1>1. task[t].pc = "call" /\ (\A u \in Tasks : u # t => task'[u] = task[u])
  BY DEF CallReturns
<1>2. CASE task[t].routed
  <2>1. task'[t].pc = "count" /\ answers' = answers + 1 /\ served' = served
    BY <1>2 DEF CallReturns, TypeOK, Ended, Idle
  <2>2. Pending' = Pending \cup {t} /\ t \notin Pending
    BY <1>1, <2>1 DEF Pending
  <2>3. Cardinality(Pending') = Cardinality(Pending) + 1
    BY <2>2, PendingFinite, FS_AddElement
  <2> QED BY <2>1, <2>3, PendingFinite DEF EveryAnswerCounted, TypeOK
<1>3. CASE ~task[t].routed
  <2>1. task'[t].pc = "idle" /\ UNCHANGED <<served, answers>>
    BY <1>3 DEF CallReturns, TypeOK, Ended, Idle
  <2> QED BY <1>1, <2>1, OthersKeepBalance
<1> QED BY <1>2, <1>3

\* The count takes its task from those about to count.
LEMMA CountKeepsBalance ==
  ASSUME TypeOK, EveryAnswerCounted, NEW t \in Tasks, Count(t)
  PROVE  EveryAnswerCounted'
<1>1. /\ task[t].pc = "count" /\ task'[t].pc = "idle"
      /\ \A u \in Tasks : u # t => task'[u] = task[u]
      /\ served' = served + 1 /\ answers' = answers
  BY DEF Count, TypeOK, TaskType
<1>2. Pending' = Pending \ {t} /\ t \in Pending
  BY <1>1 DEF Pending
<1>3. Cardinality(Pending') = Cardinality(Pending) - 1
  BY <1>2, PendingFinite, FS_RemoveElement
<1> QED BY <1>1, <1>3, PendingFinite DEF EveryAnswerCounted, TypeOK

\* Every step keeps the balance.
LEMMA NextKeepsBalance == IInv /\ EveryAnswerCounted /\ [Next]_vars => EveryAnswerCounted'
<1> SUFFICES ASSUME IInv, EveryAnswerCounted, [Next]_vars PROVE EveryAnswerCounted'
  OBVIOUS
<1> USE DEF IInv
<1>1. CASE UNCHANGED vars
  BY <1>1, BalanceUnchanged DEF vars, Pending
<1>2. CASE EpochTick
  <2>1. Pending' = Pending /\ UNCHANGED <<served, answers>>
    BY <1>2 DEF EpochTick, Pending, routerVars, TypeOK, TaskType
  <2> QED BY <2>1, BalanceUnchanged
<1> DEFINE Aside(t) == /\ UNCHANGED <<served, answers>>
                       /\ task[t].pc # "count" /\ task'[t].pc # "count"
                       /\ \A u \in Tasks : u # t => task'[u] = task[u]
<1>3. ASSUME NEW t \in Tasks, NEW r \in Runtimes, Build(t, r)
      PROVE  Aside(t)
  BY <1>3 DEF Build, Idle, routerVars, TypeOK
<1>4. ASSUME NEW t \in Tasks, NEW c \in Components, StartSkewed(t, c)
      PROVE  Aside(t)
  BY <1>4 DEF StartSkewed, vars
<1>11. ASSUME NEW t \in Tasks, CallNotInstantiated(t)
      PROVE  Aside(t)
  BY <1>11 DEF CallNotInstantiated, vars
<1>10. ASSUME NEW t \in Tasks, NEW c \in Components, NEW b \in BOOLEAN, Start(t, c, b)
      PROVE  Aside(t)
  BY <1>10 DEF Start, routerVars, TypeOK
<1>5. ASSUME NEW t \in Tasks, NEW f \in Functions, Route(t, f) \/ CallOld(t, f)
      PROVE  Aside(t)
  <2>1. CASE Route(t, f)
    BY <2>1 DEF Route, Idle, routerVars
  <2>2. CASE CallOld(t, f)
    BY <2>2 DEF CallOld, routerVars, TypeOK
  <2> HIDE DEF Aside
  <2> QED BY <1>5, <2>1, <2>2
<1>6. ASSUME NEW t \in Tasks, Install(t) \/ DropOld(t) \/ RoutePanics(t) \/ Enter(t)
      PROVE  Aside(t)
  <2>1. CASE Install(t)
    BY <2>1 DEF Install, Idle
  <2>2. CASE DropOld(t)
    BY <2>2 DEF DropOld, routerVars, TypeOK, TaskType
  <2>3. CASE RoutePanics(t)
    BY <2>3 DEF RoutePanics, routerVars, TypeOK
  <2>4. CASE Enter(t)
    BY <2>4 DEF Enter, TypeOK
  <2> HIDE DEF Aside
  <2> QED BY <1>6, <2>1, <2>2, <2>3, <2>4
<1>7. ASSUME NEW t \in Tasks,
             \/ Started(t) \/ StartFails(t) \/ CallMissing(t) \/ CallUnsupported(t)
             \/ CallRefused(t) \/ CallTraps(t) \/ Sleep(t) \/ Wake(t)
      PROVE  Aside(t)
  <2>1. CASE Started(t)
    BY <2>1 DEF Started, routerVars, TypeOK
  <2>2. CASE StartFails(t)
    BY <2>2 DEF StartFails, Idle, routerVars
  <2>3. CASE CallMissing(t)
    BY <2>3 DEF CallMissing, Ended, Idle
  <2>7. CASE CallUnsupported(t)
    BY <2>7 DEF CallUnsupported, Ended, Idle
  <2>8. CASE CallRefused(t)
    BY <2>8 DEF CallRefused, Ended, Idle
  <2>4. CASE CallTraps(t)
    BY <2>4 DEF CallTraps, Ended, Idle
  <2>5. CASE Sleep(t)
    BY <2>5 DEF Sleep, routerVars, TypeOK
  <2>6. CASE Wake(t)
    BY <2>6 DEF Wake, routerVars, TypeOK
  <2> HIDE DEF Aside
  <2> QED BY <1>7, <2>1, <2>2, <2>3, <2>4, <2>5, <2>6, <2>7, <2>8
<1>8. ASSUME NEW t \in Tasks, Compute(t)
      PROVE  Aside(t)
  BY <1>8 DEF Compute, InGuest, routerVars
<1>9. ASSUME NEW t \in Tasks, Aside(t)
      PROVE  EveryAnswerCounted'
  BY <1>9, OthersKeepBalance
<1> HIDE DEF Aside
<1> QED
  BY <1>1, <1>2, <1>3, <1>4, <1>5, <1>6, <1>7, <1>8, <1>9, <1>10, <1>11, AnswerKeepsBalance, CountKeepsBalance
     DEF Next, GuestStep

\* "The host's state counts across both runtimes continuously": for any number of tasks and
\* runtimes, every answer is counted once or about to be.
THEOREM EveryAnswerCountedHolds == Spec => []EveryAnswerCounted
<1>1. Init => EveryAnswerCounted
  <2> SUFFICES ASSUME Init PROVE EveryAnswerCounted
    OBVIOUS
  <2>1. Pending = {}
    BY DEF Init, Pending, Idle
  <2> QED BY <2>1, FS_EmptySet DEF Init, EveryAnswerCounted
<1> QED BY <1>1, Invariance, NextKeepsBalance, PTL DEF Spec
=============================================================================
