----------------------------- MODULE GuestHeap ------------------------------
(***************************************************************************)
(* The heap of a compiled guest (lean/wasm-backend/runtime.wat: $alloc,    *)
(* $rc_inc, $rc_dec) inside a retained instance that can run out of fuel,  *)
(* be snapshotted and be restored (crates/guestlang-rt/src/lib.rs).        *)
(*                                                                         *)
(* The allocator keeps one linked list of free blocks per size class; the  *)
(* head of class c is the word at address 4c, the link is the first word   *)
(* of a free block, which is the reference count of a live one.  Memory is *)
(* modelled by its words at list heads and block starts and by the class   *)
(* byte of each block.  What the guest stores in its objects is left out;  *)
(* the guest is any program that increments and decrements the counts of   *)
(* objects it holds.                                                       *)
(*                                                                         *)
(* $alloc and $rc_dec are split where the instance can trap inside them:   *)
(* fuel is charged on entering a block of code, so between the count       *)
(* reaching zero and the push, and between the bump and the growth.        *)
(***************************************************************************)
EXTENDS Integers, Sequences, FiniteSets

CONSTANTS
  Granule,          \* 16: bytes of a size class, and the bump's alignment
  Classes,          \* 6: pooled classes
  OversizedClass,   \* 255: class byte of a block past the largest class
  HeapBase,         \* 256: the first address of the heap
  PageSize,         \* 65536
  WordMod,          \* 2^32
  MaxPages,         \* pages after which memory.grow fails
  Sizes,            \* what the guest asks for: a header of 8 bytes and the rest, of
                    \* any length (a list or a string asks for its contents too)
  Objects,          \* names of the objects the guest holds at one time
  FreeOversized,    \* may the guest drop its last reference to an oversized block?
  CleanImages,      \* TRUE: snapshots are taken only while every list is empty
  MaxRefs,          \* bound: references to one object
  MaxHeap           \* bound: addresses, below the width of a word: no bump wraps

ASSUME HeapAssumption ==
  /\ Granule \in Nat /\ Granule >= 8
  /\ Classes \in Nat \ {0} /\ OversizedClass \in Nat /\ OversizedClass >= Classes
  /\ HeapBase \in Nat /\ 4 * Classes <= HeapBase /\ HeapBase % Granule = 0
  /\ PageSize \in Nat /\ HeapBase <= PageSize /\ 4 * OversizedClass < PageSize
  /\ (4 * OversizedClass) % Granule # 0
  /\ MaxPages \in Nat \ {0}
  /\ \A size \in Sizes : size \in Nat /\ size >= 8
  /\ FreeOversized \in BOOLEAN /\ CleanImages \in BOOLEAN
  /\ MaxRefs \in Nat \ {0} /\ MaxHeap \in Nat /\ PageSize <= MaxHeap
  /\ WordMod \in Nat /\ MaxHeap < WordMod /\ MaxRefs < WordMod

VARIABLES
  mem,       \* the word at an address
  class,     \* the class byte of the block at an address
  heap,      \* the global $heap: where the next bump goes
  heapEnd,   \* the global $heap-end
  pages,     \* size of the linear memory
  obj,       \* the guest's objects: address, size asked for, references held
  pend,      \* the rest of a running $alloc or $rc_dec
  blocks,    \* ghost: address and length of every block bumped so far
  pool,      \* ghost: what the list of each class should hold, head first
  lost       \* ghost: addresses whose owner was cut down by a trap

vars == <<mem, class, heap, heapEnd, pages, obj, pend, blocks, pool, lost>>

Addr == 0..MaxHeap
Nobody == [addr |-> 0, size |-> 0, refs |-> 0]
Idle == [op |-> "none"]
ListClasses == 0..(Classes - 1) \cup {OversizedClass}

Live == {o \in Objects : obj[o].refs > 0}
HeadOf(c) == 4 * c
ClassOf(size) == (size - 1) \div Granule
Pooled(size) == size > 0 /\ ClassOf(size) < Classes
RoundUp(n) == Granule * ((n + Granule - 1) \div Granule)

TypeOK ==
  /\ mem \in [Addr -> Nat] /\ class \in [Addr -> ListClasses]
  /\ heap \in Addr /\ heapEnd \in Nat /\ pages \in 1..MaxPages
  /\ obj \in [Objects -> [addr: Addr, size: Sizes \cup {0}, refs: 0..MaxRefs]]
  /\ pend \in {Idle} \cup [op: {"bump"}, o: Objects, addr: Addr, size: Sizes, grown: BOOLEAN]
                     \cup [op: {"push"}, addr: Addr]
  /\ blocks \subseteq [addr: Addr, len: Nat]
  /\ pool \in [ListClasses -> Seq(Addr)]
  /\ lost \subseteq Addr

\* Runtime::new: an instance of the module has its initial globals and memory size.
Fresh == [heap |-> HeapBase, heapEnd |-> PageSize, pages |-> 1]

Init ==
  /\ mem = [a \in Addr |-> 0] /\ class = [a \in Addr |-> 0]
  /\ heap = Fresh.heap /\ heapEnd = Fresh.heapEnd /\ pages = Fresh.pages
  /\ obj = [o \in Objects |-> Nobody]
  /\ pend = Idle
  /\ blocks = {} /\ pool = [c \in ListClasses |-> <<>>] /\ lost = {}

-----------------------------------------------------------------------------
(* $alloc.                                                                 *)

\* The class has a free block: unlink it and set its count.
Pop(o, size) ==
  LET c == ClassOf(size)
      p == mem[HeadOf(c)]
  IN /\ pend = Idle /\ o \notin Live
     /\ Pooled(size) /\ p # 0
     /\ mem' = [mem EXCEPT ![HeadOf(c)] = mem[p], ![p] = 1]
     /\ obj' = [obj EXCEPT ![o] = [addr |-> p, size |-> size, refs |-> 1]]
     /\ pool' = [pool EXCEPT ![c] = IF @ = <<>> THEN @ ELSE Tail(@)]
     /\ UNCHANGED <<class, heap, heapEnd, pages, pend, blocks, lost>>

\* No free block of the class, or no class: carve one at the bump pointer, which
\* a pooled block leaves aligned and an oversized one does not.
Bump(o, size) ==
  /\ pend = Idle /\ o \notin Live
  /\ ~(Pooled(size) /\ mem[HeadOf(ClassOf(size))] # 0)
  /\ RoundUp(heap + size) <= MaxHeap
  /\ heap' = IF Pooled(size) THEN RoundUp(heap + size) ELSE heap + size
  /\ pend' = [op |-> "bump", o |-> o, addr |-> heap, size |-> size, grown |-> FALSE]
  /\ UNCHANGED <<mem, class, heapEnd, pages, obj, blocks, pool, lost>>

\* The bump passed the end: one page more, whatever the size of the block.
Grow ==
  /\ pend.op = "bump" /\ ~pend.grown
  /\ heap > heapEnd
  /\ pages < MaxPages
  /\ pages' = pages + 1
  /\ heapEnd' = heapEnd + PageSize
  /\ pend' = [pend EXCEPT !.grown = TRUE]
  /\ UNCHANGED <<mem, class, heap, obj, blocks, pool, lost>>

\* Mutant of InitHeader: the end of the memory is not looked at.
InitHeaderUngrown ==
  /\ pend.op = "bump"
  /\ mem' = [mem EXCEPT ![pend.addr] = 1]
  /\ class' = [class EXCEPT ![pend.addr] =
                 IF Pooled(pend.size) THEN ClassOf(pend.size) ELSE OversizedClass]
  /\ obj' = [obj EXCEPT ![pend.o] = [addr |-> pend.addr, size |-> pend.size, refs |-> 1]]
  /\ blocks' = blocks \cup {[addr |-> pend.addr, len |-> heap - pend.addr]}
  /\ pend' = Idle
  /\ UNCHANGED <<heap, heapEnd, pages, pool, lost>>

\* Is the header of the block just bumped inside the memory?
HeaderFits == pend.addr + 8 <= PageSize * pages

InitHeader ==
  /\ pend.op = "bump"
  /\ pend.grown \/ heap <= heapEnd
  /\ HeaderFits
  /\ mem' = [mem EXCEPT ![pend.addr] = 1]
  /\ class' = [class EXCEPT ![pend.addr] =
                 IF Pooled(pend.size) THEN ClassOf(pend.size) ELSE OversizedClass]
  /\ obj' = [obj EXCEPT ![pend.o] = [addr |-> pend.addr, size |-> pend.size, refs |-> 1]]
  /\ blocks' = blocks \cup {[addr |-> pend.addr, len |-> heap - pend.addr]}
  /\ pend' = Idle
  /\ UNCHANGED <<heap, heapEnd, pages, pool, lost>>

-----------------------------------------------------------------------------
(* $rc_inc and $rc_dec.                                                    *)

RcInc(o) ==
  /\ pend = Idle /\ o \in Live
  /\ obj[o].refs < MaxRefs
  /\ mem' = [mem EXCEPT ![obj[o].addr] = (@ + 1) % WordMod]
  /\ obj' = [obj EXCEPT ![o].refs = @ + 1]
  /\ UNCHANGED <<class, heap, heapEnd, pages, pend, blocks, pool, lost>>

\* The guest gives up one reference, and with the last one its name for the object.
Dropped(o) ==
  /\ pend = Idle /\ o \in Live
  /\ obj[o].refs = 1 /\ ~Pooled(obj[o].size) => FreeOversized
  /\ obj' = [obj EXCEPT ![o] = IF obj[o].refs = 1 THEN Nobody
                               ELSE [obj[o] EXCEPT !.refs = obj[o].refs - 1]]

\* Mutants of RcDec: the test for zero inverted, and forgotten.
RcDecInverted(o) ==
  LET a == obj[o].addr
      rc == (mem[a] - 1) % WordMod
  IN /\ Dropped(o)
     /\ mem' = [mem EXCEPT ![a] = rc]
     /\ pend' = IF rc # 0 THEN [op |-> "push", addr |-> a] ELSE Idle
     /\ UNCHANGED <<class, heap, heapEnd, pages, blocks, pool, lost>>
RcDecForgets(o) ==
  /\ Dropped(o)
  /\ mem' = [mem EXCEPT ![obj[o].addr] = (@ - 1) % WordMod]
  /\ UNCHANGED <<class, heap, heapEnd, pages, pend, blocks, pool, lost>>

RcDec(o) ==
  LET a == obj[o].addr
      rc == (mem[a] - 1) % WordMod
  IN /\ Dropped(o)
     /\ mem' = [mem EXCEPT ![a] = rc]
     /\ pend' = IF rc = 0 THEN [op |-> "push", addr |-> a] ELSE Idle
     /\ UNCHANGED <<class, heap, heapEnd, pages, blocks, pool, lost>>

\* Mutant of Push: the head is stored before the link.
PushSwapped ==
  LET a == pend.addr
      c == class[a]
  IN /\ pend.op = "push"
     /\ mem' = [mem EXCEPT ![HeadOf(c)] = a, ![a] = a]
     /\ pool' = [pool EXCEPT ![c] = <<a>> \o @]
     /\ pend' = Idle
     /\ UNCHANGED <<class, heap, heapEnd, pages, obj, blocks, lost>>

\* The count is zero: the block becomes the head of its class's list.
Push ==
  LET a == pend.addr
      c == class[a]
  IN /\ pend.op = "push"
     /\ mem' = [mem EXCEPT ![a] = mem[HeadOf(c)], ![HeadOf(c)] = a]
     /\ pool' = [pool EXCEPT ![c] = <<a>> \o @]
     /\ pend' = Idle
     /\ UNCHANGED <<class, heap, heapEnd, pages, obj, blocks, lost>>

-----------------------------------------------------------------------------
(* Traps: the call is gone with everything it held, the instance stays.    *)

Trapped ==
  /\ obj' = [o \in Objects |-> Nobody]
  /\ pend' = Idle
  /\ lost' = lost \cup {obj[o].addr : o \in Live}
                  \cup (IF pend = Idle THEN {} ELSE {pend.addr})
  /\ UNCHANGED <<mem, class, heap, heapEnd, pages, blocks, pool>>

\* Fuel runs out in the guest's own code, before a push or before a growth.
OutOfFuel ==
  /\ pend.op = "bump" => ~pend.grown /\ heap > heapEnd
  /\ Trapped

\* memory.grow fails: unreachable.
OutOfMemory ==
  /\ pend.op = "bump" /\ ~pend.grown
  /\ heap > heapEnd
  /\ pages = MaxPages
  /\ Trapped

\* The one page was not enough, after an earlier trap or a block of several pages:
\* storing the header traps too.
OutOfBounds ==
  /\ pend.op = "bump"
  /\ pend.grown \/ heap <= heapEnd
  /\ ~HeaderFits
  /\ Trapped

-----------------------------------------------------------------------------
(* Runtime::snapshot and Snapshot::restore: between calls, the memory      *)
(* without the globals.                                                    *)

\* The instance followed from here on is a fresh one, grown to the size of an
\* image of the present memory and overwritten with it: its free lists are the
\* old ones, its globals are new.  (The old instance may go on: it shares nothing
\* with the restored one, so that the image is of the present loses nothing.)
Restore ==
  /\ pend = Idle /\ Live = {}
  /\ CleanImages => \A c \in ListClasses : mem[HeadOf(c)] = 0
  /\ heap' = Fresh.heap /\ heapEnd' = Fresh.heapEnd
  /\ blocks' = {} /\ lost' = {}
  /\ UNCHANGED <<mem, class, pages, obj, pend, pool>>

Next ==
  \/ \E o \in Objects, size \in Sizes : Pop(o, size) \/ Bump(o, size)
  \/ Grow \/ InitHeader
  \/ \E o \in Objects : RcInc(o) \/ RcDec(o)
  \/ Push
  \/ OutOfFuel \/ OutOfMemory \/ OutOfBounds
  \/ Restore

Spec == Init /\ [][Next]_vars

-----------------------------------------------------------------------------
(* Safety.                                                                 *)

Apart(x, y) == x.addr + x.size <= y.addr \/ y.addr + y.size <= x.addr

\* "An alloc never returns a block overlapping a live object": the bytes of the
\* objects the guest holds never overlap, nor do they reach into a list head.
NoAlias ==
  /\ \A o \in Live, q \in Live : o # q => Apart(obj[o], obj[q])
  /\ \A o \in Live, c \in ListClasses :
       mem[HeadOf(c)] # 0 => Apart(obj[o], [addr |-> HeadOf(c), size |-> 4])

\* The lists threaded through the free blocks are stacks: the words spell, from
\* the head on, exactly the blocks pushed and not popped, and end.
ListsSpellPools ==
  \A c \in ListClasses :
    LET s == pool[c]
        link(i) == IF i > Len(s) THEN 0 ELSE s[i]
    IN /\ mem[HeadOf(c)] = link(1)
       /\ \A i \in 1..Len(s) : mem[s[i]] = link(i + 1)

\* The count in an object's header is the number of references the guest holds.
RcIsRefs == \A o \in Live : mem[obj[o].addr] = obj[o].refs

\* The heap's words say what the guest and the pools are, between calls and inside them.
WellFormed == TypeOK /\ ListsSpellPools /\ RcIsRefs

\* A block the guest gave up can be used again: every block bumped is held, on
\* its way to a list or on one, unless a trap took its owner.
NothingLeaks ==
  \A b \in blocks :
    \/ \E o \in Live : obj[o].addr = b.addr
    \/ pend.op = "push" /\ pend.addr = b.addr
    \/ \E c \in ListClasses : \E i \in 1..Len(pool[c]) : pool[c][i] = b.addr
    \/ b.addr \in lost

\* Addresses bumped and never given out: a trap came between the bump and the header.
CutBumps == {x \in lost : \A b \in blocks : b.addr # x}

\* No bump up to `a` was cut short, and none was for more than a page.
SteadyUpTo(a) ==
  /\ \A x \in CutBumps : x > a
  /\ \A b \in blocks : b.addr <= a => b.len <= PageSize

\* The one page a bump grows is enough for every object until a block longer than a
\* page is bumped, or a trap leaves the bump pointer ahead for good: the objects up
\* to there lie inside the memory, after calls cut short elsewhere and in a restored
\* instance too.  (A longer block may end past the memory, and $alloc returns it.)
InMemory ==
  \A o \in Live : SteadyUpTo(obj[o].addr)
                 => obj[o].addr + obj[o].size <= PageSize * pages
=============================================================================
