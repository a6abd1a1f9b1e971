-------------------------- MODULE GuestHeap_proofs --------------------------
(***************************************************************************)
(* Proofs about GuestHeap, for every granule, number of classes, page      *)
(* size, set of sizes, number of objects and bound.                        *)
(*                                                                         *)
(* Two things the runtime needs and nothing checks are premises of every   *)
(* theorem: that snapshots are taken while every list is empty             *)
(* (CleanImages), and that the run stays Tidy.  The guest's strings and    *)
(* lists ask for sizes that end a run's tidiness, and dropping the last    *)
(* reference to one does: from there on the theorems say nothing.          *)
(***************************************************************************)
EXTENDS GuestHeap, TLAPS

Aligned(a) == a % Granule = 0

\* Every block so far begins on a granule, and no oversized block has been given up.
\* (A block begins off a granule after an oversized one of a length that is none; a
\* pooled block there is shorter than its class, and the list of oversized blocks has
\* its head inside the heap.)
Tidy ==
  /\ \A b \in blocks : Aligned(b.addr)
  /\ pool[OversizedClass] = <<>>

ClassByte(size) == IF Pooled(size) THEN ClassOf(size) ELSE OversizedClass
PoolClasses == 0..(Classes - 1)

\* Where the blocks end: a block is bumped before it is one.
Frontier == IF pend.op = "bump" THEN pend.addr ELSE heap
Starts == {b.addr : b \in blocks}

\* A block of `size` fits in `len` bytes, and so does any other block of its class.
Holds(len, size) ==
  size <= len /\ (Pooled(size) => Granule * (ClassOf(size) + 1) <= len)

\* The block under way fits below the bump pointer, if it begins on a granule.
BumpSane ==
  /\ HeapBase <= heap
  /\ pend.op = "bump" => /\ HeapBase <= pend.addr /\ pend.addr < heap
                         /\ Aligned(pend.addr) => Holds(heap - pend.addr, pend.size)
                         /\ pend.o \notin Live

\* Blocks lie aligned between the heap's base and the frontier, and are as long as
\* their class byte says.
BlockOK(b) ==
  /\ HeapBase <= b.addr /\ Aligned(b.addr)
  /\ 0 < b.len /\ b.addr + b.len <= Frontier
  /\ class[b.addr] \in PoolClasses => Granule * (class[b.addr] + 1) <= b.len

BlocksOK ==
  /\ \A b \in blocks : BlockOK(b)
  /\ \A b, d \in blocks : b = d \/ b.addr + b.len <= d.addr \/ d.addr + d.len <= b.addr

\* An object is the owner of a block of its class.
ObjectOK(o) ==
  /\ obj[o].size \in Sizes
  /\ class[obj[o].addr] = ClassByte(obj[o].size)
  /\ \E b \in blocks : b.addr = obj[o].addr /\ obj[o].size <= b.len

\* A list holds blocks of its class, each once.
PoolOK(c) ==
  /\ \A i \in 1..Len(pool[c]) : pool[c][i] \in Starts /\ class[pool[c][i]] = c
  /\ \A i, j \in 1..Len(pool[c]) : pool[c][i] = pool[c][j] => i = j

Listed(a) == \E c \in PoolClasses : \E i \in 1..Len(pool[c]) : pool[c][i] = a

\* A block has one owner at most: an object, a list, or the push under way.
OneOwner ==
  /\ \A o \in Live : ObjectOK(o) /\ ~Listed(obj[o].addr)
  /\ \A o, q \in Live : obj[o].addr = obj[q].addr => o = q
  /\ \A c \in PoolClasses : PoolOK(c)
  /\ pool[OversizedClass] = <<>>
  /\ pend.op = "push" =>
       /\ pend.addr \in Starts /\ class[pend.addr] \in ListClasses
       /\ ~Listed(pend.addr)
       /\ \A o \in Live : obj[o].addr # pend.addr

\* No bump was cut short and none was for more than a page.
Steady == CutBumps = {} /\ \A b \in blocks : b.len <= PageSize

\* While the heap is steady the memory reaches as far as the bump pointer, but for the
\* growth under way; and it reaches past every block up to which the heap was steady.
Extent ==
  /\ PageSize <= heapEnd /\ heapEnd <= PageSize * pages
  /\ \A x \in CutBumps : x < Frontier
  /\ Steady =>
       /\ Frontier <= heapEnd
       /\ pend.op = "bump" /\ heap - pend.addr <= PageSize
            => heap <= IF pend.grown THEN heapEnd ELSE heapEnd + PageSize
  /\ \A b \in blocks : SteadyUpTo(b.addr) => b.addr + b.len <= PageSize * pages

IInv == TypeOK /\ BumpSane /\ BlocksOK /\ OneOwner /\ ListsSpellPools /\ RcIsRefs

-----------------------------------------------------------------------------
(* Arithmetic.                                                             *)

\* Division rounds down.
LEMMA DivBounds ==
  ASSUME NEW a \in Int, NEW g \in Nat \ {0}
  PROVE  a \div g \in Int /\ g * (a \div g) <= a /\ a < g * (a \div g) + g
<1>1. a \div g \in Int
  OBVIOUS
<1>2. g * (a \div g) <= a
  OBVIOUS
<1>3. a < g * (a \div g) + g
  OBVIOUS
<1> QED BY <1>1, <1>2, <1>3

\* An aligned address is a number of granules.
LEMMA AlignedGranules ==
  ASSUME NEW a \in Nat, Aligned(a)
  PROVE  \E k \in Nat : a = Granule * k
<1> DEFINE k == a \div Granule
<1>1. k \in Int /\ a = Granule * k
  BY HeapAssumption DEF Aligned
<1>2. Granule * k < Granule * 0 => k < 0
  BY <1>1, HeapAssumption
<1>3. k < 0 => Granule * k < 0
  BY <1>1, HeapAssumption
<1> QED BY <1>1, <1>3

\* Fewer bytes than a granule more are no granule more.
LEMMA GranulesMonotone ==
  ASSUME NEW j \in Int, NEW k \in Int, Granule * j < Granule * k + Granule
  PROVE  j <= k
  BY HeapAssumption

\* The class of a size ($alloc) is a pooled one whose blocks are long enough.
LEMMA ClassBounds ==
  ASSUME NEW size \in Nat, Pooled(size)
  PROVE  ClassOf(size) \in PoolClasses /\ size <= Granule * (ClassOf(size) + 1)
<1> DEFINE c == ClassOf(size)
<1>1. c \in Int /\ Granule * c <= size - 1 /\ size - 1 < Granule * c + Granule
  BY DivBounds, HeapAssumption DEF ClassOf
<1>2. 0 <= c
  <2>1. Granule * 0 < Granule * c + Granule
    BY <1>1, HeapAssumption DEF Pooled
  <2> QED BY <1>1, <2>1, GranulesMonotone
<1>3. Granule * (c + 1) = Granule * c + Granule
  BY <1>1, HeapAssumption
<1> QED BY <1>1, <1>2, <1>3, HeapAssumption DEF Pooled, PoolClasses

\* Rounding up never goes below.
LEMMA RoundUpFits ==
  ASSUME NEW n \in Nat
  PROVE  RoundUp(n) \in Nat /\ n <= RoundUp(n)
<1> DEFINE k == (n + Granule - 1) \div Granule
<1>1. k \in Int /\ n + Granule - 1 < Granule * k + Granule
  BY DivBounds, HeapAssumption
<1>2. n <= Granule * k /\ Granule * k \in Int
  BY <1>1, HeapAssumption
<1> QED BY <1>2 DEF RoundUp

\* A pooled block bumped from an aligned address has the length of its class.
LEMMA RoundUpCovers ==
  ASSUME NEW h \in Nat, Aligned(h), NEW size \in Nat, Pooled(size)
  PROVE  h + Granule * (ClassOf(size) + 1) <= RoundUp(h + size)
<1> DEFINE c == ClassOf(size)
           k == (h + size + Granule - 1) \div Granule
<1>1. PICK j \in Nat : h = Granule * j
  BY AlignedGranules
<1>2. c \in Int /\ Granule * c <= size - 1
  BY DivBounds, HeapAssumption DEF ClassOf
<1>3. k \in Int /\ h + size + Granule - 1 < Granule * k + Granule
  BY DivBounds, HeapAssumption
<1>4. Granule * (j + c + 1) = Granule * j + Granule * c + Granule
  BY <1>1, <1>2, HeapAssumption
<1>5. Granule * (j + c + 1) < Granule * k + Granule
  BY <1>1, <1>2, <1>3, <1>4, HeapAssumption
<1>6. j + c + 1 <= k
  BY <1>1, <1>2, <1>3, <1>5, GranulesMonotone
<1>7. Granule * (j + c + 1) <= Granule * k
  BY <1>1, <1>2, <1>3, <1>6, HeapAssumption
<1>8. h + Granule * (c + 1) = Granule * (j + c + 1)
  BY <1>1, <1>2, HeapAssumption
<1> QED BY <1>7, <1>8 DEF RoundUp

\* A list head is no place for a block.
LEMMA Heads ==
  /\ \A c \in ListClasses : HeadOf(c) \in Addr
  /\ \A c \in ListClasses, a \in Addr : HeapBase <= a /\ Aligned(a) => a # HeadOf(c)
  /\ \A c, d \in ListClasses : HeadOf(c) = HeadOf(d) => c = d
  /\ \A c \in PoolClasses : HeadOf(c) + 4 <= HeapBase /\ c \in ListClasses /\ c # OversizedClass
<1>1. \A c \in ListClasses : c \in Nat /\ (c # OversizedClass => c \in PoolClasses)
  BY HeapAssumption DEF ListClasses, PoolClasses
<1>2. \A c \in PoolClasses : HeadOf(c) + 4 <= HeapBase /\ c \in ListClasses /\ c # OversizedClass
  BY HeapAssumption DEF PoolClasses, HeadOf, ListClasses
<1>3. \A c \in ListClasses : HeadOf(c) \in Addr
  BY <1>1, <1>2, HeapAssumption DEF HeadOf, Addr
<1>4. \A a \in Addr : Aligned(a) => a # HeadOf(OversizedClass)
  BY HeapAssumption DEF Aligned, HeadOf
<1>5. \A c, d \in ListClasses : HeadOf(c) = HeadOf(d) => c = d
  BY <1>1 DEF HeadOf
<1>6. \A c \in PoolClasses, a \in Addr : HeapBase <= a => a # HeadOf(c)
  BY <1>2, HeapAssumption DEF HeadOf, Addr, PoolClasses
<1> QED BY <1>1, <1>2, <1>3, <1>4, <1>5, <1>6

-----------------------------------------------------------------------------
(* What the invariant says of a block.                                     *)

\* A block starts where no list head is.
LEMMA StartFacts ==
  ASSUME IInv, NEW a \in Starts
  PROVE  /\ a \in Addr /\ HeapBase <= a /\ Aligned(a) /\ a # 0
         /\ \A c \in ListClasses : a # HeadOf(c)
<1>1. a \in Addr /\ HeapBase <= a /\ Aligned(a)
  BY DEF IInv, TypeOK, Starts, BlocksOK, BlockOK
<1>2. HeapBase \in Nat /\ 0 < HeapBase
  BY HeapAssumption
<1>3. a # 0
  BY <1>1, <1>2
<1> QED BY <1>1, <1>3, Heads

\* So does an object, and no list holds it.
LEMMA LiveFacts ==
  ASSUME IInv, NEW o \in Live
  PROVE  /\ obj[o].addr \in Starts /\ ~Listed(obj[o].addr)
         /\ mem[obj[o].addr] = obj[o].refs /\ obj[o].refs \in 1..MaxRefs
         /\ obj[o].size \in Sizes /\ obj[o].size \in Nat
<1>1. ObjectOK(o) /\ ~Listed(obj[o].addr)
  BY DEF IInv, OneOwner
<1>2. obj[o].refs \in 0..MaxRefs /\ obj[o].refs > 0
  BY DEF IInv, TypeOK, Live
<1>3. obj[o].addr \in Starts /\ obj[o].size \in Sizes
  BY <1>1 DEF ObjectOK, Starts
<1>4. mem[obj[o].addr] = obj[o].refs
  BY DEF IInv, RcIsRefs
<1>5. MaxRefs \in Nat /\ Sizes \subseteq Nat
  BY HeapAssumption
<1>6. obj[o].refs \in 1..MaxRefs
  BY <1>2, <1>5
<1>7. obj[o].size \in Nat
  BY <1>3, <1>5
<1> QED BY <1>1, <1>3, <1>4, <1>6, <1>7

\* The block at the head of a list.
LEMMA ListedFacts ==
  ASSUME IInv, NEW c \in PoolClasses, NEW i \in 1..Len(pool[c])
  PROVE  /\ pool[c][i] \in Starts /\ class[pool[c][i]] = c
         /\ Listed(pool[c][i])
         /\ \A d \in PoolClasses : \A j \in 1..Len(pool[d]) :
              pool[d][j] = pool[c][i] => d = c /\ j = i
  BY DEF IInv, OneOwner, PoolOK, Listed

\* A list stays as it is while nobody writes its head or its blocks.
LEMMA ListsStay ==
  ASSUME IInv, pool' = pool,
         \A c \in ListClasses : mem'[HeadOf(c)] = mem[HeadOf(c)],
         \A a \in Starts : Listed(a) => mem'[a] = mem[a]
  PROVE  ListsSpellPools'
<1> SUFFICES ASSUME NEW c \in ListClasses
             PROVE  /\ mem'[HeadOf(c)] = IF 1 > Len(pool[c]) THEN 0 ELSE pool[c][1]
                    /\ \A i \in 1..Len(pool[c]) :
                         mem'[pool[c][i]] = IF i + 1 > Len(pool[c]) THEN 0 ELSE pool[c][i + 1]
  BY DEF ListsSpellPools
<1>1. /\ mem[HeadOf(c)] = IF 1 > Len(pool[c]) THEN 0 ELSE pool[c][1]
      /\ \A i \in 1..Len(pool[c]) :
           mem[pool[c][i]] = IF i + 1 > Len(pool[c]) THEN 0 ELSE pool[c][i + 1]
  BY DEF IInv, ListsSpellPools
<1>2. \A i \in 1..Len(pool[c]) : c \in PoolClasses
  BY DEF IInv, OneOwner, ListClasses, PoolClasses
<1> QED BY <1>1, <1>2, ListedFacts

\* Owners stay owners while blocks, classes and lists stay and no object is new.
LEMMA OwnersStay ==
  ASSUME IInv, UNCHANGED <<class, blocks, pool>>,
         \A o \in Live' : o \in Live /\ obj'[o].addr = obj[o].addr /\ obj'[o].size = obj[o].size
  PROVE  /\ \A o \in Live' : ObjectOK(o)' /\ ~Listed(obj[o].addr)'
         /\ \A o, q \in Live' : obj'[o].addr = obj'[q].addr => o = q
         /\ \A c \in PoolClasses : PoolOK(c)'
         /\ pool'[OversizedClass] = <<>>
<1>1. \A o \in Live' : ObjectOK(o)' /\ ~Listed(obj[o].addr)'
  BY DEF IInv, OneOwner, ObjectOK, Listed
<1>2. \A o, q \in Live' : obj'[o].addr = obj'[q].addr => o = q
  BY DEF IInv, OneOwner
<1>3. \A c \in PoolClasses : PoolOK(c)'
  BY DEF IInv, OneOwner, PoolOK, Starts
<1> QED BY <1>1, <1>2, <1>3 DEF IInv, OneOwner

\* A count below the word's modulus wraps in neither direction.
LEMMA SmallMod == \A x \in Nat : x < WordMod => x % WordMod = x
  BY HeapAssumption

-----------------------------------------------------------------------------
(* One lemma per action.                                                   *)

\* Nothing is bumped, held or listed at the start.
LEMMA InitIInv == Init => IInv
<1> SUFFICES ASSUME Init PROVE IInv
  OBVIOUS
<1> USE HeapAssumption DEF Init, Fresh
<1>1. TypeOK
  <2>1. 0 \in Addr /\ HeapBase \in Addr /\ 0 \in ListClasses /\ 0 \in 0..MaxRefs
    BY DEF Addr, ListClasses
  <2>2. Nobody \in [addr: Addr, size: Sizes \cup {0}, refs: 0..MaxRefs]
    BY <2>1 DEF Nobody
  <2>3. mem \in [Addr -> Nat] /\ class \in [Addr -> ListClasses] /\ heap \in Addr
    BY <2>1
  <2>4. heapEnd \in Nat /\ pages \in 1..MaxPages /\ pool \in [ListClasses -> Seq(Addr)]
    OBVIOUS
  <2> QED BY <2>2, <2>3, <2>4 DEF TypeOK
<1>2. Live = {}
  BY DEF Live, Nobody
<1>3. BumpSane
  BY DEF BumpSane, Idle, Aligned
<1>4. BlocksOK
  BY DEF BlocksOK
<1>5. OneOwner
  BY <1>2 DEF OneOwner, PoolOK, ListClasses, PoolClasses, Idle
<1>6. ListsSpellPools
  BY Heads DEF ListsSpellPools
<1>7. RcIsRefs
  BY <1>2 DEF RcIsRefs
<1> QED BY <1>1, <1>3, <1>4, <1>5, <1>6, <1>7 DEF IInv

\* The block at the head of the class's list becomes the object's.
LEMMA PopKeeps ==
  ASSUME IInv, NEW o \in Objects, NEW size \in Sizes, Pop(o, size)
  PROVE  IInv'
<1> DEFINE c == ClassOf(size)
           p == mem[HeadOf(c)]
<1>1. size \in Nat /\ c \in PoolClasses /\ size <= Granule * (c + 1)
  BY SMTT(60), ClassBounds, HeapAssumption DEF Pop
<1>2. c \in ListClasses /\ HeadOf(c) \in Addr
  BY <1>1, Heads
<1>3. /\ pool[c] \in Seq(Addr) /\ Len(pool[c]) \in Nat /\ Len(pool[c]) # 0
      /\ p = pool[c][1]
  BY <1>2 DEF IInv, TypeOK, ListsSpellPools, Pop
<1>4. /\ p \in Starts /\ class[p] = c
      /\ \A d \in PoolClasses : \A j \in 1..Len(pool[d]) : pool[d][j] = p => d = c /\ j = 1
  BY <1>1, <1>3, ListedFacts
<1>5. p \in Addr /\ \A d \in ListClasses : p # HeadOf(d)
  BY <1>4, StartFacts
<1>6. /\ mem'[HeadOf(c)] = mem[p] /\ mem'[p] = 1 /\ mem' \in [Addr -> Nat]
      /\ \A a \in Addr : a # p /\ a # HeadOf(c) => mem'[a] = mem[a]
  BY <1>2, <1>5 DEF Pop, IInv, TypeOK
<1>7. /\ obj'[o] = [addr |-> p, size |-> size, refs |-> 1]
      /\ \A q \in Objects : q # o => obj'[q] = obj[q]
      /\ Live' = Live \cup {o} /\ o \notin Live
  BY DEF Pop, IInv, TypeOK, Live
<1>8. /\ pool'[c] = Tail(pool[c]) /\ pool' \in [ListClasses -> Seq(Addr)]
      /\ Len(pool'[c]) = Len(pool[c]) - 1
      /\ \A i \in 1..Len(pool'[c]) : pool'[c][i] = pool[c][i + 1] /\ i + 1 \in 1..Len(pool[c])
      /\ \A d \in ListClasses : d # c => pool'[d] = pool[d]
  BY <1>2, <1>3 DEF Pop, IInv, TypeOK
<1>9. UNCHANGED <<class, heap, heapEnd, pages, pend, blocks, lost>> /\ pend = Idle
  BY DEF Pop
<1>10. \A q \in Live : obj[q].addr # p /\ obj[q].addr \in Starts
  BY <1>1, <1>3, LiveFacts DEF Listed
<1>11. TypeOK'
  <2>1. obj' \in [Objects -> [addr: Addr, size: Sizes \cup {0}, refs: 0..MaxRefs]]
    <3>1. obj'[o] \in [addr: Addr, size: Sizes \cup {0}, refs: 0..MaxRefs]
      BY <1>5, <1>7, HeapAssumption
    <3> QED BY <3>1 DEF Pop, IInv, TypeOK
  <2> QED BY <1>6, <1>8, <1>9, <2>1 DEF TypeOK, IInv
<1>12. BumpSane'
  BY <1>7, <1>9 DEF IInv, BumpSane, Idle
<1>13. BlocksOK'
  BY <1>9 DEF IInv, BlocksOK, BlockOK, Frontier
<1>14. \A a : Listed(a)' => Listed(a) /\ a # p
  <2> SUFFICES ASSUME NEW a, NEW d \in PoolClasses, NEW i \in 1..Len(pool'[d]),
                      pool'[d][i] = a
               PROVE  a # p /\ \E j \in 1..Len(pool[d]) : pool[d][j] = a
    BY DEF Listed
  <2>1. CASE d = c
    <3>1. a = pool[c][i + 1] /\ i + 1 \in 1..Len(pool[c]) /\ i + 1 # 1
      <4>1. i \in 1..Len(pool'[c]) /\ pool'[c][i] = a
        BY <2>1
      <4> QED BY <1>3, <1>8, <4>1
    <3> QED BY <1>1, <1>4, <2>1, <3>1
  <2>2. CASE d # c
    BY <1>4, <1>8, <2>2, Heads
  <2> QED BY <2>1, <2>2
<1>15. OneOwner'
  <2>1. ASSUME NEW q \in Live' PROVE ObjectOK(q)' /\ ~Listed(obj[q].addr)'
    <3>1. CASE q = o
      <4>1. PICK b \in blocks : b.addr = p
        BY <1>4 DEF Starts
      <4>2. b.len \in Nat /\ Granule * (c + 1) <= b.len
        BY <1>1, <1>4, <4>1 DEF IInv, TypeOK, BlocksOK, BlockOK
      <4>3. size <= b.len
        BY <1>1, <4>2, HeapAssumption DEF PoolClasses
      <4>4. ClassByte(size) = c
        BY DEF ClassByte, Pop
      <4> QED BY <1>4, <1>7, <1>9, <1>14, <3>1, <4>1, <4>3, <4>4 DEF ObjectOK
    <3>2. CASE q # o
      BY <1>7, <1>9, <1>14, <3>2 DEF ObjectOK, IInv, OneOwner, Live
    <3> QED BY <3>1, <3>2
  <2>2. \A q, r \in Live' : obj'[q].addr = obj'[r].addr => q = r
    BY <1>7, <1>10 DEF IInv, OneOwner, Live
  <2>3. ASSUME NEW d \in PoolClasses PROVE PoolOK(d)'
    <3>1. CASE d = c
      <4>1. PoolOK(c)
        BY <1>1 DEF IInv, OneOwner
      <4>2. \A i \in 1..Len(pool'[c]) : pool'[c][i] \in Starts' /\ class'[pool'[c][i]] = c
        BY <1>8, <1>9, <4>1 DEF PoolOK, Starts
      <4>3. \A i, j \in 1..Len(pool'[c]) : pool'[c][i] = pool'[c][j] => i + 1 = j + 1
        <5>1. \A i, j \in 1..Len(pool[c]) : pool[c][i] = pool[c][j] => i = j
          BY <4>1 DEF PoolOK
        <5> QED BY <1>8, <5>1
      <4>4. \A i, j \in 1..Len(pool'[c]) : pool'[c][i] = pool'[c][j] => i = j
        BY <1>3, <1>8, <4>3
      <4> QED BY <3>1, <4>2, <4>4 DEF PoolOK
    <3>2. CASE d # c
      <4>1. pool'[d] = pool[d] /\ PoolOK(d)
        BY <1>8, <3>2, Heads DEF IInv, OneOwner
      <4> QED BY <1>9, <4>1 DEF PoolOK, Starts
    <3> QED BY <3>1, <3>2
  <2>4. pool'[OversizedClass] = <<>>
    BY <1>1, <1>8, Heads DEF IInv, OneOwner, ListClasses
  <2> QED BY <1>9, <2>1, <2>2, <2>3, <2>4 DEF OneOwner, Idle
<1>16. ListsSpellPools'
  <2> SUFFICES ASSUME NEW d \in ListClasses
               PROVE  /\ mem'[HeadOf(d)] = IF 1 > Len(pool'[d]) THEN 0 ELSE pool'[d][1]
                      /\ \A i \in 1..Len(pool'[d]) :
                           mem'[pool'[d][i]] = IF i + 1 > Len(pool'[d]) THEN 0 ELSE pool'[d][i + 1]
    BY DEF ListsSpellPools
  <2>1. /\ mem[HeadOf(d)] = IF 1 > Len(pool[d]) THEN 0 ELSE pool[d][1]
        /\ \A i \in 1..Len(pool[d]) :
             mem[pool[d][i]] = IF i + 1 > Len(pool[d]) THEN 0 ELSE pool[d][i + 1]
    BY DEF IInv, ListsSpellPools
  <2>2. \A i \in 1..Len(pool'[d]) : /\ pool'[d][i] # p /\ pool'[d][i] \in Starts
                                     /\ mem'[pool'[d][i]] = mem[pool'[d][i]]
    <3> SUFFICES ASSUME NEW i \in 1..Len(pool'[d])
                 PROVE  pool'[d][i] # p /\ pool'[d][i] \in Starts
      BY <1>2, <1>6, StartFacts
    <3>1. d \in PoolClasses
      BY <1>8, <1>1 DEF IInv, OneOwner, ListClasses, PoolClasses
    <3>2. Listed(pool[d][i])'
      BY <3>1 DEF Listed
    <3>3. Listed(pool'[d][i]) /\ pool'[d][i] # p
      BY <1>14, <3>2
    <3> QED BY <3>3, ListedFacts DEF Listed
  <2>3. CASE d = c
    <3>1. mem'[HeadOf(d)] = mem[pool[c][1]]
      BY <1>3, <1>6, <2>3
    <3>2. /\ 1 \in 1..Len(pool[c])
          /\ 1 > Len(pool'[c]) => 1 + 1 > Len(pool[c])
          /\ ~(1 > Len(pool'[c])) => pool'[c][1] = pool[c][1 + 1] /\ ~(1 + 1 > Len(pool[c]))
      BY <1>3, <1>8
    <3>3. ASSUME NEW i \in 1..Len(pool'[d])
          PROVE  mem'[pool'[d][i]] = IF i + 1 > Len(pool'[d]) THEN 0 ELSE pool'[d][i + 1]
      <4>1. /\ pool'[c][i] = pool[c][i + 1] /\ i + 1 \in 1..Len(pool[c])
            /\ i + 1 > Len(pool'[c]) => i + 1 + 1 > Len(pool[c])
            /\ ~(i + 1 > Len(pool'[c])) =>
                 pool'[c][i + 1] = pool[c][i + 1 + 1] /\ ~(i + 1 + 1 > Len(pool[c]))
        BY <1>3, <1>8, <2>3
      <4>2. mem'[pool'[c][i]] = mem[pool[c][i + 1]]
        BY <2>2, <2>3, <4>1
      <4> QED BY <2>1, <2>3, <4>1, <4>2
    <3>4. mem'[HeadOf(d)] = IF 1 > Len(pool'[d]) THEN 0 ELSE pool'[d][1]
      BY <2>1, <2>3, <3>1, <3>2
    <3> QED BY <3>3, <3>4
  <2>4. CASE d # c
    <3>1. mem'[HeadOf(d)] = mem[HeadOf(d)] /\ pool'[d] = pool[d]
      BY <1>2, <1>5, <1>6, <1>8, <2>4, Heads
    <3> QED BY <2>1, <2>2, <3>1
  <2> QED BY <2>3, <2>4
<1>17. RcIsRefs'
  BY <1>6, <1>7, <1>10, StartFacts, <1>2, LiveFacts, Heads DEF RcIsRefs, Live
<1> QED BY <1>11, <1>12, <1>13, <1>15, <1>16, <1>17 DEF IInv

\* A block is carved at the bump pointer: its owner is still to come.
LEMMA BumpKeeps ==
  ASSUME IInv, NEW o \in Objects, NEW size \in Sizes, Bump(o, size)
  PROVE  IInv'
<1> DEFINE top == IF Pooled(size) THEN RoundUp(heap + size) ELSE heap + size
<1>1. size \in Nat /\ 8 <= size /\ heap \in Nat /\ heap + size \in Nat
  BY SMTT(60), HeapAssumption DEF IInv, TypeOK, Addr
<1>2. /\ heap' = top /\ pend' = [op |-> "bump", o |-> o, addr |-> heap, size |-> size, grown |-> FALSE]
      /\ pend = Idle /\ o \notin Live
      /\ UNCHANGED <<mem, class, heapEnd, pages, obj, blocks, pool, lost>>
  BY DEF Bump
<1>3. /\ RoundUp(heap + size) \in Nat /\ heap + size <= RoundUp(heap + size)
      /\ RoundUp(heap + size) <= MaxHeap
  BY <1>1, RoundUpFits DEF Bump
<1>4. HeapBase <= heap
  BY DEF IInv, BumpSane
<1>5. top \in Addr /\ heap < top /\ HeapBase <= top
  BY <1>1, <1>3, <1>4, HeapAssumption DEF Addr
<1>6. ASSUME Aligned(heap) PROVE Holds(top - heap, size)
  <2>1. CASE Pooled(size)
    <3>1. heap + Granule * (ClassOf(size) + 1) <= top
      BY <1>1, <1>6, <2>1, RoundUpCovers
    <3>2. ClassOf(size) \in Int /\ Granule * (ClassOf(size) + 1) \in Int
      BY <1>1, <2>1, ClassBounds, HeapAssumption DEF PoolClasses
    <3> QED BY <1>1, <1>3, <2>1, <3>1, <3>2 DEF Holds
  <2>2. CASE ~Pooled(size)
    BY <1>1, <2>2 DEF Holds
  <2> QED BY <2>1, <2>2
<1>8. TypeOK'
  BY <1>2, <1>5 DEF IInv, TypeOK
<1>9. Live' = Live
  BY <1>2 DEF Live
<1>10. BumpSane'
  BY <1>2, <1>4, <1>5, <1>6, <1>9 DEF BumpSane
<1>11. Frontier' = Frontier
  BY <1>2 DEF Frontier, Idle
<1>12. BlocksOK'
  BY <1>2, <1>11 DEF IInv, BlocksOK, BlockOK
<1>13. OneOwner'
  BY <1>2, <1>9, OwnersStay DEF OneOwner
<1>14. ListsSpellPools' /\ RcIsRefs'
  BY <1>2, <1>9 DEF IInv, ListsSpellPools, RcIsRefs
<1> QED BY <1>8, <1>10, <1>12, <1>13, <1>14 DEF IInv

\* The memory grows under a bump.
LEMMA GrowKeeps ==
  ASSUME IInv, Grow
  PROVE  IInv'
<1>1. /\ pend.op = "bump" /\ pend' = [pend EXCEPT !.grown = TRUE]
      /\ pages' = pages + 1 /\ pages < MaxPages /\ heapEnd' = heapEnd + PageSize
      /\ UNCHANGED <<mem, class, heap, obj, blocks, pool, lost>>
  BY DEF Grow
<1>2. pend \in [op: {"bump"}, o: Objects, addr: Addr, size: Sizes, grown: BOOLEAN]
  BY <1>1 DEF IInv, TypeOK, Idle
<1>3. /\ pend' \in [op: {"bump"}, o: Objects, addr: Addr, size: Sizes, grown: BOOLEAN]
      /\ pend'.op = pend.op /\ pend'.addr = pend.addr /\ pend'.size = pend.size /\ pend'.o = pend.o
  BY <1>1, <1>2
<1>4. pages' \in 1..MaxPages /\ heapEnd' \in Nat
  <2>1. pages \in 1..MaxPages /\ heapEnd \in Nat
    BY DEF IInv, TypeOK
  <2>2. MaxPages \in Nat /\ PageSize \in Nat
    BY HeapAssumption
  <2> QED BY <1>1, <2>1, <2>2
<1>5. TypeOK'
  BY <1>1, <1>3, <1>4 DEF IInv, TypeOK
<1>6. Live' = Live /\ Frontier' = Frontier
  BY <1>1, <1>3 DEF Live, Frontier
<1>7. BumpSane'
  BY <1>1, <1>3, <1>6 DEF IInv, BumpSane
<1>8. BlocksOK'
  BY <1>1, <1>6 DEF IInv, BlocksOK, BlockOK
<1>9. OneOwner'
  BY <1>1, <1>3, <1>6, OwnersStay DEF OneOwner
<1>10. ListsSpellPools' /\ RcIsRefs'
  BY <1>1, <1>6 DEF IInv, ListsSpellPools, RcIsRefs
<1> QED BY <1>5, <1>7, <1>8, <1>9, <1>10 DEF IInv

\* The block gets its header, and the object asked for is its owner.
LEMMA InitHeaderKeeps ==
  ASSUME IInv, Tidy', InitHeader
  PROVE  IInv'
<1>0. /\ pend \in [op: {"bump"}, o: Objects, addr: Addr, size: Sizes, grown: BOOLEAN]
      /\ Sizes \subseteq Nat
  BY HeapAssumption DEF InitHeader, IInv, TypeOK, Idle
<1>2. PICK a \in Addr, o \in Objects, size \in Sizes, new \in {[addr |-> pend.addr, len |-> heap - pend.addr]} :
         a = pend.addr /\ o = pend.o /\ size = pend.size /\ new = [addr |-> a, len |-> heap - a]
  BY <1>0
<1>1. /\ pend.op = "bump" /\ mem' = [mem EXCEPT ![a] = 1]
      /\ class' = [class EXCEPT ![a] = ClassByte(size)]
      /\ obj' = [obj EXCEPT ![o] = [addr |-> a, size |-> size, refs |-> 1]]
      /\ blocks' = blocks \cup {new} /\ pend' = Idle
      /\ UNCHANGED <<heap, heapEnd, pages, pool, lost>>
  BY <1>2 DEF InitHeader, ClassByte
<1>3. o \in Objects /\ a \in Addr /\ size \in Sizes /\ size \in Nat /\ a \in Nat /\ heap \in Nat
  BY <1>0, HeapAssumption DEF IInv, TypeOK, Addr
<1>4. /\ HeapBase <= a /\ Aligned(a) /\ a < heap /\ Holds(heap - a, size) /\ o \notin Live
  <2>1. new \in blocks' /\ new.addr = a
    BY <1>1, <1>2
  <2>2. Aligned(a)
    BY <2>1 DEF Tidy, Aligned
  <2> QED BY <1>1, <1>2, <2>2 DEF IInv, BumpSane
<1>5. ClassByte(size) \in ListClasses
  BY <1>3, ClassBounds DEF ClassByte, ListClasses, PoolClasses
<1>6. \A c \in ListClasses : a # HeadOf(c)
  BY <1>3, <1>4, Heads
<1>7. Frontier = a /\ Frontier' = heap
  BY <1>1, <1>2 DEF Frontier, Idle
<1>8. \A b \in blocks : b.addr \in Nat /\ b.len \in Nat /\ BlockOK(b) /\ b.addr + b.len <= a /\ b.addr < a
  BY <1>3, <1>7 DEF IInv, TypeOK, BlocksOK, BlockOK, Addr
<1>9. a \notin Starts
  BY <1>3, <1>8 DEF Starts
<1>10. new.addr = a /\ new.len = heap - a /\ heap - a \in Nat /\ 0 < heap - a /\ a + (heap - a) = heap
  BY <1>2, <1>3, <1>4
<1>11. /\ mem'[a] = 1 /\ \A x \in Addr : x # a => mem'[x] = mem[x] /\ class'[x] = class[x]
       /\ class'[a] = ClassByte(size)
       /\ mem' \in [Addr -> Nat] /\ class' \in [Addr -> ListClasses]
  BY <1>1, <1>3, <1>5 DEF IInv, TypeOK
<1>12. /\ obj'[o] = [addr |-> a, size |-> size, refs |-> 1]
       /\ \A q \in Objects : q # o => obj'[q] = obj[q]
       /\ Live' = Live \cup {o}
  BY <1>1, <1>3 DEF IInv, TypeOK, Live
<1>13. TypeOK'
  <2>1. obj' \in [Objects -> [addr: Addr, size: Sizes \cup {0}, refs: 0..MaxRefs]]
    <3>1. obj'[o] \in [addr: Addr, size: Sizes \cup {0}, refs: 0..MaxRefs]
      BY <1>3, <1>12, HeapAssumption
    <3> QED BY <1>1, <3>1 DEF IInv, TypeOK
  <2>2. blocks' \subseteq [addr: Addr, len: Nat]
    BY <1>1, <1>2, <1>3, <1>10 DEF IInv, TypeOK
  <2> QED BY <1>1, <1>11, <2>1, <2>2 DEF IInv, TypeOK
<1>14. BumpSane'
  BY <1>1 DEF IInv, BumpSane, Idle
<1>15. BlocksOK'
  <2>1. ASSUME NEW b \in blocks PROVE BlockOK(b)'
    <3>1. b.addr \in Addr /\ b.addr # a
      BY <1>3, <1>8 DEF IInv, TypeOK
    <3>2. class'[b.addr] = class[b.addr]
      BY <1>11, <3>1
    <3>3. b.addr + b.len <= heap
      BY <1>3, <1>4, <1>8
    <3> QED BY <1>7, <1>8, <3>2, <3>3 DEF BlockOK
  <2>2. BlockOK(new)'
    <3>1. class'[a] \in PoolClasses => Pooled(size) /\ class'[a] = ClassOf(size)
      BY <1>11, HeapAssumption DEF ClassByte, PoolClasses
    <3>2. class'[a] \in PoolClasses => Granule * (class'[a] + 1) <= heap - a
      BY <1>4, <3>1 DEF Holds
    <3> QED BY <1>3, <1>4, <1>7, <1>10, <3>2 DEF BlockOK
  <2>3. \A b, d \in blocks' : b = d \/ b.addr + b.len <= d.addr \/ d.addr + d.len <= b.addr
    BY <1>1, <1>8, <1>10 DEF IInv, BlocksOK
  <2> QED BY <1>1, <2>1, <2>2, <2>3 DEF BlocksOK
<1>16. /\ \A x : Listed(x) => x \in Starts
       /\ \A x : Listed(x)' <=> Listed(x)
       /\ Starts' = Starts \cup {a}
       /\ \A x \in Starts : x \in Addr /\ x # a
  <2>1. \A x : Listed(x) => x \in Starts
    BY ListedFacts DEF Listed
  <2>2. \A x : Listed(x)' <=> Listed(x)
    BY <1>1 DEF Listed
  <2>3. Starts' = Starts \cup {a}
    BY <1>1, <1>10 DEF Starts
  <2> QED BY <1>9, <2>1, <2>2, <2>3, StartFacts
<1>17. OneOwner'
  <2>1. ASSUME NEW q \in Live' PROVE ObjectOK(q)' /\ ~Listed(obj[q].addr)'
    <3>1. CASE q = o
      <4>1. size <= new.len /\ new \in blocks' /\ new.addr = a
        BY <1>1, <1>4, <1>10 DEF Holds
      <4>2. ~Listed(a)
        BY <1>9, <1>16
      <4>3. ObjectOK(o)'
        BY <1>3, <1>11, <1>12, <4>1 DEF ObjectOK
      <4> QED BY <1>12, <1>16, <3>1, <4>2, <4>3
    <3>2. CASE q # o
      <4>1. q \in Live /\ obj'[q] = obj[q]
        BY <1>12, <3>2 DEF Live
      <4>2. obj[q].addr \in Starts /\ ~Listed(obj[q].addr) /\ ObjectOK(q)
        BY <4>1, LiveFacts DEF IInv, OneOwner
      <4>3. class'[obj[q].addr] = class[obj[q].addr]
        BY <1>11, <1>16, <4>2
      <4>4. ObjectOK(q)'
        BY <1>1, <4>1, <4>2, <4>3 DEF ObjectOK
      <4> QED BY <1>16, <4>1, <4>2, <4>4
    <3> QED BY <3>1, <3>2
  <2>2. \A q, r \in Live' : obj'[q].addr = obj'[r].addr => q = r
    <3>1. \A q \in Live : obj[q].addr # a
      BY <1>9, LiveFacts
    <3> QED BY <1>12, <3>1 DEF IInv, OneOwner, Live
  <2>3. ASSUME NEW c \in PoolClasses PROVE PoolOK(c)'
    <3>1. PoolOK(c)
      BY DEF IInv, OneOwner
    <3>2. \A i \in 1..Len(pool[c]) : class'[pool[c][i]] = class[pool[c][i]]
      BY <1>11, <1>16, <3>1 DEF PoolOK
    <3> QED BY <1>1, <1>16, <3>1, <3>2 DEF PoolOK
  <2>4. pool'[OversizedClass] = <<>>
    BY <1>1 DEF IInv, OneOwner
  <2> QED BY <1>1, <2>1, <2>2, <2>3, <2>4 DEF OneOwner, Idle
<1>18. ListsSpellPools'
  BY <1>1, <1>6, <1>11, <1>16, ListsStay, Heads
<1>19. RcIsRefs'
  <2>1. \A q \in Live : obj[q].addr \in Addr /\ obj[q].addr # a
    BY <1>9, <1>16, LiveFacts
  <2> QED BY <1>11, <1>12, <2>1 DEF IInv, RcIsRefs, Live
<1> QED BY <1>13, <1>14, <1>15, <1>17, <1>18, <1>19 DEF IInv

\* One reference more.
LEMMA RcIncKeeps ==
  ASSUME IInv, NEW o \in Objects, RcInc(o)
  PROVE  IInv'
<1>1. PICK a, n : a = obj[o].addr /\ n = obj[o].refs
  OBVIOUS
<1>2. /\ pend = Idle /\ o \in Live /\ n < MaxRefs
      /\ mem' = [mem EXCEPT ![a] = (mem[a] + 1) % WordMod]
      /\ obj' = [obj EXCEPT ![o].refs = n + 1]
      /\ UNCHANGED <<class, heap, heapEnd, pages, pend, blocks, pool, lost>>
  BY <1>1 DEF RcInc
<1>3. /\ a \in Starts /\ ~Listed(a) /\ mem[a] = n /\ n \in 1..MaxRefs
      /\ a \in Addr /\ \A c \in ListClasses : a # HeadOf(c)
  BY <1>1, <1>2, LiveFacts, StartFacts
<1>4. /\ n + 1 \in 1..MaxRefs /\ n + 1 \in Nat /\ n + 1 < WordMod
  BY <1>2, <1>3, HeapAssumption
<1>5. /\ mem'[a] = n + 1 /\ mem' \in [Addr -> Nat]
      /\ \A x \in Addr : x # a => mem'[x] = mem[x]
  BY <1>2, <1>3, <1>4, SmallMod DEF IInv, TypeOK
<1>6. /\ obj' \in [Objects -> [addr: Addr, size: Sizes \cup {0}, refs: 0..MaxRefs]]
      /\ obj'[o].refs = n + 1
      /\ \A q \in Objects : obj'[q].addr = obj[q].addr /\ obj'[q].size = obj[q].size
      /\ \A q \in Objects : q # o => obj'[q] = obj[q]
  <2>1. n + 1 \in 0..MaxRefs
    BY <1>4
  <2> QED BY <1>2, <2>1 DEF IInv, TypeOK
<1>7. Live' = Live
  <2>1. n + 1 > 0
    BY <1>4
  <2> QED BY <1>2, <1>6, <2>1 DEF Live
<1>8. TypeOK'
  BY <1>2, <1>5, <1>6 DEF IInv, TypeOK
<1>9. BumpSane' /\ BlocksOK'
  BY <1>2, <1>7 DEF IInv, BumpSane, BlocksOK, BlockOK, Frontier, Idle
<1>10. OneOwner'
  <2>1. \A q \in Live' : q \in Live /\ obj'[q].addr = obj[q].addr /\ obj'[q].size = obj[q].size
    BY <1>6, <1>7 DEF Live
  <2> QED BY <1>2, <2>1, OwnersStay DEF OneOwner, Idle
<1>11. ListsSpellPools'
  BY <1>2, <1>3, <1>5, ListsStay
<1>12. RcIsRefs'
  <2>1. \A q \in Live : q # o => obj[q].addr # a
    BY <1>1, <1>2 DEF IInv, OneOwner
  <2> QED BY <1>1, <1>2, <1>5, <1>6, <1>7, <2>1 DEF IInv, RcIsRefs, Live
<1> QED BY <1>8, <1>9, <1>10, <1>11, <1>12 DEF IInv

\* One reference less: the last one leaves the block's push to do.
LEMMA RcDecKeeps ==
  ASSUME IInv, NEW o \in Objects, RcDec(o)
  PROVE  IInv'
<1>1. PICK a, n : a = obj[o].addr /\ n = obj[o].refs
  OBVIOUS
<1>2. /\ pend = Idle /\ o \in Live
      /\ mem' = [mem EXCEPT ![a] = (mem[a] - 1) % WordMod]
      /\ pend' = IF (mem[a] - 1) % WordMod = 0 THEN [op |-> "push", addr |-> a] ELSE Idle
      /\ obj' = [obj EXCEPT ![o] = IF n = 1 THEN Nobody ELSE [obj[o] EXCEPT !.refs = n - 1]]
      /\ UNCHANGED <<class, heap, heapEnd, pages, blocks, pool, lost>>
  <2>1. RcDec(o) /\ Dropped(o)
    BY DEF RcDec
  <2>3. obj' = [obj EXCEPT ![o] = IF n = 1 THEN Nobody ELSE [obj[o] EXCEPT !.refs = n - 1]]
    BY <1>1, <2>1 DEF Dropped
  <2>4. pend = Idle /\ o \in Live
    BY <2>1 DEF Dropped
  <2>5. /\ mem' = [mem EXCEPT ![a] = (mem[a] - 1) % WordMod]
        /\ pend' = IF (mem[a] - 1) % WordMod = 0 THEN [op |-> "push", addr |-> a] ELSE Idle
        /\ UNCHANGED <<class, heap, heapEnd, pages, blocks, pool, lost>>
    BY <1>1, <2>1 DEF RcDec
  <2> QED BY <2>3, <2>4, <2>5
<1>3. /\ a \in Starts /\ ~Listed(a) /\ mem[a] = n /\ n \in 1..MaxRefs
      /\ a \in Addr /\ \A c \in ListClasses : a # HeadOf(c)
      /\ obj[o].size \in Sizes /\ obj[o].size \in Nat
  BY <1>1, <1>2, LiveFacts, StartFacts
<1>4. n - 1 \in 0..MaxRefs /\ n - 1 \in Nat /\ n - 1 < WordMod /\ (n - 1 = 0 <=> n = 1)
  BY <1>3, HeapAssumption
<1>5. /\ mem'[a] = n - 1 /\ mem' \in [Addr -> Nat]
      /\ \A x \in Addr : x # a => mem'[x] = mem[x]
      /\ pend' = IF n = 1 THEN [op |-> "push", addr |-> a] ELSE Idle
  BY <1>2, <1>3, <1>4, SmallMod DEF IInv, TypeOK
<1>6. /\ obj' \in [Objects -> [addr: Addr, size: Sizes \cup {0}, refs: 0..MaxRefs]]
      /\ n = 1 => obj'[o].refs = 0
      /\ n # 1 => obj'[o].refs = n - 1 /\ obj'[o].addr = a /\ obj'[o].size = obj[o].size
      /\ \A q \in Objects : q # o => obj'[q] = obj[q]
  <2>1. Nobody \in [addr: Addr, size: Sizes \cup {0}, refs: 0..MaxRefs] /\ Nobody.refs = 0
    BY HeapAssumption DEF Nobody, Addr
  <2> QED BY ZenonT(60), <1>1, <1>2, <1>4, <2>1 DEF IInv, TypeOK
<1>7. Live' = IF n = 1 THEN Live \ {o} ELSE Live
  <2>1. n # 1 => n - 1 > 0
    BY <1>3
  <2> QED BY <1>2, <1>6, <2>1 DEF Live
<1>8. TypeOK'
  BY SMTT(60), <1>2, <1>3, <1>5, <1>6 DEF IInv, TypeOK
<1>9. BumpSane' /\ BlocksOK'
  BY <1>2, <1>5 DEF IInv, BumpSane, BlocksOK, BlockOK, Frontier, Idle
<1>10. \A q \in Live' : /\ q \in Live /\ obj'[q].addr = obj[q].addr /\ obj'[q].size = obj[q].size
                        /\ n = 1 => q # o
  BY <1>1, <1>6, <1>7 DEF Live
<1>11. \A q \in Live : q # o => obj[q].addr # a
  BY <1>1, <1>2 DEF IInv, OneOwner
<1>12. class[a] \in ListClasses
  BY <1>3 DEF IInv, TypeOK
<1>13. OneOwner'
  <2>1. pend'.op = "push" =>
          /\ pend'.addr \in Starts' /\ class'[pend'.addr] \in ListClasses
          /\ ~Listed(pend.addr)'
          /\ \A q \in Live' : obj'[q].addr # pend'.addr
    BY <1>2, <1>3, <1>5, <1>10, <1>11, <1>12 DEF Idle, Starts, Listed
  <2> QED BY <1>2, <1>10, <2>1, OwnersStay DEF OneOwner
<1>14. ListsSpellPools'
  BY <1>2, <1>3, <1>5, ListsStay
<1>15. RcIsRefs'
  BY <1>1, <1>2, <1>5, <1>6, <1>7, <1>10, <1>11 DEF IInv, RcIsRefs, Live
<1> QED BY <1>8, <1>9, <1>13, <1>14, <1>15 DEF IInv

\* The block becomes the head of its class's list, and the old head its link.
LEMMA PushKeeps ==
  ASSUME IInv, Tidy', Push
  PROVE  IInv'
<1>1. PICK a, c : a = pend.addr /\ c = class[a]
  OBVIOUS
<1>2. /\ pend.op = "push" /\ pend' = Idle
      /\ mem' = [mem EXCEPT ![a] = mem[HeadOf(c)], ![HeadOf(c)] = a]
      /\ pool' = [pool EXCEPT ![c] = <<a>> \o @]
      /\ UNCHANGED <<class, heap, heapEnd, pages, obj, blocks, lost>>
  BY <1>1 DEF Push
<1>3. /\ a \in Starts /\ c \in PoolClasses /\ ~Listed(a)
      /\ \A o \in Live : obj[o].addr # a
  <2>1. /\ a \in Starts /\ c \in ListClasses /\ ~Listed(a)
        /\ \A o \in Live : obj[o].addr # a
    BY <1>1, <1>2 DEF IInv, OneOwner
  <2>2. a \in Addr /\ pool[c] \in Seq(Addr)
    BY <2>1, StartFacts DEF IInv, TypeOK
  <2>3. pool'[c] = <<a>> \o pool[c]
    BY <1>2, <2>1 DEF IInv, TypeOK
  <2>4. Len(pool'[c]) # 0
    BY <2>2, <2>3
  <2>5. c # OversizedClass
    BY <2>4 DEF Tidy
  <2> QED BY <2>1, <2>5 DEF ListClasses, PoolClasses
<1>4. /\ c \in ListClasses /\ HeadOf(c) \in Addr /\ c # OversizedClass
      /\ a \in Addr /\ \A d \in ListClasses : a # HeadOf(d)
  BY <1>3, StartFacts, Heads
<1>5. /\ mem'[a] = mem[HeadOf(c)] /\ mem'[HeadOf(c)] = a /\ mem' \in [Addr -> Nat]
      /\ \A x \in Addr : x # a /\ x # HeadOf(c) => mem'[x] = mem[x]
  <2>1. mem \in [Addr -> Nat] /\ a \in Nat /\ mem[HeadOf(c)] \in Nat /\ a # HeadOf(c)
    BY <1>4 DEF IInv, TypeOK, Addr
  <2>2. mem'[a] = mem[HeadOf(c)] /\ mem'[HeadOf(c)] = a
    BY <1>2, <1>4, <2>1
  <2>3. mem' \in [Addr -> Nat]
    BY <1>2, <1>4, <2>1
  <2>4. \A x \in Addr : x # a /\ x # HeadOf(c) => mem'[x] = mem[x]
    BY <1>2, <2>1
  <2> QED BY <2>2, <2>3, <2>4
<1>6. pool[c] \in Seq(Addr) /\ Len(pool[c]) \in Nat /\ <<a>> \in Seq(Addr)
  BY <1>4 DEF IInv, TypeOK
<1>7. /\ pool'[c] = <<a>> \o pool[c] /\ pool' \in [ListClasses -> Seq(Addr)]
      /\ Len(pool'[c]) = Len(pool[c]) + 1 /\ pool'[c][1] = a
      /\ \A i \in 1..Len(pool[c]) : pool'[c][i + 1] = pool[c][i]
      /\ \A i \in 1..Len(pool'[c]) : i # 1 => pool'[c][i] = pool[c][i - 1] /\ i - 1 \in 1..Len(pool[c])
      /\ \A d \in ListClasses : d # c => pool'[d] = pool[d]
  <2>1. pool'[c] = <<a>> \o pool[c] /\ \A d \in ListClasses : d # c => pool'[d] = pool[d]
    BY <1>2, <1>4 DEF IInv, TypeOK
  <2>2. pool' \in [ListClasses -> Seq(Addr)]
    <3>1. <<a>> \o pool[c] \in Seq(Addr)
      BY <1>6
    <3> QED BY <1>2, <3>1 DEF IInv, TypeOK
  <2>3. Len(pool'[c]) = Len(pool[c]) + 1 /\ pool'[c][1] = a
    BY <1>6, <2>1
  <2>4. ASSUME NEW i \in 1..Len(pool[c]) PROVE pool'[c][i + 1] = pool[c][i]
    BY <1>6, <2>1
  <2>5. ASSUME NEW i \in 1..Len(pool'[c]), i # 1
        PROVE  pool'[c][i] = pool[c][i - 1] /\ i - 1 \in 1..Len(pool[c])
    BY <1>6, <2>1, <2>3, <2>5
  <2> QED BY <2>1, <2>2, <2>3, <2>4, <2>5
<1>8. Live' = Live
  BY <1>2 DEF Live
<1>9. TypeOK'
  BY <1>2, <1>5, <1>7 DEF IInv, TypeOK
<1>10. BumpSane' /\ BlocksOK'
  BY <1>2 DEF IInv, BumpSane, BlocksOK, BlockOK, Frontier, Idle
<1>11. \A x : Listed(x)' => Listed(x) \/ x = a
  <2> SUFFICES ASSUME NEW x, NEW d \in PoolClasses, NEW i \in 1..Len(pool'[d]),
                      pool'[d][i] = x, x # a
               PROVE  Listed(x)
    BY DEF Listed
  <2>1. CASE d = c
    <3>1. i \in 1..Len(pool'[c]) /\ pool'[c][i] = x /\ i # 1
      BY <1>7, <2>1
    <3>2. x = pool[c][i - 1] /\ i - 1 \in 1..Len(pool[c])
      BY <1>7, <3>1
    <3> QED BY <1>3, <3>2 DEF Listed
  <2>2. CASE d # c
    BY <1>7, <2>2, Heads DEF Listed
  <2> QED BY <2>1, <2>2
<1>12. OneOwner'
  <2>1. ASSUME NEW q \in Live' PROVE ObjectOK(q)' /\ ~Listed(obj[q].addr)'
    BY <1>2, <1>3, <1>8, <1>11 DEF IInv, OneOwner, ObjectOK
  <2>2. \A q, r \in Live' : obj'[q].addr = obj'[r].addr => q = r
    BY <1>2, <1>8 DEF IInv, OneOwner
  <2>3. ASSUME NEW d \in PoolClasses PROVE PoolOK(d)'
    <3>1. PoolOK(d)
      BY DEF IInv, OneOwner
    <3>2. CASE d = c
      <4>0. /\ \A i \in 1..Len(pool[c]) : pool[c][i] \in Starts /\ class[pool[c][i]] = c
            /\ \A i, j \in 1..Len(pool[c]) : pool[c][i] = pool[c][j] => i = j
        BY <3>1, <3>2 DEF PoolOK
      <4>1. ASSUME NEW i \in 1..Len(pool'[c])
            PROVE  pool'[c][i] \in Starts' /\ class'[pool'[c][i]] = c
        <5>1. CASE i = 1
          BY <1>1, <1>2, <1>3, <1>7, <5>1 DEF Starts
        <5>2. CASE i # 1
          <6>1. pool'[c][i] = pool[c][i - 1] /\ i - 1 \in 1..Len(pool[c])
            BY <1>7, <5>2
          <6>2. pool'[c][i] \in Starts /\ class[pool'[c][i]] = c
            BY <4>0, <6>1
          <6> QED BY <1>2, <6>2 DEF Starts
        <5> QED BY <5>1, <5>2
      <4>2. \A i \in 1..Len(pool'[c]) : i # 1 => pool'[c][i] # a
        BY <1>3, <1>7 DEF Listed
      <4>3. \A i, j \in 1..Len(pool'[c]) : pool'[c][i] = pool'[c][j] => i = j
        <5> SUFFICES ASSUME NEW i \in 1..Len(pool'[c]), NEW j \in 1..Len(pool'[c]),
                            pool'[c][i] = pool'[c][j], i # 1, j # 1
                     PROVE  i = j
          BY <1>7, <4>2
        <5>1. i - 1 = j - 1
          <6>1. pool'[c][i] = pool[c][i - 1] /\ i - 1 \in 1..Len(pool[c])
            BY <1>7
          <6>2. pool'[c][j] = pool[c][j - 1] /\ j - 1 \in 1..Len(pool[c])
            BY <1>7
          <6>3. pool[c][i - 1] = pool[c][j - 1]
            BY <6>1, <6>2
          <6> QED BY <4>0, <6>1, <6>2, <6>3
        <5> QED BY <1>6, <1>7, <5>1
      <4> QED BY <3>2, <4>1, <4>3 DEF PoolOK
    <3>3. CASE d # c
      BY <1>2, <1>7, <3>1, <3>3, Heads DEF PoolOK, Starts
    <3> QED BY <3>2, <3>3
  <2>4. pool'[OversizedClass] = <<>>
    BY <1>4, <1>7 DEF IInv, OneOwner, ListClasses
  <2> QED BY <1>2, <2>1, <2>2, <2>3, <2>4 DEF OneOwner, Idle
<1>13. ListsSpellPools'
  <2> SUFFICES ASSUME NEW d \in ListClasses
               PROVE  /\ mem'[HeadOf(d)] = IF 1 > Len(pool'[d]) THEN 0 ELSE pool'[d][1]
                      /\ \A i \in 1..Len(pool'[d]) :
                           mem'[pool'[d][i]] = IF i + 1 > Len(pool'[d]) THEN 0 ELSE pool'[d][i + 1]
    BY DEF ListsSpellPools
  <2>1. /\ mem[HeadOf(d)] = IF 1 > Len(pool[d]) THEN 0 ELSE pool[d][1]
        /\ \A i \in 1..Len(pool[d]) :
             mem[pool[d][i]] = IF i + 1 > Len(pool[d]) THEN 0 ELSE pool[d][i + 1]
    BY DEF IInv, ListsSpellPools
  <2>2. ASSUME NEW i \in 1..Len(pool[d])
        PROVE  mem'[pool[d][i]] = mem[pool[d][i]]
    <3>1. d \in PoolClasses
      BY DEF IInv, OneOwner, ListClasses, PoolClasses
    <3>2. Listed(pool[d][i]) /\ pool[d][i] \in Starts
      BY <3>1, ListedFacts
    <3> QED BY <1>3, <1>4, <1>5, <3>2, StartFacts
  <2>3. CASE d = c
    <3>1. mem'[HeadOf(d)] = IF 1 > Len(pool'[d]) THEN 0 ELSE pool'[d][1]
      BY <1>5, <1>6, <1>7, <2>3
    <3>2. ASSUME NEW i \in 1..Len(pool'[c])
          PROVE  mem'[pool'[c][i]] = IF i + 1 > Len(pool'[c]) THEN 0 ELSE pool'[c][i + 1]
      <4>1. CASE i = 1
        <5>1. mem'[pool'[c][i]] = mem[HeadOf(c)]
          BY <1>5, <1>7, <4>1
        <5>2. /\ 1 > Len(pool[c]) <=> i + 1 > Len(pool'[c])
              /\ ~(1 > Len(pool[c])) => pool'[c][i + 1] = pool[c][1]
          BY <1>6, <1>7, <4>1
        <5> QED BY <2>1, <2>3, <5>1, <5>2
      <4>2. CASE i # 1
        <5>1. pool'[c][i] = pool[c][i - 1] /\ i - 1 \in 1..Len(pool[c])
          BY <1>7, <4>2
        <5>2. /\ i - 1 + 1 > Len(pool[c]) <=> i + 1 > Len(pool'[c])
              /\ ~(i - 1 + 1 > Len(pool[c])) => pool'[c][i + 1] = pool[c][i - 1 + 1]
          BY <1>6, <1>7, <5>1
        <5> QED BY <2>1, <2>2, <2>3, <5>1, <5>2
      <4> QED BY <4>1, <4>2
    <3> QED BY <2>3, <3>1, <3>2
  <2>4. CASE d # c
    <3>1. mem'[HeadOf(d)] = mem[HeadOf(d)] /\ pool'[d] = pool[d]
      BY <1>4, <1>5, <1>7, <2>4, Heads
    <3> QED BY <2>1, <2>2, <3>1
  <2> QED BY <2>3, <2>4
<1>14. RcIsRefs'
  <2>1. \A q \in Live : obj[q].addr \in Addr /\ obj[q].addr # a /\ obj[q].addr # HeadOf(c)
    BY <1>3, <1>4, LiveFacts, StartFacts
  <2> QED BY <1>2, <1>5, <1>8, <2>1 DEF IInv, RcIsRefs
<1> QED BY <1>9, <1>10, <1>12, <1>13, <1>14 DEF IInv

\* A trap takes the guest's objects and the call under way, and nothing else.
LEMMA TrappedKeeps ==
  ASSUME IInv, Trapped
  PROVE  IInv'
<1>1. /\ obj' = [o \in Objects |-> Nobody] /\ pend' = Idle
      /\ UNCHANGED <<mem, class, heap, heapEnd, pages, blocks, pool>>
  BY DEF Trapped
<1>2. Live' = {}
  BY <1>1 DEF Live, Nobody
<1>3. /\ Nobody \in [addr: Addr, size: Sizes \cup {0}, refs: 0..MaxRefs]
      /\ lost' \subseteq Addr
  <2>1. 0 \in Addr /\ 0 \in 0..MaxRefs
    BY HeapAssumption DEF Addr
  <2>2. pend # Idle => pend.addr \in Addr
    BY DEF IInv, TypeOK
  <2>3. \A o \in Live : obj[o].addr \in Addr
    BY DEF IInv, TypeOK, Live
  <2> QED BY <2>1, <2>2, <2>3 DEF Trapped, Nobody, IInv, TypeOK
<1>4. TypeOK'
  BY <1>1, <1>3 DEF IInv, TypeOK
<1>5. BumpSane'
  BY <1>1 DEF IInv, BumpSane, Idle
<1>6. BlocksOK'
  <2>1. Frontier' = heap /\ Frontier \in Nat /\ heap \in Nat /\ Frontier <= heap
    BY <1>1, HeapAssumption DEF Frontier, Idle, IInv, TypeOK, BumpSane, Addr
  <2>2. \A b \in blocks : b.addr \in Nat /\ b.len \in Nat
    BY DEF IInv, TypeOK, Addr
  <2>3. \A b \in blocks : b.addr + b.len <= heap
    BY <2>1, <2>2 DEF IInv, BlocksOK, BlockOK
  <2> QED BY <1>1, <2>1, <2>3 DEF IInv, BlocksOK, BlockOK
<1>7. OneOwner'
  BY <1>1, <1>2, OwnersStay DEF OneOwner, Idle
<1>8. ListsSpellPools' /\ RcIsRefs'
  BY <1>1, <1>2 DEF IInv, ListsSpellPools, RcIsRefs
<1> QED BY <1>4, <1>5, <1>6, <1>7, <1>8 DEF IInv

\* An image taken while every list is empty: the new instance starts as a fresh one.
LEMMA RestoreKeeps ==
  ASSUME CleanImages, IInv, Restore
  PROVE  IInv'
<1>1. /\ pend = Idle /\ Live = {} /\ \A c \in ListClasses : mem[HeadOf(c)] = 0
      /\ heap' = HeapBase /\ heapEnd' = PageSize /\ blocks' = {} /\ lost' = {}
      /\ UNCHANGED <<mem, class, pages, obj, pend, pool>>
  BY DEF Restore, Fresh
<1>2. ASSUME NEW c \in ListClasses PROVE pool[c] = <<>>
  <2>1. pool[c] \in Seq(Addr) /\ Len(pool[c]) \in Nat
    BY DEF IInv, TypeOK
  <2>2. c \in PoolClasses \/ c = OversizedClass
    BY DEF ListClasses, PoolClasses
  <2>3. ASSUME c \in PoolClasses, Len(pool[c]) # 0 PROVE FALSE
    <3>1. 1 \in 1..Len(pool[c]) /\ ~(1 > Len(pool[c]))
      BY <2>1, <2>3
    <3>2. pool[c][1] = 0
      BY <1>1, <3>1 DEF IInv, ListsSpellPools
    <3>3. pool[c][1] \in Starts
      BY <2>3, <3>1, ListedFacts
    <3> QED BY <3>2, <3>3, StartFacts
  <2> QED BY <2>1, <2>2, <2>3 DEF IInv, OneOwner
<1>3. Live' = {}
  BY <1>1 DEF Live
<1>4. HeapBase \in Addr /\ PageSize \in Nat /\ HeapBase \in Nat /\ Aligned(HeapBase)
  BY HeapAssumption DEF Addr, Aligned
<1>5. TypeOK'
  BY <1>1, <1>4 DEF IInv, TypeOK
<1>6. BumpSane' /\ BlocksOK'
  BY <1>1, <1>4 DEF BumpSane, BlocksOK, Idle
<1>7. OneOwner'
  <2>1. \A c \in PoolClasses : Len(pool'[c]) = 0 /\ c \in ListClasses
    BY <1>1, <1>2, Heads
  <2>2. \A c \in PoolClasses : PoolOK(c)'
    BY <2>1 DEF PoolOK
  <2>3. pool'[OversizedClass] = <<>>
    BY <1>1 DEF IInv, OneOwner
  <2> QED BY <1>1, <1>3, <2>2, <2>3 DEF OneOwner, Idle
<1>8. ListsSpellPools' /\ RcIsRefs'
  BY <1>1, <1>3 DEF IInv, ListsSpellPools, RcIsRefs
<1> QED BY <1>5, <1>6, <1>7, <1>8 DEF IInv

\* The inductive step.
LEMMA NextKeeps ==
  ASSUME CleanImages, IInv, Tidy', [Next]_vars
  PROVE  IInv'
<1>1. CASE \E o \in Objects, size \in Sizes : Pop(o, size) \/ Bump(o, size)
  BY <1>1, PopKeeps, BumpKeeps
<1>2. CASE Grow
  BY <1>2, GrowKeeps
<1>3. CASE InitHeader
  BY <1>3, InitHeaderKeeps
<1>4. CASE \E o \in Objects : RcInc(o) \/ RcDec(o)
  BY <1>4, RcIncKeeps, RcDecKeeps
<1>5. CASE Push
  BY <1>5, PushKeeps
<1>6. CASE OutOfFuel \/ OutOfMemory \/ OutOfBounds
  BY <1>6, TrappedKeeps DEF OutOfFuel, OutOfMemory, OutOfBounds
<1>7. CASE Restore
  BY <1>7, RestoreKeeps
<1>8. CASE UNCHANGED vars
  BY <1>8 DEF vars, IInv, TypeOK, BumpSane, BlocksOK, BlockOK, OneOwner, ObjectOK, PoolOK,
              Listed, Starts, Frontier, Live, ListsSpellPools, RcIsRefs
<1> QED BY <1>1, <1>2, <1>3, <1>4, <1>5, <1>6, <1>7, <1>8 DEF Next

-----------------------------------------------------------------------------
(* The invariants.                                                         *)

\* The allocator's own invariant, for every set of sizes, while the run is tidy.
THEOREM HeapInvariant == CleanImages => (Spec /\ []Tidy => []IInv)
<1> SUFFICES ASSUME CleanImages PROVE Spec /\ []Tidy => []IInv
  OBVIOUS
<1>1. Init => IInv
  BY InitIInv
<1>2. IInv /\ Tidy' /\ [Next]_vars => IInv'
  BY NextKeeps
<1> QED BY <1>1, <1>2, PTL DEF Spec

\* $alloc, $rc_inc and $rc_dec keep the counts and the lists true to the guest's
\* references and to the blocks given up, through traps and restores.
THEOREM HeapWellFormed == CleanImages => (Spec /\ []Tidy => []WellFormed)
<1> SUFFICES ASSUME CleanImages PROVE Spec /\ []Tidy => []WellFormed
  OBVIOUS
<1>1. IInv => WellFormed
  BY DEF IInv, WellFormed
<1> QED BY <1>1, HeapInvariant, PTL

\* "An alloc never returns a block overlapping a live object" (runtime.wat): two
\* objects own two blocks, and blocks lie apart and above the list heads.
THEOREM HeapNoAlias == CleanImages => (Spec /\ []Tidy => []NoAlias)
<1> SUFFICES ASSUME CleanImages PROVE Spec /\ []Tidy => []NoAlias
  OBVIOUS
<1>1. ASSUME IInv PROVE NoAlias
  <2>1. ASSUME NEW o \in Live, NEW q \in Live, o # q PROVE Apart(obj[o], obj[q])
    <3>1. PICK b \in blocks : b.addr = obj[o].addr /\ obj[o].size <= b.len
      BY <1>1 DEF IInv, OneOwner, ObjectOK
    <3>2. PICK d \in blocks : d.addr = obj[q].addr /\ obj[q].size <= d.len
      BY <1>1 DEF IInv, OneOwner, ObjectOK
    <3>3. b # d
      BY <1>1, <2>1, <3>1, <3>2 DEF IInv, OneOwner
    <3>4. b.addr + b.len <= d.addr \/ d.addr + d.len <= b.addr
      BY <1>1, <3>3 DEF IInv, BlocksOK
    <3>5. b.addr \in Nat /\ b.len \in Nat /\ d.addr \in Nat /\ d.len \in Nat
      BY <1>1 DEF IInv, TypeOK, Addr
    <3>6. obj[o].size \in Nat /\ obj[q].size \in Nat
      BY <1>1, LiveFacts
    <3> QED BY <3>1, <3>2, <3>4, <3>5, <3>6 DEF Apart
  <2>2. ASSUME NEW o \in Live, NEW c \in ListClasses, mem[HeadOf(c)] # 0
        PROVE  Apart(obj[o], [addr |-> HeadOf(c), size |-> 4])
    <3>1. c # OversizedClass
      BY <1>1, <2>2 DEF IInv, OneOwner, ListsSpellPools
    <3>2. c \in PoolClasses
      BY <3>1 DEF ListClasses, PoolClasses
    <3>3. HeadOf(c) + 4 <= HeapBase /\ HeadOf(c) \in Nat /\ HeapBase \in Nat
      BY <3>2, Heads, HeapAssumption DEF Addr
    <3>4. obj[o].addr \in Nat /\ HeapBase <= obj[o].addr
      BY <1>1, LiveFacts, StartFacts DEF Addr
    <3> QED BY <3>3, <3>4 DEF Apart
  <2> QED BY <2>1, <2>2 DEF NoAlias
<1> QED BY <1>1, HeapInvariant, PTL

\* The one step that may break a chain of owners is a trap, and it says whose.
LEMMA NothingLeaksStep ==
  ASSUME IInv, NothingLeaks, [Next]_vars
  PROVE  NothingLeaks'
<1> DEFINE Owned(a) == \/ \E o \in Live : obj[o].addr = a
                       \/ pend.op = "push" /\ pend.addr = a
                       \/ \E c \in ListClasses : \E i \in 1..Len(pool[c]) : pool[c][i] = a
                       \/ a \in lost
<1> SUFFICES ASSUME NEW b \in blocks' PROVE Owned(b.addr)'
  BY DEF NothingLeaks
<1>1. b \in blocks => Owned(b.addr)
  BY DEF NothingLeaks
<1> HIDE DEF Owned
<1>2. ASSUME NEW o \in Objects, NEW size \in Sizes, Pop(o, size) PROVE Owned(b.addr)'
  <2>1. PICK c, p : c = ClassOf(size) /\ p = mem[HeadOf(c)]
    OBVIOUS
  <2>2. /\ Pooled(size) /\ p # 0 /\ o \notin Live /\ b \in blocks
        /\ obj' = [obj EXCEPT ![o] = [addr |-> p, size |-> size, refs |-> 1]]
        /\ pool' = [pool EXCEPT ![c] = IF @ = <<>> THEN @ ELSE Tail(@)]
        /\ UNCHANGED <<pend, lost>>
    BY <1>2, <2>1 DEF Pop
  <2>3. c \in ListClasses
    BY <2>1, <2>2, ClassBounds, Heads, HeapAssumption
  <2>4. /\ pool[c] \in Seq(Addr) /\ Len(pool[c]) \in Nat
        /\ mem[HeadOf(c)] = IF 1 > Len(pool[c]) THEN 0 ELSE pool[c][1]
    BY <2>3 DEF IInv, TypeOK, ListsSpellPools
  <2>5. pool[c] # <<>> /\ p = pool[c][1] /\ Len(pool[c]) # 0
    BY <2>1, <2>2, <2>4
  <2>6. pool'[c] = Tail(pool[c]) /\ \A d \in ListClasses : d # c => pool'[d] = pool[d]
    BY <2>2, <2>3, <2>5 DEF IInv, TypeOK
  <2>7. obj'[o].addr = p /\ o \in Live' /\ \A q \in Live : q \in Live' /\ obj'[q] = obj[q]
    BY <2>2 DEF IInv, TypeOK, Live
  <2>8. ASSUME NEW d \in ListClasses, NEW i \in 1..Len(pool[d]), pool[d][i] = b.addr
        PROVE  Owned(b.addr)'
    <3>1. CASE d = c /\ i = 1
      BY <2>5, <2>7, <2>8, <3>1 DEF Owned
    <3>2. CASE d = c /\ i # 1
      <4>1. i - 1 \in 1..Len(pool'[c]) /\ pool'[c][i - 1] = pool[c][i]
        BY <2>4, <2>5, <2>6, <3>2
      <4> QED BY <2>3, <2>8, <3>2, <4>1 DEF Owned
    <3>3. CASE d # c
      BY <2>6, <2>8, <3>3 DEF Owned
    <3> QED BY <3>1, <3>2, <3>3
  <2> QED BY <1>1, <2>2, <2>7, <2>8 DEF Owned
<1>3. ASSUME NEW o \in Objects, NEW size \in Sizes, Bump(o, size) PROVE Owned(b.addr)'
  BY <1>1, <1>3 DEF Bump, Owned, Live, Idle
<1>4. CASE Grow
  <2>1. pend'.op # "push" /\ pend.op # "push"
    BY <1>4 DEF Grow, IInv, TypeOK, Idle
  <2> QED BY <1>1, <1>4, <2>1 DEF Grow, Owned, Live
<1>5. CASE InitHeader
  <2>1. PICK a, o, size : a = pend.addr /\ o = pend.o /\ size = pend.size
    OBVIOUS
  <2>2. /\ pend.op = "bump" /\ obj' = [obj EXCEPT ![o] = [addr |-> a, size |-> size, refs |-> 1]]
        /\ b \in blocks \/ b.addr = a
        /\ UNCHANGED <<pool, lost>>
    BY <1>5, <2>1 DEF InitHeader
  <2>3. o \in Objects /\ o \notin Live
    BY <2>1, <2>2 DEF IInv, BumpSane, TypeOK, Idle
  <2>4. obj'[o].addr = a /\ o \in Live' /\ \A q \in Live : q \in Live' /\ obj'[q] = obj[q]
    BY <2>2, <2>3 DEF IInv, TypeOK, Live
  <2> QED BY <1>1, <2>2, <2>4 DEF Owned
<1>6. ASSUME NEW o \in Objects, RcInc(o) PROVE Owned(b.addr)'
  <2>1. obj[o].refs \in Nat
    BY <1>6, LiveFacts, HeapAssumption DEF RcInc
  <2>2. \A q \in Live : q \in Live' /\ obj'[q].addr = obj[q].addr
    BY <1>6, <2>1 DEF RcInc, IInv, TypeOK, Live
  <2> QED BY <1>1, <1>6, <2>2 DEF RcInc, Owned
<1>7. ASSUME NEW o \in Objects, RcDec(o) PROVE Owned(b.addr)'
  <2>1. PICK a, n : a = obj[o].addr /\ n = obj[o].refs
    OBVIOUS
  <2>2. /\ RcDec(o) /\ Dropped(o) /\ o \in Live /\ pend = Idle /\ b \in blocks
        /\ UNCHANGED <<pool, lost>>
    BY <1>7 DEF RcDec, Dropped
  <2>3. mem[a] = n /\ n \in 1..MaxRefs
    BY <2>1, <2>2, LiveFacts
  <2>4. n = 1 => (mem[a] - 1) % WordMod = 0
    BY <2>3, HeapAssumption
  <2>5. n = 1 => pend'.op = "push" /\ pend'.addr = a
    BY <2>1, <2>2, <2>4 DEF RcDec
  <2>6. obj' = [obj EXCEPT ![o] = IF n = 1 THEN Nobody ELSE [obj[o] EXCEPT !.refs = n - 1]]
    BY <2>1, <2>2 DEF Dropped
  <2>7. \A q \in Live : q # o => q \in Live' /\ obj'[q] = obj[q]
    BY <2>6 DEF IInv, TypeOK, Live
  <2>8. n # 1 => o \in Live' /\ obj'[o].addr = a
    <3>1. n # 1 => n - 1 > 0
      BY <2>3, HeapAssumption
    <3> QED BY <2>1, <2>2, <2>6, <3>1 DEF IInv, TypeOK, Live
  <2>9. b.addr # a \/ n # 1 => Owned(b.addr)'
    BY <1>1, <2>1, <2>2, <2>7, <2>8 DEF Owned, Idle
  <2> QED BY <2>5, <2>9 DEF Owned
<1>8. CASE Push
  <2>1. PICK a, c : a = pend.addr /\ c = class[a]
    OBVIOUS
  <2>2. /\ pend.op = "push" /\ b \in blocks
        /\ pool' = [pool EXCEPT ![c] = <<a>> \o @]
        /\ UNCHANGED <<obj, lost>>
    BY <1>8, <2>1 DEF Push
  <2>3. c \in ListClasses /\ a \in Addr
    BY <2>1, <2>2, Heads, StartFacts DEF IInv, OneOwner
  <2>4. pool[c] \in Seq(Addr) /\ Len(pool[c]) \in Nat /\ <<a>> \in Seq(Addr)
    BY <2>3 DEF IInv, TypeOK
  <2>5. pool'[c] = <<a>> \o pool[c] /\ \A d \in ListClasses : d # c => pool'[d] = pool[d]
    BY <2>2, <2>3 DEF IInv, TypeOK
  <2>6. 1 \in 1..Len(pool'[c]) /\ pool'[c][1] = a
    BY <2>4, <2>5
  <2>7. ASSUME NEW d \in ListClasses, NEW i \in 1..Len(pool[d]), pool[d][i] = b.addr
        PROVE  Owned(b.addr)'
    <3>1. CASE d = c
      <4>1. i + 1 \in 1..Len(pool'[c]) /\ pool'[c][i + 1] = pool[c][i]
        BY <2>4, <2>5, <3>1
      <4> QED BY <2>3, <2>7, <3>1, <4>1 DEF Owned
    <3>2. CASE d # c
      BY <2>5, <2>7, <3>2 DEF Owned
    <3> QED BY <3>1, <3>2
  <2>8. Live' = Live
    BY <2>2 DEF Live
  <2>9. b.addr = a => Owned(b.addr)'
    BY <2>3, <2>6 DEF Owned
  <2> QED BY <1>1, <2>1, <2>2, <2>7, <2>8, <2>9 DEF Owned
<1>9. CASE Trapped
  <2>1. pend.op = "push" => pend # Idle
    BY DEF Idle
  <2> QED BY <1>1, <1>9, <2>1 DEF Trapped, Owned
<1>10. CASE Restore
  BY <1>10 DEF Restore
<1>11. CASE UNCHANGED vars
  BY <1>1, <1>11 DEF vars, Owned, Live
<1> QED BY <1>2, <1>3, <1>4, <1>5, <1>6, <1>7, <1>8, <1>9, <1>10, <1>11
        DEF Next, OutOfFuel, OutOfMemory, OutOfBounds

\* A block given up can be used again: $rc_dec puts it on a list unless a trap came first.
THEOREM HeapNothingLeaks == CleanImages => (Spec /\ []Tidy => []NothingLeaks)
<1> SUFFICES ASSUME CleanImages PROVE Spec /\ []Tidy => []NothingLeaks
  OBVIOUS
<1>1. Init => NothingLeaks
  BY DEF Init, NothingLeaks
<1>2. IInv /\ NothingLeaks /\ [Next]_vars => NothingLeaks'
  BY NothingLeaksStep
<1> QED BY <1>1, <1>2, HeapInvariant, PTL DEF Spec

\* What Extent says stays as it is while no bump begins, ends or is cut short.
LEMMA ExtentStays ==
  ASSUME Extent, UNCHANGED <<blocks, lost, heap, heapEnd, pages>>,
         pend.op # "bump", pend'.op # "bump"
  PROVE  Extent'
<1>1. CutBumps' = CutBumps /\ Frontier' = Frontier
  BY DEF CutBumps, Frontier
<1>2. Steady' = Steady
  BY <1>1 DEF Steady
<1>3. \A a : SteadyUpTo(a)' => SteadyUpTo(a)
  BY <1>1 DEF SteadyUpTo
<1> QED BY <1>1, <1>2, <1>3 DEF Extent

\* The numbers of the heap.
LEMMA Numbers ==
  ASSUME IInv
  PROVE  /\ heap \in Nat /\ heapEnd \in Nat /\ pages \in Nat /\ pages >= 1
         /\ PageSize \in Nat /\ HeapBase \in Nat /\ HeapBase <= PageSize
         /\ PageSize * pages \in Nat /\ PageSize <= PageSize * pages
         /\ PageSize * (pages + 1) = PageSize * pages + PageSize
         /\ Frontier \in Nat /\ Frontier <= heap
         /\ \A b \in blocks : /\ b.addr \in Nat /\ b.len \in Nat
                              /\ b.addr < Frontier /\ b.addr + b.len <= Frontier
<1>1. /\ heap \in Nat /\ heapEnd \in Nat /\ pages \in Nat /\ pages >= 1
      /\ \A b \in blocks : b.addr \in Nat /\ b.len \in Nat
  BY HeapAssumption DEF IInv, TypeOK, Addr
<1>2. PageSize \in Nat /\ HeapBase \in Nat /\ HeapBase <= PageSize
  BY HeapAssumption
<1>3. /\ PageSize * pages \in Nat /\ PageSize <= PageSize * pages
      /\ PageSize * (pages + 1) = PageSize * pages + PageSize
  BY <1>1, <1>2
<1>4. Frontier \in Nat /\ Frontier <= heap
  BY <1>1 DEF IInv, TypeOK, BumpSane, Frontier, Idle, Addr
<1>5. \A b \in blocks : b.addr < Frontier /\ b.addr + b.len <= Frontier
  BY <1>1, <1>4 DEF IInv, BlocksOK, BlockOK
<1> QED BY <1>1, <1>2, <1>3, <1>4, <1>5

\* The header of the block just bumped is written: it is a block now.
LEMMA ExtentInitHeader ==
  ASSUME IInv, Extent, InitHeader
  PROVE  Extent'
<1>1. PICK a, new : a = pend.addr /\ new = [addr |-> a, len |-> heap - a]
  OBVIOUS
<1>2. /\ pend.op = "bump" /\ (pend.grown \/ heap <= heapEnd)
      /\ pend' = Idle /\ UNCHANGED <<heap, heapEnd, pages, lost>>
      /\ blocks' = blocks \cup {new}
  BY <1>1 DEF InitHeader
<1>3. Frontier = a /\ Frontier' = heap /\ pend'.op # "bump"
  BY <1>1, <1>2 DEF Frontier, Idle
<1>4. a \in Nat /\ a < heap /\ heap \in Nat /\ heap - a \in Nat /\ a + (heap - a) = heap
  BY <1>1, <1>2, <1>3, Numbers DEF IInv, BumpSane
<1>5. new.addr = a /\ new.len = heap - a
  BY <1>1
<1>6. \A x \in CutBumps : x \in Nat /\ x < a
  BY <1>3 DEF Extent, CutBumps, IInv, TypeOK, Addr
<1>7. CutBumps' = CutBumps
  BY <1>2, <1>4, <1>5, <1>6 DEF CutBumps
<1>8. Steady /\ heap - a <= PageSize => heap <= heapEnd
  BY <1>1, <1>2 DEF Extent
<1>9. Steady' => Steady /\ heap - a <= PageSize
  BY <1>2, <1>5, <1>7 DEF Steady
<1>10. \A x : SteadyUpTo(x)' => SteadyUpTo(x)
  BY <1>2, <1>7 DEF SteadyUpTo
<1>11. SteadyUpTo(a)' => Steady /\ heap - a <= PageSize
  <2> SUFFICES ASSUME SteadyUpTo(a)' PROVE Steady /\ heap - a <= PageSize
    OBVIOUS
  <2>1. \A x \in CutBumps : x > a
    BY <1>7 DEF SteadyUpTo
  <2>2. CutBumps = {}
    BY <1>4, <1>6, <2>1
  <2>3. \A b \in blocks : b.addr <= a
    BY <1>3, <1>4, Numbers
  <2>4. \A b \in blocks' : b.addr <= a => b.len <= PageSize
    BY DEF SteadyUpTo
  <2>5. \A b \in blocks : b.len <= PageSize
    BY <1>2, <2>3, <2>4
  <2>6. new.len <= PageSize
    BY <1>2, <1>4, <1>5, <2>4
  <2> QED BY <1>5, <2>2, <2>5, <2>6 DEF Steady
<1>12. PageSize <= heapEnd /\ heapEnd <= PageSize * pages
  BY DEF Extent
<1>13. \A x \in CutBumps' : x < Frontier'
  BY <1>3, <1>4, <1>6, <1>7
<1>14. Steady' => Frontier' <= heapEnd
  BY <1>3, <1>8, <1>9
<1>15. ASSUME NEW b \in blocks', SteadyUpTo(b.addr)' PROVE b.addr + b.len <= PageSize * pages
  <2>1. CASE b \in blocks
    BY <1>10, <1>15, <2>1 DEF Extent
  <2>2. CASE b = new
    <3>1. heap <= heapEnd
      BY <1>5, <1>8, <1>11, <1>15, <2>2
    <3> QED BY <1>4, <1>5, <1>12, <2>2, <3>1, Numbers
  <2> QED BY <1>2, <2>1, <2>2
<1> QED BY <1>2, <1>3, <1>12, <1>13, <1>14, <1>15 DEF Extent

\* A trap: a bump under way is cut short, and the heap is steady no more.
LEMMA ExtentTrapped ==
  ASSUME IInv, Extent, Trapped
  PROVE  Extent'
<1>1. /\ pend' = Idle /\ UNCHANGED <<heap, heapEnd, pages, blocks>>
      /\ lost \subseteq lost'
      /\ pend.op = "bump" => pend.addr \in lost'
      /\ \A x \in lost' : x \in lost \/ (\E o \in Live : x = obj[o].addr)
                          \/ (pend # Idle /\ x = pend.addr)
  BY DEF Trapped, Idle
<1>2. pend'.op # "bump" /\ Frontier' = heap
  BY <1>1 DEF Frontier, Idle
<1>3. CutBumps \subseteq CutBumps'
  BY <1>1 DEF CutBumps
<1>4. \A x \in CutBumps' : x \in CutBumps \/ (pend.op = "bump" /\ x = pend.addr)
  <2> SUFFICES ASSUME NEW x \in CutBumps', x \notin lost
               PROVE  pend.op = "bump" /\ x = pend.addr
    BY <1>1 DEF CutBumps
  <2>1. x \notin Starts
    BY <1>1 DEF CutBumps, Starts
  <2>2. pend # Idle /\ x = pend.addr
    BY <1>1, <2>1, LiveFacts DEF CutBumps
  <2>3. pend.op = "push" => pend.addr \in Starts
    BY DEF IInv, OneOwner
  <2>4. pend.op = "bump" \/ pend.op = "push"
    BY <2>2 DEF IInv, TypeOK
  <2> QED BY <2>1, <2>2, <2>3, <2>4
<1>5. pend.op = "bump" => pend.addr \in CutBumps'
  <2> SUFFICES ASSUME pend.op = "bump" PROVE \A b \in blocks : b.addr # pend.addr
    BY <1>1 DEF CutBumps
  <2>1. Frontier = pend.addr
    BY DEF Frontier
  <2> QED BY <2>1, Numbers
<1>6. \A x \in CutBumps' : x < Frontier'
  <2>1. \A x \in CutBumps : x < Frontier /\ x \in Nat
    BY DEF Extent, CutBumps, IInv, TypeOK, Addr
  <2>2. \A x \in CutBumps : x < heap
    BY <2>1, Numbers
  <2>3. pend.op = "bump" => pend.addr < heap
    BY DEF IInv, BumpSane
  <2> QED BY <1>2, <1>4, <2>2, <2>3
<1>7. Steady' => Frontier' <= heapEnd
  <2> SUFFICES ASSUME Steady' PROVE heap <= heapEnd
    BY <1>2
  <2>1. pend.op # "bump"
    BY <1>5 DEF Steady
  <2>2. Steady
    BY <1>1, <1>3 DEF Steady
  <2> QED BY <2>1, <2>2 DEF Extent, Frontier
<1>8. \A x : SteadyUpTo(x)' => SteadyUpTo(x)
  BY <1>1, <1>3 DEF SteadyUpTo
<1> QED BY <1>1, <1>2, <1>6, <1>7, <1>8 DEF Extent

\* One page more is enough for a bump of a page at most.
LEMMA ExtentStep ==
  ASSUME IInv, Extent, [Next]_vars
  PROVE  Extent'
<1>1. ASSUME NEW o \in Objects, NEW size \in Sizes, Pop(o, size) PROVE Extent'
  <2>1. pend.op # "bump" /\ UNCHANGED <<blocks, lost, heap, heapEnd, pages, pend>>
    BY <1>1 DEF Pop, Idle
  <2> QED BY <2>1, ExtentStays
<1>2. ASSUME NEW o \in Objects, NEW size \in Sizes, Bump(o, size) PROVE Extent'
  <2>1. /\ pend = Idle /\ UNCHANGED <<blocks, lost, heapEnd, pages>>
        /\ pend'.op = "bump" /\ pend'.addr = heap /\ ~pend'.grown
    BY <1>2 DEF Bump
  <2>2. Frontier = heap /\ Frontier' = heap
    BY <2>1 DEF Frontier, Idle
  <2>3. CutBumps' = CutBumps
    BY <2>1 DEF CutBumps
  <2>4. Steady' = Steady /\ \A a : SteadyUpTo(a)' => SteadyUpTo(a)
    BY <2>1, <2>3 DEF Steady, SteadyUpTo
  <2>5. heap' \in Int
    <3>1. heap + size \in Nat
      BY Numbers, HeapAssumption
    <3> QED BY <1>2, <3>1, RoundUpFits DEF Bump
  <2>6. Steady => heap <= heapEnd /\ (heap' - heap <= PageSize => heap' <= heapEnd + PageSize)
    BY <2>2, <2>5, Numbers DEF Extent
  <2> QED BY <2>1, <2>2, <2>3, <2>4, <2>6 DEF Extent
<1>3. CASE Grow
  <2>1. /\ pend.op = "bump" /\ ~pend.grown /\ UNCHANGED <<blocks, lost, heap>>
        /\ heapEnd' = heapEnd + PageSize /\ pages' = pages + 1
    BY <1>3 DEF Grow
  <2>2. pend'.op = "bump" /\ pend'.addr = pend.addr /\ pend'.grown = TRUE
    BY <1>3, <2>1 DEF Grow, IInv, TypeOK, Idle
  <2>3. Frontier' = Frontier /\ CutBumps' = CutBumps
    BY <2>1, <2>2 DEF Frontier, CutBumps
  <2>4. Steady' = Steady /\ \A a : SteadyUpTo(a)' => SteadyUpTo(a)
    BY <2>1, <2>3 DEF Steady, SteadyUpTo
  <2>5. PageSize <= heapEnd' /\ heapEnd' <= PageSize * pages'
    BY <2>1, Numbers DEF Extent
  <2>6. Steady => /\ Frontier <= heapEnd'
                  /\ heap - pend.addr <= PageSize => heap <= heapEnd'
    BY <2>1, Numbers DEF Extent
  <2>7. ASSUME NEW b \in blocks, SteadyUpTo(b.addr) PROVE b.addr + b.len <= PageSize * pages'
    <3>1. b.addr + b.len <= PageSize * pages
      BY <2>7 DEF Extent
    <3> QED BY <2>1, <3>1, Numbers
  <2> QED BY <2>1, <2>2, <2>3, <2>4, <2>5, <2>6, <2>7 DEF Extent
<1>4. CASE InitHeader
  BY <1>4, ExtentInitHeader
<1>5. ASSUME NEW o \in Objects, RcInc(o) PROVE Extent'
  <2>1. pend.op # "bump" /\ UNCHANGED <<blocks, lost, heap, heapEnd, pages, pend>>
    BY <1>5 DEF RcInc, Idle
  <2> QED BY <2>1, ExtentStays
<1>6. ASSUME NEW o \in Objects, RcDec(o) PROVE Extent'
  <2>1. /\ pend.op # "bump" /\ pend'.op # "bump"
        /\ UNCHANGED <<blocks, lost, heap, heapEnd, pages>>
    BY <1>6 DEF RcDec, Dropped, Idle
  <2> QED BY <2>1, ExtentStays
<1>7. CASE Push
  <2>1. /\ pend.op # "bump" /\ pend'.op # "bump"
        /\ UNCHANGED <<blocks, lost, heap, heapEnd, pages>>
    BY <1>7 DEF Push, Idle
  <2> QED BY <2>1, ExtentStays
<1>8. CASE Trapped
  BY <1>8, ExtentTrapped
<1>9. CASE Restore
  <2>1. /\ pend' = Idle /\ heap' = HeapBase /\ heapEnd' = PageSize /\ pages' = pages
        /\ blocks' = {} /\ lost' = {}
    BY <1>9 DEF Restore, Fresh
  <2>2. CutBumps' = {} /\ Frontier' = HeapBase /\ pend'.op # "bump"
    BY <2>1 DEF CutBumps, Frontier, Idle
  <2> QED BY <2>1, <2>2, Numbers DEF Extent
<1>10. CASE UNCHANGED vars
  <2>1. UNCHANGED <<blocks, lost, heap, heapEnd, pages, pend>>
    BY <1>10 DEF vars
  <2>2. CutBumps' = CutBumps /\ Frontier' = Frontier
    BY <2>1 DEF CutBumps, Frontier
  <2>3. Steady' = Steady /\ \A a : SteadyUpTo(a)' => SteadyUpTo(a)
    BY <2>1, <2>2 DEF Steady, SteadyUpTo
  <2> QED BY <2>1, <2>2, <2>3 DEF Extent
<1> QED BY <1>1, <1>2, <1>3, <1>4, <1>5, <1>6, <1>7, <1>8, <1>9, <1>10
        DEF Next, OutOfFuel, OutOfMemory, OutOfBounds

\* $alloc grows one page whatever the request.  That is enough, whatever the sizes, for
\* every object below the first block longer than a page and below the first bump a trap
\* cut short: these lie inside the memory.
THEOREM HeapInMemory == CleanImages => (Spec /\ []Tidy => []InMemory)
<1> SUFFICES ASSUME CleanImages PROVE Spec /\ []Tidy => []InMemory
  OBVIOUS
<1>1. Init => Extent
  <2>1. PageSize * 1 = PageSize /\ HeapBase <= PageSize /\ PageSize \in Nat
    BY HeapAssumption
  <2>2. Init => CutBumps = {} /\ Frontier = HeapBase /\ pend.op # "bump"
    BY DEF Init, Fresh, CutBumps, Frontier, Idle
  <2> QED BY <2>1, <2>2 DEF Init, Fresh, Extent
<1>2. IInv /\ Extent /\ [Next]_vars => Extent'
  BY ExtentStep
<1>3. IInv /\ Extent => InMemory
  <2> SUFFICES ASSUME IInv, Extent, NEW o \in Live, SteadyUpTo(obj[o].addr)
               PROVE  obj[o].addr + obj[o].size <= PageSize * pages
    BY DEF InMemory
  <2>1. PICK b \in blocks : b.addr = obj[o].addr /\ obj[o].size <= b.len
    BY DEF IInv, OneOwner, ObjectOK
  <2>2. b.addr + b.len <= PageSize * pages
    BY <2>1 DEF Extent
  <2>3. obj[o].size \in Nat
    BY LiveFacts
  <2> QED BY <2>1, <2>2, <2>3, Numbers
<1> QED BY <1>1, <1>2, <1>3, HeapInvariant, PTL DEF Spec
=============================================================================
