--------------------------- MODULE Streams_proofs ---------------------------
(***************************************************************************)
(* What else the run of the streams checks, for snapshots, streams and     *)
(* lives of every length.                                                  *)
(*                                                                         *)
(* The snapshot gate: the items understood, written out again, are the     *)
(* lines read, and the last line says which item is open and how far it    *)
(* is; from that the parser's own guards are the format's, line by line.   *)
(* What passes it can be called: the items lie one behind the other in the *)
(* lines, so that counting the slots of a function on the items and on the *)
(* lines is the same count, name by name and member by member.             *)
(*                                                                         *)
(* The certificates of the emitted Rust.  The order totals: in integers    *)
(* that wrap at any modulus, the incremental circuit computes the changes  *)
(* of the batch circuit; the numbers are a group that doubling respects,   *)
(* and every fact about sums is had from the first tick it would fail at.  *)
(* The order: the typestate and the step table admit the same lives; the   *)
(* invariant names the value each call of a method returns, and the walk   *)
(* along the methods can only be that one.                                 *)
(*                                                                         *)
(* Guest strings: both passes over a chain and the reading back are        *)
(* followed character by character along a chain that grows at its end;    *)
(* what is left is that the bytes of one character carry all its bits.     *)
(***************************************************************************)
EXTENDS Codec_proofs, Snapshot, Generated, GuestString, FiniteSetTheorems

-----------------------------------------------------------------------------
(* Sequences run together.                                                 *)

\* Adding the pieces of ss to what there is, one after the other.
Adding(T, ss) == [p \in (1..Len(ss)) \X Seq(T) |-> p[2] \o ss[p[1]]]
RunTogether(T, ss) == Rec(Seq(T), <<>>, Len(ss), Adding(T, ss))

\* What there is after each piece.
LEMMA RunTogetherIs ==
  ASSUME NEW T, NEW ss \in Seq(Seq(T))
  PROVE  /\ RunTogether(T, ss) \in [0..Len(ss) -> Seq(T)] /\ RunTogether(T, ss)[0] = <<>>
         /\ \A i \in 1..Len(ss) : RunTogether(T, ss)[i] = RunTogether(T, ss)[i - 1] \o ss[i]
<1> DEFINE N == Len(ss)
           G == Adding(T, ss)
           f == Rec(Seq(T), <<>>, N, G)
<1>1. N \in Nat /\ <<>> \in Seq(T) /\ \A i \in 1..N : ss[i] \in Seq(T)
  OBVIOUS
<1>2. G \in [(1..N) \X Seq(T) -> Seq(T)]
  <2>1. \A p \in (1..N) \X Seq(T) : p[2] \o ss[p[1]] \in Seq(T)
    BY <1>1
  <2> QED BY <2>1 DEF Adding
<1>3. Recurs(f, Seq(T), <<>>, N, G)
  <2> HIDE DEF N, G
  <2> QED BY <1>1, <1>2, Recursion
<1>4. f \in [0..N -> Seq(T)] /\ f[0] = <<>> /\ \A i \in 1..N : f[i] = G[<<i, f[i - 1]>>]
  BY <1>3 DEF Recurs
<1>5. ASSUME NEW i \in 1..N PROVE f[i] = f[i - 1] \o ss[i]
  <2>1. i - 1 \in 0..N
    BY <1>1
  <2>2. <<i, f[i - 1]>> \in (1..N) \X Seq(T)
    BY <1>4, <2>1
  <2> HIDE DEF f
  <2>3. G[<<i, f[i - 1]>>] = f[i - 1] \o ss[i]
    BY <2>2 DEF Adding
  <2> QED BY <1>4, <2>3
<1> HIDE DEF f
<1> QED BY <1>4, <1>5 DEF f, N, RunTogether

\* FlattenSeq is what there is in the end.
LEMMA FlattenIs ==
  ASSUME NEW T, NEW ss \in Seq(Seq(T))
  PROVE  FlattenSeq(ss) = RunTogether(T, ss)[Len(ss)] /\ FlattenSeq(ss) \in Seq(T)
<1> DEFINE N == Len(ss)
           f == RunTogether(T, ss)
           Flat(g) == g = [i \in 1..N |-> IF i = 1 THEN ss[i] ELSE g[i - 1] \o ss[i]]
           flatten == CHOOSE g : Flat(g)
<1>0. f \in [0..N -> Seq(T)] /\ f[0] = <<>> /\ \A i \in 1..N : f[i] = f[i - 1] \o ss[i]
  BY RunTogetherIs
<1> HIDE DEF f
<1>1. N \in Nat /\ f[N] \in Seq(T) /\ \A i \in 1..N : ss[i] \in Seq(T)
  <2>1. N \in Nat /\ \A i \in 1..N : ss[i] \in Seq(T)
    OBVIOUS
  <2>2. N \in 0..N
    BY <2>1
  <2> HIDE DEF N
  <2> QED BY <1>0, <2>1, <2>2
<1>2. CASE N = 0
  <2>1. ss = <<>> /\ FlattenSeq(ss) = ss
    BY <1>2 DEF FlattenSeq
  <2> QED BY <1>0, <1>1, <1>2, <2>1 DEF f, N
<1>3. CASE N # 0
  <2> DEFINE h == [i \in 1..N |-> f[i]]
  <2>1. Flat(h)
    <3>1. ASSUME NEW i \in 1..N
          PROVE  h[i] = IF i = 1 THEN ss[i] ELSE h[i - 1] \o ss[i]
      <4>1. CASE i = 1
        <5>0. f[i] = f[i - 1] \o ss[i] /\ i - 1 = 0
          <6>1. f[i] = f[i - 1] \o ss[i]
            BY <1>0
          <6> QED BY <4>1, <6>1
        <5>1. f[1] = <<>> \o ss[1]
          BY <1>0, <4>1, <5>0
        <5>2. <<>> \o ss[1] = ss[1]
          BY <1>1, <4>1
        <5> QED BY <4>1, <5>1, <5>2
      <4>2. CASE i # 1
        <5>1. i - 1 \in 1..N
          BY <1>1, <4>2
        <5>2. h[i - 1] = f[i - 1]
          BY <5>1
        <5> QED BY <1>0, <4>2, <5>2
      <4> QED BY <4>1, <4>2
    <3>2. h = [i \in 1..N |-> h[i]]
      OBVIOUS
    <3> QED BY <3>1, <3>2
  <2> HIDE DEF h
  <2>2. Flat(flatten)
    <3> HIDE DEF Flat
    <3> QED BY <2>1
  <2> HIDE DEF flatten
  <2>3. \A i \in 1..N : flatten[i] = IF i = 1 THEN ss[i] ELSE flatten[i - 1] \o ss[i]
    BY <2>2
  <2> DEFINE R == {i \in 0..N : i = 0 \/ flatten[i] = f[i]}
  <2>4. 0 \in R
    BY <1>1
  <2>5. ASSUME NEW n \in 0..(N - 1), n \in R PROVE n + 1 \in R
    <3> DEFINE k == n + 1
    <3>1. k \in 1..N /\ k - 1 = n /\ k \in 0..N
      BY <1>1
    <3> HIDE DEF k
    <3>2. /\ f[k] = f[k - 1] \o ss[k] /\ ss[k] \in Seq(T)
          /\ flatten[k] = IF k = 1 THEN ss[k] ELSE flatten[k - 1] \o ss[k]
      BY <1>0, <1>1, <2>3, <3>1
    <3>3. flatten[k] = f[k]
      <4>1. CASE n = 0
        <5>1. k = 1 /\ f[k - 1] = <<>>
          BY <1>0, <3>1, <4>1
        <5>2. <<>> \o ss[k] = ss[k]
          BY <3>2
        <5> QED BY <3>2, <5>1, <5>2
      <4>2. CASE n # 0
        <5>1. k # 1 /\ flatten[n] = f[n]
          BY <2>5, <3>1, <4>2
        <5> QED BY <3>1, <3>2, <5>1
      <4> QED BY <4>1, <4>2
    <3>4. k \in R
      BY <3>1, <3>3
    <3> QED BY <3>4 DEF k
  <2> HIDE DEF R
  <2>6. 0..N \subseteq R
    BY <1>1, <2>4, <2>5, Climb
  <2>7. flatten[N] = f[N]
    BY <1>1, <1>3, <2>6 DEF R
  <2>8. FlattenSeq(ss) = flatten[N]
    BY <1>3 DEF FlattenSeq, flatten, Flat
  <2> QED BY <1>1, <2>7, <2>8 DEF f
<1> QED BY <1>2, <1>3

\* One piece more is at the end.
LEMMA FlattenAppend ==
  ASSUME NEW T, NEW ss \in Seq(Seq(T)), NEW piece \in Seq(T)
  PROVE  FlattenSeq(Append(ss, piece)) = FlattenSeq(ss) \o piece
<1> DEFINE N == Len(ss)
           tt == Append(ss, piece)
           f == RunTogether(T, ss)
           g == RunTogether(T, tt)
<1>1. /\ tt \in Seq(Seq(T)) /\ Len(tt) = N + 1 /\ N \in Nat
      /\ tt[N + 1] = piece /\ \A i \in 1..N : tt[i] = ss[i]
  OBVIOUS
<1>2. f[0] = <<>> /\ \A i \in 1..N : f[i] = f[i - 1] \o ss[i]
  BY RunTogetherIs
<1> HIDE DEF tt
<1>3. g[0] = <<>> /\ \A i \in 1..(N + 1) : g[i] = g[i - 1] \o tt[i]
  BY <1>1, RunTogetherIs
<1>4. FlattenSeq(ss) = f[N]
  BY FlattenIs
<1>5. FlattenSeq(tt) = g[N + 1]
  BY <1>1, FlattenIs
<1> DEFINE R == {i \in 0..N : g[i] = f[i]}
<1> HIDE DEF f, g, N
<1>6. 0 \in R
  BY <1>1, <1>2, <1>3
<1>7. ASSUME NEW n \in 0..(N - 1), n \in R PROVE n + 1 \in R
  <2> DEFINE k == n + 1
  <2>1. k \in 1..N /\ k \in 1..(N + 1) /\ k - 1 = n /\ k \in 0..N
    BY <1>1
  <2> HIDE DEF k
  <2>2. f[k] = f[k - 1] \o ss[k] /\ g[k] = g[k - 1] \o tt[k] /\ tt[k] = ss[k]
    BY <1>1, <1>2, <1>3, <2>1
  <2>3. g[k - 1] = f[k - 1]
    BY <1>7, <2>1
  <2>4. k \in R
    BY <2>1, <2>2, <2>3
  <2> QED BY <2>4 DEF k
<1> HIDE DEF R
<1>8. 0..N \subseteq R
  BY <1>1, <1>6, <1>7, Climb
<1>9. g[N] = f[N]
  BY <1>1, <1>8 DEF R
<1>11. g[N + 1] = g[N] \o piece
  <2> DEFINE k == N + 1
  <2>1. k \in 1..(N + 1) /\ k - 1 = N /\ tt[k] = piece
    BY <1>1
  <2> HIDE DEF k
  <2>2. g[k] = g[k - 1] \o tt[k]
    BY <1>3, <2>1
  <2> QED BY <2>1, <2>2 DEF k
<1> QED BY <1>4, <1>5, <1>9, <1>11 DEF tt

\* No pieces, nothing.
LEMMA FlattenEmpty == FlattenSeq(<<>>) = <<>>
BY DEF FlattenSeq

-----------------------------------------------------------------------------
(* The snapshot gate.                                                      *)

\* The lines of items, as an item keeps them.
Items == [kind : Headers, name : {l[2] : l \in Lines}, members : Seq({MemberOf(l) : l \in Lines}),
          ret : Seq({ReadTy(l[2]).ty : l \in Lines}), sem : Seq({FuncSem(l) : l \in Lines})]
GateTypes ==
  /\ lines \in Seq(Lines \cup {<<>>}) /\ done \in Seq(Items) /\ cur \in Seq(Items)
  /\ Len(cur) <= 1 /\ line \in Nat
  /\ status \in {"reading", "parsed", "parse", "surface", "skew", "valid"}

\* What an open item has so far: nothing of a function in another item, and a function's
\* parts in order.
OpenShape(it) ==
  /\ it.kind # "func" => it.ret = <<>>
  /\ it.ret = <<>> => it.sem = <<>>
  /\ Len(it.ret) <= 1 /\ Len(it.sem) <= 1

\* The first token of the last line of an open item.
LastToken(it, token) ==
  CASE it.sem # <<>> -> token = "sem"
    [] it.sem = <<>> /\ it.ret # <<>> -> token = "ret"
    [] it.ret = <<>> /\ it.kind = "func" -> token \in {"func", "param"}
    [] it.kind = "record" -> token \in {"record", "field"}
    [] it.kind = "variant" -> token \in {"variant", "case"}
    [] it.kind = "resource" -> token = "resource"

\* The items understood are written as lines, and the last line is the open item's.
GateStands ==
  /\ \A i \in DOMAIN done : ItemLines(done[i]) \in Seq(Lines)
  /\ \A i \in DOMAIN cur : ItemLines(cur[i]) \in Seq(Lines) /\ OpenShape(cur[i])
  /\ status = "reading" =>
       IF cur = <<>> THEN done = <<>> /\ TextLines(lines) = <<>>
       ELSE TextLines(lines) # <<>> /\ LastToken(cur[1], Last(TextLines(lines))[1])

\* Inductive: that the text is understood and well formed needs, to be kept by the next line,
\* that its last line tells the open item's shape.
GateInv == GateTypes /\ GateStands /\ SnapshotReadWhole

\* The text grows by the line, and by nothing when it is blank.
LEMMA TextAppend ==
  ASSUME NEW L, <<>> \notin L, NEW ls \in Seq(L \cup {<<>>}), NEW l \in L \cup {<<>>}
  PROVE  /\ TextLines(ls) \in Seq(L)
         /\ TextLines(Append(ls, l)) = IF l = <<>> THEN TextLines(ls) ELSE Append(TextLines(ls), l)
<1> DEFINE Piece(x) == IF x = <<>> THEN <<>> ELSE <<x>>
           ss == [i \in DOMAIN ls |-> Piece(ls[i])]
           tt == [i \in DOMAIN Append(ls, l) |-> Piece(Append(ls, l)[i])]
<1>1. \A x \in L \cup {<<>>} : Piece(x) \in Seq(L)
  OBVIOUS
<1>2. DOMAIN ls = 1..Len(ls) /\ Len(ls) \in Nat /\ DOMAIN Append(ls, l) = 1..(Len(ls) + 1)
  OBVIOUS
<1>3. \A i \in 1..Len(ls) : ls[i] \in L \cup {<<>>}
  OBVIOUS
<1> HIDE DEF Piece
<1>4. ss \in Seq(Seq(L)) /\ Len(ss) = Len(ls)
  BY <1>1, <1>2, <1>3
<1>5. tt = Append(ss, Piece(l))
  <2>1. \A i \in 1..Len(ls) : Append(ls, l)[i] = ls[i]
    BY <1>2
  <2>2. Append(ls, l)[Len(ls) + 1] = l
    BY <1>2
  <2> QED BY <1>2, <1>4, <2>1, <2>2
<1>6. TextLines(ls) = FlattenSeq(ss) /\ TextLines(Append(ls, l)) = FlattenSeq(tt)
  BY DEF TextLines, Piece
<1>7. Piece(l) \in Seq(L)
  BY <1>1
<1> HIDE DEF ss, tt
<1>8. FlattenSeq(ss) \in Seq(L)
  BY <1>4, FlattenIs
<1>9. FlattenSeq(tt) = FlattenSeq(ss) \o Piece(l)
  BY <1>4, <1>5, <1>7, FlattenAppend
<1>10. CASE l = <<>>
  <2>1. FlattenSeq(ss) \o <<>> = FlattenSeq(ss)
    BY <1>8
  <2> QED BY <1>6, <1>8, <1>9, <1>10, <2>1 DEF Piece
<1>11. CASE l # <<>>
  <2>1. FlattenSeq(ss) \o <<l>> = Append(FlattenSeq(ss), l)
    BY <1>8, <1>11
  <2> QED BY <1>6, <1>8, <1>9, <1>11, <2>1 DEF Piece
<1> QED BY <1>10, <1>11

\* An empty file says nothing, and no items are no lines.
LEMMA TextEmpty == TextLines(<<>>) = <<>> /\ LinesOf(<<>>) = <<>>
<1>1. [i \in DOMAIN <<>> |-> IF <<>>[i] = <<>> THEN <<>> ELSE << <<>>[i] >>] = <<>>
  OBVIOUS
<1>2. [i \in DOMAIN <<>> |-> ItemLines(<<>>[i])] = <<>>
  OBVIOUS
<1> QED BY <1>1, <1>2, FlattenEmpty DEF TextLines, LinesOf

\* Items that are written as lines.
Spelt(items) == items \in Seq(Items) /\ \A i \in DOMAIN items : ItemLines(items[i]) \in Seq(Lines)

\* One item more is its lines more.
LEMMA LinesAppend ==
  ASSUME NEW items, Spelt(items), NEW it \in Items, ItemLines(it) \in Seq(Lines)
  PROVE  /\ LinesOf(items) \in Seq(Lines)
         /\ LinesOf(Append(items, it)) = LinesOf(items) \o ItemLines(it)
<1> DEFINE ss == [i \in DOMAIN items |-> ItemLines(items[i])]
           tt == [i \in DOMAIN Append(items, it) |-> ItemLines(Append(items, it)[i])]
<1>1. items \in Seq(Items) /\ \A i \in DOMAIN items : ItemLines(items[i]) \in Seq(Lines)
  BY DEF Spelt
<1>2. /\ DOMAIN items = 1..Len(items) /\ Len(items) \in Nat
      /\ DOMAIN Append(items, it) = 1..(Len(items) + 1)
  BY <1>1
<1>3. ss \in Seq(Seq(Lines)) /\ Len(ss) = Len(items)
  BY <1>1, <1>2
<1>4. tt = Append(ss, ItemLines(it))
  <2>1. \A i \in 1..Len(items) : Append(items, it)[i] = items[i]
    BY <1>1, <1>2
  <2>2. Append(items, it)[Len(items) + 1] = it
    BY <1>1, <1>2
  <2> QED BY <1>2, <1>3, <2>1, <2>2
<1>5. LinesOf(items) = FlattenSeq(ss) /\ LinesOf(Append(items, it)) = FlattenSeq(tt)
  BY DEF LinesOf
<1> HIDE DEF ss, tt
<1>6. FlattenSeq(ss) \in Seq(Lines)
  BY <1>3, FlattenIs
<1>7. FlattenSeq(tt) = FlattenSeq(ss) \o ItemLines(it)
  BY <1>3, <1>4, FlattenAppend
<1> QED BY <1>5, <1>6, <1>7

\* The parts of an item's lines, and what they are sequences of.
Members(it) == [i \in DOMAIN it.members |-> MemberLine(it.members[i])]
Rets(it) == [i \in DOMAIN it.ret |-> <<"ret", WriteTy(it.ret[i])>>]
Sems(it) == [i \in DOMAIN it.sem |-> <<"sem">> \o it.sem[i]]
Parts(it) == Lines \cup {<<it.kind, it.name>>}
             \cup {MemberLine(it.members[i]) : i \in DOMAIN it.members}
             \cup {<<"ret", WriteTy(it.ret[i])>> : i \in DOMAIN it.ret}
             \cup {<<"sem">> \o it.sem[i] : i \in DOMAIN it.sem}

\* An item's lines: its header, its members, its ret, its sem.
LEMMA ItemParts ==
  ASSUME NEW it \in Items
  PROVE  /\ ItemLines(it) = <<<<it.kind, it.name>>>> \o Members(it) \o Rets(it) \o Sems(it)
         /\ <<<<it.kind, it.name>>>> \in Seq(Parts(it)) /\ Members(it) \in Seq(Parts(it))
         /\ Rets(it) \in Seq(Parts(it)) /\ Sems(it) \in Seq(Parts(it))
         /\ (it.ret = <<>> => Rets(it) = <<>>) /\ (it.sem = <<>> => Sems(it) = <<>>)
         /\ Len(Members(it)) = Len(it.members)
<1>1. /\ DOMAIN it.members = 1..Len(it.members) /\ Len(it.members) \in Nat
      /\ DOMAIN it.ret = 1..Len(it.ret) /\ Len(it.ret) \in Nat
      /\ DOMAIN it.sem = 1..Len(it.sem) /\ Len(it.sem) \in Nat
  BY DEF Items
<1>2. Members(it) \in Seq(Parts(it)) /\ Len(Members(it)) = Len(it.members)
  <2>1. \A i \in DOMAIN it.members : MemberLine(it.members[i]) \in Parts(it)
    BY DEF Parts
  <2> QED BY <1>1, <2>1 DEF Members
<1>3. Rets(it) \in Seq(Parts(it)) /\ (it.ret = <<>> => Rets(it) = <<>>)
  <2>1. \A i \in DOMAIN it.ret : <<"ret", WriteTy(it.ret[i])>> \in Parts(it)
    BY DEF Parts
  <2> QED BY <1>1, <2>1 DEF Rets
<1>4. Sems(it) \in Seq(Parts(it)) /\ (it.sem = <<>> => Sems(it) = <<>>)
  <2>1. \A i \in DOMAIN it.sem : <<"sem">> \o it.sem[i] \in Parts(it)
    BY DEF Parts
  <2> QED BY <1>1, <2>1 DEF Sems
<1>5. <<<<it.kind, it.name>>>> \in Seq(Parts(it))
  BY DEF Parts
<1>6. ItemLines(it) = <<<<it.kind, it.name>>>> \o Members(it) \o Rets(it) \o Sems(it)
  BY DEF ItemLines, Members, Rets, Sems
<1> QED BY <1>2, <1>3, <1>4, <1>5, <1>6

\* A header opens an item of that one line.
LEMMA NewItem ==
  ASSUME NEW l \in Lines, Len(l) = 2, l[1] \in Headers
  PROVE  /\ Item(l[1], l[2]) \in Items /\ ItemLines(Item(l[1], l[2])) = <<l>>
         /\ OpenShape(Item(l[1], l[2]))
<1> DEFINE it == Item(l[1], l[2])
<1>1. it \in Items
  BY DEF Item, Items
<1>2. /\ it.kind = l[1] /\ it.name = l[2] /\ it.members = <<>> /\ it.ret = <<>> /\ it.sem = <<>>
  BY DEF Item
<1>3. l = <<l[1], l[2]>>
  BY GateAssumption
<1> HIDE DEF it
<1>4. Members(it) = <<>> /\ Rets(it) = <<>> /\ Sems(it) = <<>>
  BY <1>2 DEF Members, Rets, Sems
<1>5. ItemLines(it) = <<l>> \o <<>> \o <<>> \o <<>>
  BY <1>1, <1>2, <1>3, <1>4, ItemParts
<1>6. <<l>> \o <<>> \o <<>> \o <<>> = <<l>>
  OBVIOUS
<1>7. OpenShape(it)
  BY <1>2 DEF OpenShape
<1> QED BY <1>1, <1>5, <1>6, <1>7 DEF it

\* A line that reads as a member.
MemberRead(l) ==
  /\ l[1] \in DOMAIN OwnerOf
  /\ Len(l) = 3 \/ (l[1] = "case" /\ Len(l) = 2)
  /\ Len(l) = 3 => ReadTy(l[3]).ok

\* A member is written as the line it was read from.
LEMMA MemberReturns ==
  ASSUME NEW l \in Lines, MemberRead(l) PROVE MemberLine(MemberOf(l)) = l
<1>1. l = [i \in 1..Len(l) |-> l[i]] /\ Len(l) \in Nat
  BY GateAssumption
<1>2. CASE Len(l) = 3
  <2>1. l[1] \in DOMAIN OwnerOf /\ ReadTy(l[3]).ok
    BY <1>2 DEF MemberRead
  <2>2. l[3] \in Texts
    BY <1>2, <2>1 DEF Texts
  <2>3. WriteTy(ReadTy(l[3]).ty) = l[3]
    BY <2>1, <2>2, GateAssumption
  <2>4. MemberOf(l) = <<l[1], l[2], <<ReadTy(l[3]).ty>>>>
    BY <1>2 DEF MemberOf
  <2>5. MemberLine(MemberOf(l)) = <<l[1], l[2], l[3]>>
    BY <2>3, <2>4 DEF MemberLine
  <2> QED BY <1>1, <1>2, <2>5
<1>3. CASE Len(l) # 3
  <2>1. Len(l) = 2
    BY <1>3 DEF MemberRead
  <2>2. MemberLine(MemberOf(l)) = <<l[1], l[2]>>
    BY <1>3 DEF MemberLine, MemberOf
  <2> QED BY <1>1, <2>1, <2>2
<1> QED BY <1>2, <1>3

\* A member more is a line more.
LEMMA MemberAdds ==
  ASSUME NEW it \in Items, ItemLines(it) \in Seq(Lines), it.ret = <<>>, it.sem = <<>>,
         NEW l \in Lines, Member(l), NEW new,
         new = [it EXCEPT !.members = Append(@, MemberOf(l))]
  PROVE  new \in Items /\ ItemLines(new) = Append(ItemLines(it), l)
<1>1. /\ new \in Items /\ new.kind = it.kind /\ new.name = it.name /\ new.ret = <<>> /\ new.sem = <<>>
      /\ new.members = Append(it.members, MemberOf(l))
  <2>1. it.members \in Seq({MemberOf(k) : k \in Lines})
    BY DEF Items
  <2>2. Append(it.members, MemberOf(l)) \in Seq({MemberOf(k) : k \in Lines})
    BY <2>1
  <2> QED BY <2>2 DEF Items
<1>2. Members(new) = Append(Members(it), l)
  <2> DEFINE N == Len(it.members)
             S == {MemberOf(k) : k \in Lines}
  <2>1. it.members \in Seq(S) /\ N \in Nat /\ MemberOf(l) \in S
    BY DEF Items
  <2>2. /\ DOMAIN it.members = 1..N /\ DOMAIN new.members = 1..(N + 1)
        /\ new.members[N + 1] = MemberOf(l) /\ \A i \in 1..N : new.members[i] = it.members[i]
    <3> HIDE DEF S
    <3> QED BY <1>1, <2>1
  <2>3. MemberLine(MemberOf(l)) = l
    BY MemberReturns DEF Member, MemberRead
  <2>4. Members(it) = [i \in 1..N |-> MemberLine(it.members[i])]
        /\ Members(new) = [i \in 1..(N + 1) |-> MemberLine(new.members[i])]
    BY <2>2 DEF Members
  <2>5. Members(it) \in Seq(Parts(it)) /\ Len(Members(it)) = N /\ l \in Parts(it)
    BY ItemParts DEF Parts
  <2> DEFINE f == Members(it)
             g == Members(new)
  <2> HIDE DEF N
  <2>6. \A i \in 1..N : g[i] = f[i]
    <3>1. TAKE i \in 1..N
    <3>2. i \in 1..(N + 1)
      BY <2>1
    <3>3. g[i] = MemberLine(new.members[i])
      BY <2>4, <3>2
    <3> QED BY <2>2, <2>4, <3>3
  <2>7. g[N + 1] = l
    <3>1. N + 1 \in 1..(N + 1)
      BY <2>1
    <3> QED BY <2>2, <2>3, <2>4, <3>1
  <2>8. g = [i \in 1..(N + 1) |-> g[i]]
    BY <2>4
  <2> HIDE DEF f, g
  <2> DEFINE U == Parts(it)
  <2>9. f \in Seq(U) /\ Len(f) = N /\ l \in U
    BY <2>5 DEF f
  <2> HIDE DEF U
  <2>10. Append(f, l) = [i \in 1..(N + 1) |-> IF i = N + 1 THEN l ELSE f[i]]
    <3> DEFINE h == Append(f, l)
    <3>1. h \in Seq(U) /\ Len(h) = N + 1 /\ h[N + 1] = l /\ \A i \in 1..N : h[i] = f[i]
      BY <2>1, <2>9
    <3> HIDE DEF h
    <3>2. h = [i \in 1..(N + 1) |-> h[i]]
      BY <3>1
    <3>3. \A i \in 1..(N + 1) : h[i] = IF i = N + 1 THEN l ELSE f[i]
      BY <2>1, <3>1
    <3> QED BY <3>2, <3>3 DEF h
  <2>11. \A i \in 1..(N + 1) : g[i] = IF i = N + 1 THEN l ELSE f[i]
    BY <2>1, <2>6, <2>7
  <2>12. g = [i \in 1..(N + 1) |-> IF i = N + 1 THEN l ELSE f[i]]
    BY <2>8, <2>11
  <2> QED BY <2>10, <2>12 DEF f, g
<1>3. DEFINE h == <<<<it.kind, it.name>>>>
<1>4. ItemLines(it) = h \o Members(it) \o <<>> \o <<>>
  BY ItemParts
<1>5. ItemLines(new) = h \o Members(new) \o <<>> \o <<>>
  BY <1>1, ItemParts
<1>6. h \in Seq(Parts(it)) /\ Members(it) \in Seq(Parts(it)) /\ l \in Parts(it)
  BY ItemParts DEF Parts
<1> HIDE DEF h
<1>7. h \o Append(Members(it), l) \o <<>> \o <<>> = Append(h \o Members(it) \o <<>> \o <<>>, l)
  BY <1>6
<1> QED BY <1>1, <1>2, <1>4, <1>5, <1>7

\* A ret is a line more.
LEMMA RetAdds ==
  ASSUME NEW it \in Items, ItemLines(it) \in Seq(Lines), it.ret = <<>>, it.sem = <<>>,
         NEW l \in Lines, Ret(l), NEW new,
         new = [it EXCEPT !.ret = <<ReadTy(l[2]).ty>>]
  PROVE  new \in Items /\ ItemLines(new) = Append(ItemLines(it), l)
<1>1. /\ new \in Items /\ new.kind = it.kind /\ new.name = it.name /\ new.members = it.members
      /\ new.sem = <<>> /\ new.ret = <<ReadTy(l[2]).ty>>
  <2>1. <<ReadTy(l[2]).ty>> \in Seq({ReadTy(k[2]).ty : k \in Lines})
    OBVIOUS
  <2> QED BY <2>1 DEF Items
<1>2. l = <<"ret", l[2]>> /\ WriteTy(ReadTy(l[2]).ty) = l[2]
  <2>1. l[1] = "ret" /\ Len(l) = 2 /\ ReadTy(l[2]).ok
    BY DEF Ret
  <2>2. l[2] \in Texts
    BY <2>1 DEF Texts
  <2>3. l = [i \in 1..Len(l) |-> l[i]]
    BY GateAssumption
  <2> QED BY <2>1, <2>2, <2>3, GateAssumption
<1>3. Members(new) = Members(it) /\ Rets(new) = <<l>> /\ Sems(new) = <<>>
  BY <1>1, <1>2 DEF Members, Rets, Sems
<1>4. DEFINE h == <<<<it.kind, it.name>>>>
<1>5. ItemLines(it) = h \o Members(it) \o <<>> \o <<>>
  BY ItemParts
<1>6. ItemLines(new) = h \o Members(it) \o <<l>> \o <<>>
  BY <1>1, <1>3, ItemParts
<1>7. h \in Seq(Parts(it)) /\ Members(it) \in Seq(Parts(it)) /\ l \in Parts(it)
  BY ItemParts DEF Parts
<1> HIDE DEF h
<1>8. h \o Members(it) \o <<l>> \o <<>> = Append(h \o Members(it) \o <<>> \o <<>>, l)
  BY <1>7
<1> QED BY <1>1, <1>5, <1>6, <1>8

\* A sem is a line more.
LEMMA SemAdds ==
  ASSUME NEW it \in Items, ItemLines(it) \in Seq(Lines), it.sem = <<>>,
         NEW l \in Lines, Sem(l), NEW new,
         new = [it EXCEPT !.sem = <<FuncSem(l)>>]
  PROVE  new \in Items /\ ItemLines(new) = Append(ItemLines(it), l)
<1>1. /\ new \in Items /\ new.kind = it.kind /\ new.name = it.name /\ new.members = it.members
      /\ new.ret = it.ret /\ new.sem = <<FuncSem(l)>>
  <2>1. <<FuncSem(l)>> \in Seq({FuncSem(k) : k \in Lines})
    OBVIOUS
  <2> QED BY <2>1 DEF Items
<1>2. l = <<"sem">> \o FuncSem(l)
  <2>1. l[1] = "sem" /\ l = [i \in 1..Len(l) |-> l[i]] /\ Len(l) \in Nat \ {0}
    BY GateAssumption DEF Sem
  <2> DEFINE U == {l[i] : i \in 1..Len(l)}
  <2>2. l \in Seq(U) /\ "sem" \in U
    BY <2>1
  <2> HIDE DEF U
  <2>3. Tail(l) \in Seq(U) /\ Len(Tail(l)) = Len(l) - 1 /\ \A i \in 1..(Len(l) - 1) : Tail(l)[i] = l[i + 1]
    BY <2>1, <2>2
  <2> DEFINE m == <<"sem">> \o Tail(l)
  <2>4. /\ m \in Seq(U) /\ Len(m) = Len(l) /\ m[1] = "sem"
        /\ \A i \in 1..Len(l) : i # 1 => m[i] = Tail(l)[i - 1]
    BY <2>1, <2>2, <2>3
  <2>5. ASSUME NEW i \in 1..Len(l), i # 1 PROVE m[i] = l[i]
    <3>1. i - 1 \in 1..(Len(l) - 1) /\ (i - 1) + 1 = i
      BY <2>1, <2>5
    <3>2. Tail(l)[i - 1] = l[(i - 1) + 1]
      BY <2>3, <3>1
    <3> QED BY <2>4, <2>5, <3>1, <3>2
  <2>6. \A i \in 1..Len(l) : m[i] = l[i]
    BY <2>1, <2>4, <2>5
  <2> HIDE DEF m
  <2>7. m = [i \in 1..Len(l) |-> m[i]]
    BY <2>1, <2>4
  <2>8. m = l
    BY <2>1, <2>6, <2>7
  <2> QED BY <2>8 DEF m, FuncSem
<1>3. Members(new) = Members(it) /\ Rets(new) = Rets(it) /\ Sems(new) = <<l>>
  <2>1. Sems(new) = <<<<"sem">> \o FuncSem(l)>>
    BY <1>1 DEF Sems
  <2>2. Members(new) = Members(it) /\ Rets(new) = Rets(it)
    BY <1>1 DEF Members, Rets
  <2> HIDE DEF Members, Rets, Sems
  <2> QED BY <1>2, <2>1, <2>2
<1>4. DEFINE h == <<<<it.kind, it.name>>>>
<1>5. ItemLines(it) = h \o Members(it) \o Rets(it) \o <<>>
  BY ItemParts
<1>6. ItemLines(new) = h \o Members(it) \o Rets(it) \o <<l>>
  BY <1>1, <1>3, ItemParts
<1>7. h \in Seq(Parts(it)) /\ Members(it) \in Seq(Parts(it)) /\ Rets(it) \in Seq(Parts(it)) /\ l \in Parts(it)
  BY ItemParts DEF Parts
<1> HIDE DEF h
<1>8. h \o Members(it) \o Rets(it) \o <<l>> = Append(h \o Members(it) \o Rets(it) \o <<>>, l)
  BY <1>7
<1> QED BY <1>1, <1>5, <1>6, <1>8

-----------------------------------------------------------------------------
(* The format.                                                             *)

\* The token before the next line of w.
Before(w) == IF w = <<>> THEN "start" ELSE Last(w)[1]

\* A line more keeps the format when it is legal and may follow.
LEMMA WellFormedAppend ==
  ASSUME NEW w \in Seq(Lines), NEW l \in Lines
  PROVE  WellFormed(Append(w, l)) <=> WellFormed(w) /\ LegalLine(l) /\ MayFollow(Before(w), l)
<1> DEFINE N == Len(w)
           v == Append(w, l)
           B(ls, i) == IF i = 1 THEN "start" ELSE ls[i - 1][1]
           F(ls, i) == LegalLine(ls[i]) /\ MayFollow(B(ls, i), ls[i])
<1>1. /\ N \in Nat /\ DOMAIN w = 1..N /\ DOMAIN v = 1..(N + 1)
      /\ v[N + 1] = l /\ \A i \in 1..N : v[i] = w[i]
  OBVIOUS
<1>2. /\ WellFormed(w) <=> \A i \in 1..N : F(w, i)
      /\ WellFormed(v) <=> \A i \in 1..(N + 1) : F(v, i)
  BY <1>1 DEF WellFormed
<1>3. B(v, N + 1) = Before(w)
  <2>1. CASE N = 0
    <3>1. w = <<>>
      BY <2>1
    <3> QED BY <2>1, <3>1 DEF Before
  <2>2. CASE N # 0
    <3>1. w # <<>> /\ N + 1 # 1 /\ (N + 1) - 1 = N /\ N \in 1..N
      BY <1>1, <2>2
    <3>2. v[N] = w[N]
      BY <1>1, <3>1
    <3> QED BY <3>1, <3>2 DEF Before, Last
  <2> QED BY <2>1, <2>2
<1>4. ASSUME NEW i \in 1..N PROVE F(v, i) <=> F(w, i)
  <2>1. v[i] = w[i]
    BY <1>1
  <2>2. B(v, i) = B(w, i)
    <3>1. CASE i = 1
      BY <3>1
    <3>2. CASE i # 1
      <4>1. i - 1 \in 1..N
        BY <1>1, <3>2
      <4> QED BY <1>1, <3>2, <4>1
    <3> QED BY <3>1, <3>2
  <2> HIDE DEF B, v
  <2> QED BY <2>1, <2>2
<1>5. F(v, N + 1) <=> LegalLine(l) /\ MayFollow(Before(w), l)
  <2>1. v[N + 1] = l
    BY <1>1
  <2> HIDE DEF B, v, N
  <2> QED BY <1>3, <2>1
<1>6. \A i \in 1..(N + 1) : i \in 1..N \/ i = N + 1
  BY <1>1
<1>7. N + 1 \in 1..(N + 1) /\ \A i \in 1..N : i \in 1..(N + 1)
  BY <1>1
<1> HIDE DEF F, N, v
<1> QED BY <1>2, <1>4, <1>5, <1>6, <1>7 DEF v

\* The empty file keeps the format.
LEMMA WellFormedEmpty == WellFormed(<<>>) /\ WholeItems(<<>>)
BY DEF WellFormed, WholeItems

\* What the last token says of the open item.
LEMMA Tokens ==
  ASSUME NEW it \in Items, OpenShape(it), NEW t, LastToken(it, t)
  PROVE  /\ t \in {"func", "param"} <=> it.kind = "func" /\ it.ret = <<>>
         /\ t \in {"record", "field"} <=> it.kind = "record"
         /\ t \in {"variant", "case"} <=> it.kind = "variant"
         /\ t = "ret" <=> it.kind = "func" /\ it.ret # <<>> /\ it.sem = <<>>
<1>1. it.kind \in {"record", "variant", "func", "resource"}
  BY DEF Items, Headers
<1>2. (it.kind # "func" => it.ret = <<>>) /\ (it.ret = <<>> => it.sem = <<>>)
  BY DEF OpenShape
<1>3. CASE it.sem # <<>>
  BY <1>1, <1>2, <1>3 DEF LastToken
<1>4. CASE it.sem = <<>> /\ it.ret # <<>>
  BY <1>1, <1>2, <1>4 DEF LastToken
<1>5. CASE it.ret = <<>> /\ it.kind = "func"
  BY <1>1, <1>2, <1>5 DEF LastToken
<1>6. CASE it.kind = "record"
  BY <1>1, <1>2, <1>6 DEF LastToken
<1>7. CASE it.kind = "variant"
  BY <1>1, <1>2, <1>7 DEF LastToken
<1>8. CASE it.kind = "resource"
  BY <1>1, <1>2, <1>8 DEF LastToken
<1> QED BY <1>1, <1>3, <1>4, <1>5, <1>6, <1>7, <1>8

\* The lines so far, and the token before the next one.
Said == TextLines(lines)
Accepted(l) == Header(l) \/ Member(l) \/ Ret(l) \/ Sem(l)

\* A line has tokens, and its type text is parsed when it is legal.
LEMMA LineFacts ==
  /\ <<>> \notin Lines
  /\ \A l \in Lines : /\ l # <<>> /\ Len(l) \in Nat /\ l = [i \in 1..Len(l) |-> l[i]]
                      /\ (l[1] \in {"field", "case", "param"} /\ Len(l) = 3
                            => (ReadTy(l[3]).ok <=> LegalText(l[3])))
                      /\ (l[1] = "ret" /\ Len(l) = 2 => (ReadTy(l[2]).ok <=> LegalText(l[2])))
<1>1. <<>> \notin Lines
  BY GateAssumption
<1>2. ASSUME NEW l \in Lines
      PROVE  /\ l # <<>> /\ Len(l) \in Nat /\ l = [i \in 1..Len(l) |-> l[i]]
             /\ (l[1] \in {"field", "case", "param"} /\ Len(l) = 3
                   => (ReadTy(l[3]).ok <=> LegalText(l[3])))
             /\ (l[1] = "ret" /\ Len(l) = 2 => (ReadTy(l[2]).ok <=> LegalText(l[2])))
  <2>1. l # <<>> /\ Len(l) \in Nat /\ l = [i \in 1..Len(l) |-> l[i]]
    BY GateAssumption
  <2>2. ASSUME l[1] \in {"field", "case", "param"}, Len(l) = 3
        PROVE  ReadTy(l[3]).ok <=> LegalText(l[3])
    <3>1. l[3] \in Texts
      BY <2>2 DEF Texts, OwnerOf
    <3> QED BY <3>1, GateAssumption
  <2>3. ASSUME l[1] = "ret", Len(l) = 2
        PROVE  ReadTy(l[2]).ok <=> LegalText(l[2])
    <3>1. l[2] \in Texts
      BY <2>3 DEF Texts
    <3> QED BY <3>1, GateAssumption
  <2> QED BY <2>1, <2>2, <2>3
<1> QED BY <1>1, <1>2

\* What the open item tells of the token before the next line.
LEMMA OpenTokens ==
  ASSUME GateTypes, GateStands, status = "reading"
  PROVE  /\ Before(Said) \in {"func", "param"} <=> Open("func") /\ cur[1].ret = <<>>
         /\ Before(Said) \in {"record", "field"} <=> Open("record")
         /\ Before(Said) \in {"variant", "case"} <=> Open("variant")
         /\ Before(Said) = "ret" <=> Open("func") /\ cur[1].ret # <<>> /\ cur[1].sem = <<>>
<1>1. CASE cur = <<>>
  <2>1. Before(Said) = "start"
    BY <1>1 DEF GateStands, Said, Before
  <2>2. ~Open("func") /\ ~Open("record") /\ ~Open("variant")
    BY <1>1 DEF Open
  <2> QED BY <2>1, <2>2
<1>2. CASE cur # <<>>
  <2>1. 1 \in DOMAIN cur /\ cur[1] \in Items
    BY <1>2 DEF GateTypes
  <2>2. OpenShape(cur[1])
    BY <2>1 DEF GateStands
  <2>3. LastToken(cur[1], Before(Said))
    BY <1>2 DEF GateStands, Said, Before
  <2> DEFINE it == cur[1]
             t == Before(Said)
  <2>4. \A k : Open(k) <=> it.kind = k
    BY <1>2 DEF Open
  <2> HIDE DEF it, t
  <2>5. it \in Items /\ OpenShape(it) /\ LastToken(it, t)
    BY <2>1, <2>2, <2>3 DEF it, t
  <2>6. /\ t \in {"func", "param"} <=> it.kind = "func" /\ it.ret = <<>>
        /\ t \in {"record", "field"} <=> it.kind = "record"
        /\ t \in {"variant", "case"} <=> it.kind = "variant"
        /\ t = "ret" <=> it.kind = "func" /\ it.ret # <<>> /\ it.sem = <<>>
    BY <2>5, Tokens
  <2> QED BY <2>4, <2>6 DEF it, t
<1> QED BY <1>1, <1>2

\* The parser takes exactly the lines the format has in that place.
LEMMA Judged ==
  ASSUME GateTypes, GateStands, status = "reading", NEW l \in Lines
  PROVE  Accepted(l) <=> LegalLine(l) /\ MayFollow(Before(Said), l)
<1> DEFINE t == Before(Said)
           F == Open("func") /\ cur[1].ret = <<>>
           R == Open("func") /\ cur[1].ret # <<>> /\ cur[1].sem = <<>>
<1>1. /\ t \in {"func", "param"} <=> F
      /\ t \in {"record", "field"} <=> Open("record")
      /\ t \in {"variant", "case"} <=> Open("variant")
      /\ t = "ret" <=> R
  BY OpenTokens
<1>2. Closes <=> ~F
  BY DEF Closes
<1>3. /\ (l[1] \in {"field", "case", "param"} /\ Len(l) = 3 => (ReadTy(l[3]).ok <=> LegalText(l[3])))
      /\ (l[1] = "ret" /\ Len(l) = 2 => (ReadTy(l[2]).ok <=> LegalText(l[2])))
  BY LineFacts
<1>4. /\ Header(l) <=> l[1] \in {"record", "variant", "func", "resource"} /\ Len(l) = 2 /\ ~F
      /\ Ret(l) <=> l[1] = "ret" /\ Len(l) = 2 /\ F /\ ReadTy(l[2]).ok
      /\ Sem(l) <=> /\ l[1] = "sem" /\ (Len(l) = 3 \/ (Len(l) = 4 /\ l[4] = "stream")) /\ R
                    /\ l[2] \in {"strict", "propagate", "custom"}
                    /\ l[3] \in {"pure", "stable", "volatile"}
  BY <1>2 DEF Header, Headers, Ret, Sem
<1>5. Member(l) <=> \/ l[1] = "field" /\ Len(l) = 3 /\ Open("record") /\ ReadTy(l[3]).ok
                    \/ l[1] = "case" /\ Len(l) = 3 /\ Open("variant") /\ ReadTy(l[3]).ok
                    \/ l[1] = "case" /\ Len(l) = 2 /\ Open("variant")
                    \/ l[1] = "param" /\ Len(l) = 3 /\ F /\ ReadTy(l[3]).ok
  BY DEF Member, OwnerOf
<1> HIDE DEF t, F, R
<1>6. CASE l[1] \in {"record", "variant", "func", "resource"}
  BY <1>1, <1>4, <1>5, <1>6 DEF LegalLine, MayFollow, Headers, Accepted, t
<1>7. CASE l[1] = "field"
  BY <1>1, <1>3, <1>4, <1>5, <1>7 DEF LegalLine, MayFollow, Headers, Accepted, t
<1>8. CASE l[1] = "case"
  BY <1>1, <1>3, <1>4, <1>5, <1>8 DEF LegalLine, MayFollow, Headers, Accepted, t
<1>9. CASE l[1] = "param"
  BY <1>1, <1>3, <1>4, <1>5, <1>9 DEF LegalLine, MayFollow, Headers, Accepted, t
<1>10. CASE l[1] = "ret"
  BY <1>1, <1>3, <1>4, <1>5, <1>10 DEF LegalLine, MayFollow, Headers, Accepted, t
<1>11. CASE l[1] = "sem"
  BY <1>1, <1>4, <1>5, <1>11 DEF LegalLine, MayFollow, Headers, Accepted, t
<1>12. CASE l[1] \notin {"record", "variant", "func", "resource", "field", "case", "param", "ret", "sem"}
  BY <1>4, <1>5, <1>12 DEF LegalLine, MayFollow, Headers, Accepted, t
<1> QED BY <1>6, <1>7, <1>8, <1>9, <1>10, <1>11, <1>12

\* The file may end where the open item closes.
LEMMA EndJudged ==
  ASSUME GateTypes, GateStands, status = "reading"
  PROVE  Closes <=> WholeItems(Said)
<1>1. Before(Said) \in {"func", "param"} <=> Open("func") /\ cur[1].ret = <<>>
  BY OpenTokens
<1>2. CASE Said = <<>>
  BY <1>1, <1>2 DEF Closes, WholeItems, Before
<1>3. CASE Said # <<>>
  BY <1>1, <1>3 DEF Closes, WholeItems, Before
<1> QED BY <1>2, <1>3

\* The first lines of one line more are the lines there were.
LEMMA FormerLines ==
  ASSUME NEW L, NEW ls \in Seq(L), NEW l \in L
  PROVE  /\ SubSeq(Append(ls, l), 1, Len(ls)) = ls
         /\ SubSeq(Append(ls, l), 1, Len(ls) + 1) = Append(ls, l)
<1> DEFINE N == Len(ls)
           v == Append(ls, l)
           a == SubSeq(v, 1, N)
           b == SubSeq(v, 1, N + 1)
<1>0. N \in Nat /\ v \in Seq(L) /\ Len(v) = N + 1 /\ \A i \in 1..N : v[i] = ls[i]
  OBVIOUS
<1> HIDE DEF v
<1>1. /\ N \in Nat /\ v \in Seq(L) /\ Len(v) = N + 1 /\ \A i \in 1..N : v[i] = ls[i]
      /\ ls = [i \in 1..N |-> ls[i]] /\ v = [i \in 1..(N + 1) |-> v[i]]
  BY <1>0
<1> HIDE DEF N
<1>2. a = [i \in 1..N |-> v[i]] /\ b = [i \in 1..(N + 1) |-> v[i]]
  BY <1>1
<1>3. a = ls
  BY <1>1, <1>2
<1>4. b = v
  BY <1>1, <1>2
<1> HIDE DEF a, b
<1> QED BY <1>3, <1>4 DEF N, v, a, b

\* One line more of a file.
LEMMA NextPrefix ==
  ASSUME NEW L, NEW ls \in Seq(L), NEW n \in 1..Len(ls)
  PROVE  SubSeq(ls, 1, n) = Append(SubSeq(ls, 1, n - 1), ls[n]) /\ SubSeq(ls, 1, n - 1) \in Seq(L)
<1> DEFINE a == SubSeq(ls, 1, n - 1)
           b == SubSeq(ls, 1, n)
<1>1. n \in Nat /\ n - 1 \in Nat /\ (n - 1) + 1 = n /\ ls[n] \in L /\ \A i \in 1..n : ls[i] \in L
  OBVIOUS
<1>2. a = [i \in 1..(n - 1) |-> ls[i]] /\ b = [i \in 1..n |-> ls[i]]
  BY <1>1
<1>3. a \in Seq(L) /\ Len(a) = n - 1
  BY <1>1, <1>2
<1>4. \A i \in 1..(n - 1) : a[i] = ls[i]
  BY <1>2
<1> DEFINE c == Append(a, ls[n])
<1> HIDE DEF a, b
<1>5. c \in Seq(L) /\ Len(c) = n /\ c[n] = ls[n] /\ \A i \in 1..(n - 1) : c[i] = a[i]
  BY <1>1, <1>3
<1> HIDE DEF c
<1>6. c = [i \in 1..n |-> c[i]]
  BY <1>5
<1>7. \A i \in 1..n : c[i] = ls[i]
  BY <1>1, <1>4, <1>5
<1>8. c = b
  BY <1>2, <1>6, <1>7
<1> QED BY <1>3, <1>8 DEF a, b, c

\* A file cut behind its last line is the file.
LEMMA WholeText ==
  ASSUME NEW L, NEW ls \in Seq(L) PROVE SubSeq(ls, 1, Len(ls)) = ls
OBVIOUS

\* The lines after the last that is not blank add nothing.
LEMMA LastLine ==
  ASSUME lines \in Seq(Lines \cup {<<>>}), Said # <<>>,
         NEW m, m = SelectLastInSeq(lines, LAMBDA l : l # <<>>)
  PROVE  m \in 1..Len(lines) /\ Upto(m) = Said /\ Upto(m - 1) # Upto(m)
<1> DEFINE N == Len(lines)
           I == {i \in 1..N : lines[i] # <<>>}
<1>1. N \in Nat /\ m = IF I # {} THEN Max(I) ELSE 0
  BY DEF SelectLastInSeq
<1>2. (m = 0 /\ I = {}) \/ (m \in I /\ \A i \in I : i <= m)
  <2>1. CASE I = {}
    BY <1>1, <2>1
  <2>2. CASE I # {}
    <3>1. \E x \in I : \A y \in I : x >= y
      <4> DEFINE J == {N - i : i \in I}
      <4>1. J \in SUBSET Nat /\ J # {}
        BY <1>1, <2>2
      <4> HIDE DEF J
      <4>2. PICK k \in J : \A j \in J : k <= j
        BY <4>1, Least
      <4>3. PICK x \in I : k = N - x
        BY <4>2 DEF J
      <4>4. \A y \in I : N - y \in J
        BY DEF J
      <4>5. \A y \in I : x >= y
        BY <1>1, <4>2, <4>3, <4>4
      <4> QED BY <4>5
    <3> HIDE DEF I
    <3>2. Max(I) \in I /\ \A y \in I : Max(I) >= y
      BY <3>1 DEF Max
    <3>3. \A y \in I : y \in Nat
      BY <1>1 DEF I
    <3> QED BY <1>1, <2>2, <3>2, <3>3
  <2> QED BY <2>1, <2>2
<1>3. m \in 0..N /\ \A i \in (m + 1)..N : lines[i] = <<>>
  <2>1. CASE m = 0 /\ I = {}
    BY <1>1, <2>1
  <2>2. CASE m \in I /\ \A i \in I : i <= m
    BY <1>1, <2>2
  <2> QED BY <1>2, <2>1, <2>2
<1>4. ASSUME NEW n \in 1..N
      PROVE  Upto(n) = (IF lines[n] = <<>> THEN Upto(n - 1) ELSE Append(Upto(n - 1), lines[n]))
             /\ Upto(n - 1) \in Seq(Lines)
  <2> DEFINE ls == SubSeq(lines, 1, n - 1)
             L == Lines \cup {<<>>}
  <2>1. SubSeq(lines, 1, n) = Append(ls, lines[n]) /\ ls \in Seq(L)
    BY NextPrefix
  <2>2. lines[n] \in L /\ <<>> \notin Lines
    BY LineFacts
  <2> HIDE DEF ls
  <2>3. /\ TextLines(ls) \in Seq(Lines)
        /\ TextLines(Append(ls, lines[n]))
             = IF lines[n] = <<>> THEN TextLines(ls) ELSE Append(TextLines(ls), lines[n])
    BY <2>1, <2>2, TextAppend
  <2> QED BY <2>1, <2>3 DEF Upto, ls
<1>5. Upto(N) = Said
  BY WholeText DEF Upto, Said
<1> DEFINE T == {n \in Nat : m + n <= N => Upto(m + n) = Upto(m)}
<1> HIDE DEF I
<1>6. 0..N \subseteq T
  <2>1. 0 \in T
    BY <1>1, <1>3
  <2>2. ASSUME NEW n \in 0..(N - 1), n \in T PROVE n + 1 \in T
    <3>1. CASE m + (n + 1) <= N
      <4> DEFINE k == m + (n + 1)
      <4>1. k \in 1..N /\ k \in (m + 1)..N /\ k - 1 = m + n /\ m + n <= N /\ n + 1 \in Nat
        BY <1>1, <1>3, <3>1
      <4> HIDE DEF k
      <4>2. lines[k] = <<>> /\ Upto(k) = Upto(k - 1)
        BY <1>3, <1>4, <4>1
      <4>3. Upto(m + n) = Upto(m)
        BY <2>2, <4>1
      <4>4. Upto(k) = Upto(m)
        BY <4>1, <4>2, <4>3
      <4> QED BY <4>1, <4>4 DEF k
    <3>2. CASE ~(m + (n + 1) <= N)
      BY <2>2, <3>2
    <3> QED BY <3>1, <3>2
  <2> HIDE DEF T
  <2> QED BY <1>1, <2>1, <2>2, Climb
<1>7. Upto(m) = Said
  <2>1. N - m \in 0..N /\ m + (N - m) = N /\ N <= N
    BY <1>1, <1>3
  <2>2. N - m \in T
    BY <1>6, <2>1
  <2> QED BY <1>5, <2>1, <2>2
<1>8. m # 0
  <2>1. SubSeq(lines, 1, 0) = <<>>
    OBVIOUS
  <2>2. Upto(0) = <<>>
    BY <2>1, TextEmpty DEF Upto
  <2> QED BY <1>7, <2>2
<1>9. m \in 1..N /\ lines[m] # <<>>
  BY <1>2, <1>3, <1>8 DEF I
<1>10. Upto(m - 1) # Upto(m)
  <2>1. Upto(m) = Append(Upto(m - 1), lines[m]) /\ Upto(m - 1) \in Seq(Lines)
    BY <1>4, <1>9
  <2>2. lines[m] \in Lines
    BY <1>9
  <2>3. Len(Upto(m)) # Len(Upto(m - 1))
    BY <2>1, <2>2
  <2> QED BY <2>3
<1> QED BY <1>7, <1>9, <1>10

-----------------------------------------------------------------------------
(* The gate keeps its invariant.                                           *)

\* GateInv at the start.
LEMMA GateInitInv == GateInit => GateInv
<1> SUFFICES ASSUME GateInit PROVE GateInv
  OBVIOUS
<1>1. lines = <<>> /\ done = <<>> /\ cur = <<>> /\ status = "reading" /\ line = 0
  BY DEF GateInit
<1>2. TextLines(lines) = <<>> /\ LinesOf(<<>>) = <<>>
  BY <1>1, TextEmpty
<1>3. done \o cur = <<>>
  BY <1>1
<1>4. GateTypes
  BY <1>1 DEF GateTypes
<1>5. GateStands
  BY <1>1, <1>2 DEF GateStands
<1>6. NothingSkipped
  BY <1>1, <1>2, <1>3 DEF NothingSkipped
<1>7. RefusedAtTheFirstError
  BY <1>1, <1>2, WellFormedEmpty DEF RefusedAtTheFirstError
<1> QED BY <1>4, <1>5, <1>6, <1>7 DEF GateInv, SnapshotReadWhole

\* What holds while lines are read.
LEMMA WhileReading ==
  ASSUME GateInv, status = "reading"
  PROVE  /\ GateTypes /\ GateStands /\ Said \in Seq(Lines) /\ LinesOf(done \o cur) = Said /\ WellFormed(Said)
         /\ Spelt(done) /\ Spelt(done \o cur) /\ done \o cur \in Seq(Items)
<1>1. GateTypes /\ GateStands /\ NothingSkipped /\ RefusedAtTheFirstError
  BY DEF GateInv, SnapshotReadWhole
<1>2. LinesOf(done \o cur) = Said
  BY <1>1 DEF NothingSkipped, Said
<1>3. WellFormed(Said)
  BY <1>1 DEF RefusedAtTheFirstError, Said
<1>4. /\ done \in Seq(Items) /\ cur \in Seq(Items) /\ lines \in Seq(Lines \cup {<<>>})
      /\ \A i \in DOMAIN done : ItemLines(done[i]) \in Seq(Lines)
      /\ \A i \in DOMAIN cur : ItemLines(cur[i]) \in Seq(Lines)
  BY <1>1 DEF GateTypes, GateStands
<1>5. Spelt(done)
  BY <1>4 DEF Spelt
<1>6. Spelt(done \o cur)
  <2> DEFINE v == done \o cur
             M == Len(done)
             K == Len(cur)
  <2>1. /\ v \in Seq(Items) /\ DOMAIN v = 1..(M + K) /\ M \in Nat /\ K \in Nat
        /\ \A i \in 1..M : v[i] = done[i]
        /\ \A i \in (M + 1)..(M + K) : i - M \in 1..K /\ v[i] = cur[i - M]
    BY <1>4
  <2>2. DOMAIN done = 1..M /\ DOMAIN cur = 1..K
    BY <1>4
  <2> HIDE DEF v, M, K
  <2>3. ASSUME NEW i \in DOMAIN v PROVE ItemLines(v[i]) \in Seq(Lines)
    <3>1. CASE i \in 1..M
      BY <1>4, <2>1, <2>2, <3>1
    <3>2. CASE i \in (M + 1)..(M + K)
      BY <1>4, <2>1, <2>2, <3>2
    <3> QED BY <2>1, <3>1, <3>2
  <2> QED BY <2>1, <2>3 DEF Spelt, v
<1>7. Said \in Seq(Lines)
  <2>1. <<>> \in Lines \cup {<<>>} /\ <<>> \notin Lines
    BY LineFacts
  <2> QED BY <1>4, <2>1, TextAppend DEF Said
<1> QED BY <1>1, <1>2, <1>3, <1>5, <1>6, <1>7 DEF Spelt

\* A line that is taken, and written by the items as it was read.
LEMMA TakenLine ==
  ASSUME GateInv, status = "reading", status' = "reading", NEW l \in Lines, Accepted(l),
         lines' = Append(lines, l),
         LinesOf(done' \o cur') = Append(LinesOf(done \o cur), l)
  PROVE  /\ lines' \in Seq(Lines \cup {<<>>})
         /\ TextLines(lines') = Append(Said, l) /\ Append(Said, l) # <<>> /\ Last(Append(Said, l)) = l
         /\ SnapshotReadWhole'
<1>1. /\ GateTypes /\ GateStands /\ Said \in Seq(Lines) /\ LinesOf(done \o cur) = Said /\ WellFormed(Said)
      /\ lines \in Seq(Lines \cup {<<>>})
  BY WhileReading DEF GateTypes
<1>2. lines' \in Seq(Lines \cup {<<>>})
  BY <1>1
<1>3. l \in Lines \cup {<<>>} /\ <<>> \notin Lines /\ l # <<>>
  BY LineFacts
<1>4. TextLines(lines') = Append(Said, l)
  BY <1>1, <1>3, TextAppend DEF Said
<1>5. Append(Said, l) # <<>> /\ Last(Append(Said, l)) = l
  BY <1>1 DEF Last
<1>6. WellFormed(Append(Said, l))
  BY <1>1, Judged, WellFormedAppend
<1>7. NothingSkipped'
  BY <1>1, <1>4 DEF NothingSkipped
<1>8. RefusedAtTheFirstError'
  BY <1>4, <1>6 DEF RefusedAtTheFirstError
<1> QED BY <1>2, <1>4, <1>5, <1>7, <1>8 DEF SnapshotReadWhole

\* A blank line.
LEMMA BlankKeeps == GateInv /\ Blank => GateInv'
<1> SUFFICES ASSUME GateInv, Blank PROVE GateInv'
  OBVIOUS
<1>1. /\ status = "reading" /\ status' = "reading" /\ lines' = Append(lines, <<>>)
      /\ done' = done /\ cur' = cur /\ line' = line
  BY DEF Blank, Reading
<1>2. /\ GateTypes /\ GateStands /\ LinesOf(done \o cur) = Said /\ WellFormed(Said)
      /\ lines \in Seq(Lines \cup {<<>>})
  BY <1>1, WhileReading DEF GateTypes
<1>3. <<>> \in Lines \cup {<<>>} /\ <<>> \notin Lines
  BY LineFacts
<1>4. TextLines(lines') = Said /\ lines' \in Seq(Lines \cup {<<>>})
  BY <1>1, <1>2, <1>3, TextAppend DEF Said
<1>5. GateTypes'
  BY <1>1, <1>2, <1>4 DEF GateTypes
<1>6. GateStands'
  BY <1>1, <1>2, <1>4 DEF GateStands, Said
<1>7. NothingSkipped'
  BY <1>1, <1>2, <1>4 DEF NothingSkipped
<1>8. RefusedAtTheFirstError'
  BY <1>1, <1>2, <1>4 DEF RefusedAtTheFirstError
<1> QED BY <1>5, <1>6, <1>7, <1>8 DEF GateInv, SnapshotReadWhole

\* A header.
LEMMA RestartKeeps == ASSUME GateInv, NEW l \in Lines, Restart(l) PROVE GateInv'
<1> DEFINE it == Item(l[1], l[2])
<1>1. /\ status = "reading" /\ status' = "reading" /\ lines' = Append(lines, l) /\ Header(l)
      /\ done' = done \o cur /\ cur' = <<it>> /\ line' = line
  BY DEF Restart, Reading
<1>2. /\ GateTypes /\ GateStands /\ Spelt(done \o cur) /\ done \o cur \in Seq(Items)
  BY <1>1, WhileReading
<1>3. /\ it \in Items /\ ItemLines(it) = <<l>> /\ OpenShape(it)
      /\ l[1] \in Headers
  BY <1>1, NewItem DEF Header
<1>4. it.kind = l[1] /\ it.ret = <<>> /\ it.sem = <<>>
  BY DEF Item
<1> HIDE DEF it
<1>5. ItemLines(it) \in Seq(Lines)
  BY <1>3
<1>6. LinesOf(done' \o cur') = Append(LinesOf(done \o cur), l)
  <2>1. done' \o cur' = Append(done \o cur, it)
    BY <1>1, <1>2, <1>3
  <2>2. /\ LinesOf(done \o cur) \in Seq(Lines)
        /\ LinesOf(Append(done \o cur, it)) = LinesOf(done \o cur) \o ItemLines(it)
    BY <1>2, <1>3, <1>5, LinesAppend
  <2>3. LinesOf(done \o cur) \o <<l>> = Append(LinesOf(done \o cur), l)
    BY <2>2
  <2> QED BY <1>3, <2>1, <2>2, <2>3
<1>7. /\ lines' \in Seq(Lines \cup {<<>>})
      /\ TextLines(lines') = Append(Said, l) /\ Append(Said, l) # <<>> /\ Last(Append(Said, l)) = l
      /\ SnapshotReadWhole'
  BY <1>1, <1>6, TakenLine DEF Accepted
<1>8. GateTypes'
  BY <1>1, <1>2, <1>3, <1>7 DEF GateTypes
<1>9. LastToken(it, l[1])
  BY <1>3, <1>4 DEF LastToken, Headers
<1>10. GateStands'
  <2> DEFINE items == done \o cur
  <2>0. done' = items /\ Spelt(items)
    BY <1>1, <1>2
  <2> HIDE DEF items
  <2>1. \A i \in DOMAIN done' : ItemLines(done'[i]) \in Seq(Lines)
    BY <2>0 DEF Spelt
  <2>2. \A i \in DOMAIN cur' : ItemLines(cur'[i]) \in Seq(Lines) /\ OpenShape(cur'[i])
    <3>1. DOMAIN cur' = {1} /\ cur'[1] = it
      BY <1>1
    <3> QED BY <1>3, <1>5, <3>1
  <2>3. cur' # <<>> /\ cur'[1] = it
    BY <1>1
  <2> QED BY <1>1, <1>7, <1>9, <2>1, <2>2, <2>3 DEF GateStands
<1> QED BY <1>7, <1>8, <1>10 DEF GateInv

\* A line that adds to the open item.
LEMMA ItemGrows ==
  ASSUME GateInv, status = "reading", status' = "reading", NEW l \in Lines, Accepted(l),
         lines' = Append(lines, l), done' = done, line' = line, cur # <<>>,
         NEW new \in Items, cur' = <<new>>, ItemLines(new) = Append(ItemLines(cur[1]), l),
         OpenShape(new), LastToken(new, l[1])
  PROVE  GateInv'
<1> DEFINE it == cur[1]
<1>1. /\ GateTypes /\ GateStands /\ Spelt(done) /\ done \in Seq(Items)
  BY WhileReading DEF Spelt
<1>2. it \in Items /\ cur = <<it>> /\ ItemLines(it) \in Seq(Lines)
  <2>1. cur \in Seq(Items) /\ Len(cur) = 1
    BY <1>1 DEF GateTypes
  <2>2. 1 \in DOMAIN cur
    BY <2>1
  <2>3. ItemLines(it) \in Seq(Lines)
    BY <1>1, <2>2 DEF GateStands
  <2> QED BY <2>1, <2>3
<1> HIDE DEF it
<1>3. ItemLines(new) \in Seq(Lines) /\ ItemLines(new) = Append(ItemLines(it), l)
  BY <1>2 DEF it
<1>4. LinesOf(done' \o cur') = Append(LinesOf(done \o cur), l)
  <2>1. done \o cur = Append(done, it) /\ done' \o cur' = Append(done, new)
    BY <1>1, <1>2
  <2>2. /\ LinesOf(done) \in Seq(Lines)
        /\ LinesOf(Append(done, it)) = LinesOf(done) \o ItemLines(it)
        /\ LinesOf(Append(done, new)) = LinesOf(done) \o ItemLines(new)
    BY <1>1, <1>2, <1>3, LinesAppend
  <2>3. LinesOf(done) \o Append(ItemLines(it), l) = Append(LinesOf(done) \o ItemLines(it), l)
    BY <1>2, <2>2
  <2> QED BY <1>3, <2>1, <2>2, <2>3
<1>5. /\ lines' \in Seq(Lines \cup {<<>>})
      /\ TextLines(lines') = Append(Said, l) /\ Append(Said, l) # <<>> /\ Last(Append(Said, l)) = l
      /\ SnapshotReadWhole'
  BY <1>4, TakenLine
<1>6. GateTypes'
  BY <1>1, <1>5 DEF GateTypes
<1>7. GateStands'
  <2>1. \A i \in DOMAIN done' : ItemLines(done'[i]) \in Seq(Lines)
    BY <1>1 DEF Spelt
  <2>2. \A i \in DOMAIN cur' : ItemLines(cur'[i]) \in Seq(Lines) /\ OpenShape(cur'[i])
    BY SMTT(60), <1>3
  <2>3. cur' # <<>> /\ cur'[1] = new
    OBVIOUS
  <2> QED BY <1>5, <2>1, <2>2, <2>3 DEF GateStands
<1> QED BY <1>5, <1>6, <1>7 DEF GateInv

\* The open item, while there is one.
LEMMA OpenItem ==
  ASSUME GateInv, status = "reading", cur # <<>>
  PROVE  /\ cur[1] \in Items /\ cur = <<cur[1]>> /\ ItemLines(cur[1]) \in Seq(Lines)
         /\ OpenShape(cur[1])
<1>1. GateTypes /\ GateStands
  BY DEF GateInv
<1>2. cur \in Seq(Items) /\ Len(cur) = 1
  <2>1. cur \in Seq(Items) /\ Len(cur) <= 1 /\ cur # <<>>
    BY <1>1 DEF GateTypes
  <2> DEFINE n == Len(cur)
  <2>2. n \in Nat /\ n # 0 /\ n <= 1
    BY <2>1
  <2> HIDE DEF n
  <2>3. n = 1
    BY <2>2
  <2> QED BY <2>1, <2>3 DEF n
<1>3. 1 \in DOMAIN cur
  BY <1>2
<1>4. ItemLines(cur[1]) \in Seq(Lines) /\ OpenShape(cur[1])
  BY <1>1, <1>3 DEF GateStands
<1> QED BY <1>2, <1>3, <1>4

\* A field, a case or a param.
LEMMA AddMemberKeeps == ASSUME GateInv, NEW l \in Lines, AddMember(l) PROVE GateInv'
<1> DEFINE it == cur[1]
           new == [it EXCEPT !.members = Append(@, MemberOf(l))]
<1>1. /\ status = "reading" /\ status' = "reading" /\ lines' = Append(lines, l) /\ Member(l)
      /\ done' = done /\ line' = line
      /\ cur' = [cur EXCEPT ![1].members = Append(@, MemberOf(l))]
  BY DEF AddMember, Reading
<1>2. cur # <<>> /\ it.kind = OwnerOf[l[1]] /\ l[1] \in {"field", "case", "param"}
      /\ (l[1] = "param" => it.ret = <<>>)
  BY <1>1 DEF Member, Open, OwnerOf
<1>3. it \in Items /\ cur = <<it>> /\ ItemLines(it) \in Seq(Lines) /\ OpenShape(it)
  BY <1>1, <1>2, OpenItem
<1>4. cur' = <<new>>
  <2>1. DOMAIN cur = {1} /\ cur = [i \in {1} |-> cur[1]]
    BY <1>3
  <2>2. cur' = [i \in {1} |-> new]
    BY <1>1, <2>1
  <2> HIDE DEF new
  <2> QED BY <2>2
<1>5. it.ret = <<>> /\ it.sem = <<>>
  BY <1>2, <1>3 DEF OpenShape, OwnerOf
<1> HIDE DEF it, new
<1>6. new \in Items /\ ItemLines(new) = Append(ItemLines(it), l)
  BY <1>1, <1>3, <1>5, MemberAdds DEF new
<1>7. new.kind = it.kind /\ new.ret = <<>> /\ new.sem = <<>>
  BY <1>3, <1>5 DEF new, Items
<1>8. OpenShape(new) /\ LastToken(new, l[1])
  <2>1. OpenShape(new)
    BY <1>7 DEF OpenShape
  <2>2. \/ l[1] = "field" /\ new.kind = "record"
        \/ l[1] = "case" /\ new.kind = "variant"
        \/ l[1] = "param" /\ new.kind = "func"
    BY <1>2, <1>7 DEF OwnerOf
  <2>3. LastToken(new, l[1])
    BY <1>7, <2>2 DEF LastToken
  <2> QED BY <2>1, <2>3
<1>9. Accepted(l)
  BY <1>1 DEF Accepted
<1> QED BY <1>1, <1>2, <1>4, <1>6, <1>8, <1>9, ItemGrows DEF it

\* A ret.
LEMMA SetRetKeeps == ASSUME GateInv, NEW l \in Lines, SetRet(l) PROVE GateInv'
<1> DEFINE it == cur[1]
           new == [it EXCEPT !.ret = <<ReadTy(l[2]).ty>>]
<1>1. /\ status = "reading" /\ status' = "reading" /\ lines' = Append(lines, l) /\ Ret(l)
      /\ done' = done /\ line' = line
      /\ cur' = [cur EXCEPT ![1].ret = <<ReadTy(l[2]).ty>>]
  BY DEF SetRet, Reading
<1>2. cur # <<>> /\ it.kind = "func" /\ it.ret = <<>> /\ l[1] = "ret"
  BY <1>1 DEF Ret, Open
<1>3. it \in Items /\ cur = <<it>> /\ ItemLines(it) \in Seq(Lines) /\ OpenShape(it)
  BY <1>1, <1>2, OpenItem
<1>4. cur' = <<new>>
  <2>1. DOMAIN cur = {1} /\ cur = [i \in {1} |-> cur[1]]
    BY <1>3
  <2>2. cur' = [i \in {1} |-> new]
    BY <1>1, <2>1
  <2> HIDE DEF new
  <2> QED BY <2>2
<1>5. it.sem = <<>>
  BY <1>2, <1>3 DEF OpenShape
<1> HIDE DEF it, new
<1>6. new \in Items /\ ItemLines(new) = Append(ItemLines(it), l)
  BY <1>1, <1>2, <1>3, <1>5, RetAdds DEF new
<1>7. new.kind = "func" /\ new.ret = <<ReadTy(l[2]).ty>> /\ new.sem = <<>>
  BY <1>2, <1>3, <1>5 DEF new, Items
<1>8. OpenShape(new) /\ LastToken(new, l[1])
  BY <1>2, <1>7 DEF OpenShape, LastToken
<1>9. Accepted(l)
  BY <1>1 DEF Accepted
<1> QED BY <1>1, <1>2, <1>4, <1>6, <1>8, <1>9, ItemGrows DEF it

\* A sem.
LEMMA SetSemKeeps == ASSUME GateInv, NEW l \in Lines, SetSem(l) PROVE GateInv'
<1> DEFINE it == cur[1]
           new == [it EXCEPT !.sem = <<FuncSem(l)>>]
<1>1. /\ status = "reading" /\ status' = "reading" /\ lines' = Append(lines, l) /\ Sem(l)
      /\ done' = done /\ line' = line
      /\ cur' = [cur EXCEPT ![1].sem = <<FuncSem(l)>>]
  BY DEF SetSem, Reading
<1>2. cur # <<>> /\ it.kind = "func" /\ it.ret # <<>> /\ it.sem = <<>> /\ l[1] = "sem"
  BY <1>1 DEF Sem, Open
<1>3. it \in Items /\ cur = <<it>> /\ ItemLines(it) \in Seq(Lines) /\ OpenShape(it)
  BY <1>1, <1>2, OpenItem
<1>4. cur' = <<new>>
  <2>1. DOMAIN cur = {1} /\ cur = [i \in {1} |-> cur[1]]
    BY <1>3
  <2>2. cur' = [i \in {1} |-> new]
    BY <1>1, <2>1
  <2> HIDE DEF new
  <2> QED BY <2>2
<1> HIDE DEF it, new
<1>6. new \in Items /\ ItemLines(new) = Append(ItemLines(it), l)
  BY <1>1, <1>2, <1>3, SemAdds DEF new
<1>7. new.kind = "func" /\ new.ret = it.ret /\ new.sem = <<FuncSem(l)>>
  BY <1>2, <1>3 DEF new, Items
<1>8. OpenShape(new) /\ LastToken(new, l[1])
  <2> DEFINE fs == FuncSem(l)
  <2> HIDE DEF fs
  <2>1. new.kind = "func" /\ new.ret = it.ret /\ new.sem = <<fs>>
    BY <1>7 DEF fs
  <2>2. new.ret # <<>> /\ Len(new.ret) <= 1 /\ new.sem # <<>> /\ Len(new.sem) <= 1
    BY <1>2, <1>3, <2>1 DEF OpenShape
  <2> QED BY <1>2, <2>1, <2>2 DEF OpenShape, LastToken
<1>9. Accepted(l)
  BY <1>1 DEF Accepted
<1> QED BY <1>1, <1>2, <1>4, <1>6, <1>8, <1>9, ItemGrows DEF it

\* What was parsed stands whatever is made of it.
LEMMA StandsAfter ==
  ASSUME GateTypes, GateStands, done' = done, cur' = cur, status' # "reading"
  PROVE  GateStands'
<1>1. \A i \in DOMAIN done' : ItemLines(done'[i]) \in Seq(Lines)
  BY DEF GateStands
<1>2. \A i \in DOMAIN cur' : ItemLines(cur'[i]) \in Seq(Lines) /\ OpenShape(cur'[i])
  BY DEF GateStands
<1> QED BY <1>1, <1>2 DEF GateStands

\* The line the format does not have in that place.
LEMMA RefuseLineKeeps == ASSUME GateInv, NEW l \in Lines, RefuseLine(l) PROVE GateInv'
<1>1. /\ status = "reading" /\ status' = "parse" /\ lines' = Append(lines, l) /\ ~Accepted(l)
      /\ done' = done /\ cur' = cur /\ line' = Len(lines) + 1
  BY DEF RefuseLine, Reading, Accepted
<1>2. /\ GateTypes /\ GateStands /\ WellFormed(Said) /\ Said \in Seq(Lines)
      /\ lines \in Seq(Lines \cup {<<>>})
  BY <1>1, WhileReading DEF GateTypes
<1>3. l \in Lines \cup {<<>>} /\ <<>> \notin Lines /\ l # <<>>
  BY LineFacts
<1>4. TextLines(lines') = Append(Said, l) /\ lines' \in Seq(Lines \cup {<<>>})
  BY <1>1, <1>2, <1>3, TextAppend DEF Said
<1>5. ~WellFormed(Append(Said, l))
  BY <1>1, <1>2, Judged, WellFormedAppend
<1>6. SubSeq(lines', 1, Len(lines)) = lines /\ SubSeq(lines', 1, Len(lines) + 1) = lines'
  BY <1>1, <1>2, <1>3, FormerLines
<1>7. line' - 1 = Len(lines) /\ line' \in Nat
  BY <1>1, <1>2
<1>8. Upto(line - 1)' = Said /\ Upto(line)' = Append(Said, l)
  BY <1>1, <1>4, <1>6, <1>7 DEF Upto, Said
<1>9. RefusedAtTheFirstError'
  BY <1>1, <1>2, <1>5, <1>8 DEF RefusedAtTheFirstError
<1>10. NothingSkipped'
  BY <1>1 DEF NothingSkipped
<1>11. GateTypes'
  BY <1>1, <1>2, <1>4, <1>7 DEF GateTypes
<1>12. GateStands'
  BY <1>1, <1>2, StandsAfter
<1> QED BY <1>9, <1>10, <1>11, <1>12 DEF GateInv, SnapshotReadWhole

\* The end, inside a function without its ret or not.
LEMMA EndOfFileKeeps == GateInv /\ EndOfFile => GateInv'
<1> SUFFICES ASSUME GateInv, EndOfFile PROVE GateInv'
  OBVIOUS
<1>1. status = "reading" /\ lines' = lines
  BY DEF EndOfFile
<1>2. /\ GateTypes /\ GateStands /\ WellFormed(Said) /\ Said \in Seq(Lines) /\ LinesOf(done \o cur) = Said
      /\ lines \in Seq(Lines \cup {<<>>}) /\ Spelt(done \o cur) /\ done \o cur \in Seq(Items)
  BY <1>1, WhileReading DEF GateTypes
<1>3. Closes <=> WholeItems(Said)
  BY <1>1, <1>2, EndJudged
<1>4. CASE Closes
  <2>1. done' = done \o cur /\ cur' = <<>> /\ status' = "parsed" /\ line' = line
    BY <1>4 DEF EndOfFile
  <2>2. done' \o cur' = done \o cur
    BY <1>2, <2>1
  <2>3. GateTypes'
    BY <1>1, <1>2, <2>1 DEF GateTypes
  <2>4. GateStands'
    BY <1>2, <2>1 DEF GateStands, Spelt
  <2>5. NothingSkipped'
    BY <1>1, <1>2, <2>2 DEF NothingSkipped, Said
  <2>6. RefusedAtTheFirstError'
    BY <1>1, <1>2, <1>3, <1>4, <2>1 DEF RefusedAtTheFirstError, Said
  <2> QED BY <2>3, <2>4, <2>5, <2>6 DEF GateInv, SnapshotReadWhole
<1>5. CASE ~Closes
  <2>1. /\ done' = done /\ cur' = cur /\ status' = "parse"
        /\ line' = SelectLastInSeq(lines, LAMBDA l : l # <<>>)
    BY <1>5 DEF EndOfFile
  <2>2. Said # <<>>
    BY <1>3, <1>5, WellFormedEmpty
  <2>3. line' \in 1..Len(lines) /\ Upto(line') = Said /\ Upto(line' - 1) # Upto(line')
    BY <1>2, <2>1, <2>2, LastLine
  <2>4. Upto(line)' = Said /\ Upto(line - 1)' # Said
    BY <1>1, <2>3 DEF Upto
  <2>5. RefusedAtTheFirstError'
    BY <1>1, <1>2, <1>3, <1>5, <2>1, <2>4 DEF RefusedAtTheFirstError, Said
  <2>6. NothingSkipped'
    BY <2>1 DEF NothingSkipped
  <2>7. GateTypes'
    BY <1>1, <1>2, <2>1, <2>3 DEF GateTypes
  <2>8. GateStands'
    BY <1>2, <2>1, StandsAfter
  <2> QED BY <2>5, <2>6, <2>7, <2>8 DEF GateInv, SnapshotReadWhole
<1> QED BY <1>4, <1>5

\* The surface and the contract are judged without touching what was parsed.
LEMMA JudgedKeeps ==
  ASSUME GateInv, status = "parsed", status' \in {"surface", "valid", "skew"},
         UNCHANGED <<lines, done, cur, line>>
  PROVE  GateInv'
<1>1. GateTypes /\ GateStands /\ NothingSkipped /\ RefusedAtTheFirstError
  BY DEF GateInv, SnapshotReadWhole
<1>2. GateTypes'
  BY <1>1 DEF GateTypes
<1>3. GateStands'
  BY <1>1, StandsAfter
<1>4. NothingSkipped'
  BY <1>1 DEF NothingSkipped
<1>5. RefusedAtTheFirstError'
  BY <1>1 DEF RefusedAtTheFirstError
<1> QED BY <1>2, <1>3, <1>4, <1>5 DEF GateInv, SnapshotReadWhole

\* Nothing.
LEMMA StutterKeeps == GateInv /\ UNCHANGED gate => GateInv'
<1> SUFFICES ASSUME GateInv, UNCHANGED gate PROVE GateInv'
  OBVIOUS
<1>1. lines' = lines /\ done' = done /\ cur' = cur /\ status' = status /\ line' = line
  BY DEF gate
<1>2. GateTypes /\ GateStands /\ NothingSkipped /\ RefusedAtTheFirstError
  BY DEF GateInv, SnapshotReadWhole
<1>3. GateTypes' /\ GateStands'
  BY <1>1, <1>2 DEF GateTypes, GateStands
<1>4. NothingSkipped' /\ RefusedAtTheFirstError'
  BY <1>1, <1>2 DEF NothingSkipped, RefusedAtTheFirstError, Upto
<1> QED BY <1>3, <1>4 DEF GateInv, SnapshotReadWhole

\* Every step of the gate.
LEMMA GateKeeps == GateInv /\ [GateNext]_gate => GateInv'
<1> SUFFICES ASSUME GateInv, [GateNext]_gate PROVE GateInv'
  OBVIOUS
<1>1. CASE Blank
  BY <1>1, BlankKeeps
<1>2. ASSUME NEW l \in Lines, Restart(l) PROVE GateInv'
  BY <1>2, RestartKeeps
<1>3. ASSUME NEW l \in Lines, AddMember(l) PROVE GateInv'
  BY <1>3, AddMemberKeeps
<1>4. ASSUME NEW l \in Lines, SetRet(l) PROVE GateInv'
  BY <1>4, SetRetKeeps
<1>5. ASSUME NEW l \in Lines, SetSem(l) PROVE GateInv'
  BY <1>5, SetSemKeeps
<1>6. ASSUME NEW l \in Lines, RefuseLine(l) PROVE GateInv'
  BY <1>6, RefuseLineKeeps
<1>7. CASE EndOfFile
  BY <1>7, EndOfFileKeeps
<1>8. CASE UnresolvedRef
  BY <1>8, JudgedKeeps DEF UnresolvedRef
<1>9. CASE CheckContract
  <2>1. /\ status = "parsed" /\ status' \in {"surface", "valid", "skew"}
        /\ UNCHANGED <<lines, done, cur, line>>
    BY <1>9 DEF CheckContract
  <2> QED BY <2>1, JudgedKeeps
<1>10. CASE UNCHANGED gate
  BY <1>10, StutterKeeps
<1> QED BY <1>1, <1>2, <1>3, <1>4, <1>5, <1>6, <1>7, <1>8, <1>9, <1>10 DEF GateNext

\* "Never a silent skip" and "ANY malformed input" refused at its first error, of files of every
\* length: parse_snapshot understands what it read, or names the line that breaks the format.
THEOREM SnapshotRight == GateSpec => []SnapshotReadWhole
<1>1. GateSpec => []GateInv
  BY GateInitInv, GateKeeps, PTL DEF GateSpec
<1>2. GateInv => SnapshotReadWhole
  BY DEF GateInv
<1> QED BY <1>1, <1>2, PTL

-----------------------------------------------------------------------------
(* Along sequences.                                                        *)

\* Induction along sequences, of a set of them that holds the empty one and every one
\* that extends one of it.
LEMMA Lengthen ==
  ASSUME NEW L, NEW P, <<>> \in P, \A ls \in Seq(L), x \in L : ls \in P => Append(ls, x) \in P
  PROVE  Seq(L) \subseteq P
<1> SUFFICES ASSUME NEW ls \in Seq(L) PROVE ls \in P
  OBVIOUS
<1> DEFINE N == Len(ls)
           T == {n \in 0..N : SubSeq(ls, 1, n) \in P}
<1>1. N \in Nat /\ SubSeq(ls, 1, N) = ls /\ SubSeq(ls, 1, 0) = <<>>
  OBVIOUS
<1>2. 0 \in T
  <2>1. SubSeq(ls, 1, 0) \in P
    BY <1>1, Zenon
  <2>2. 0 \in 0..N
    BY <1>1
  <2> QED BY <2>1, <2>2
<1>3. ASSUME NEW n \in 0..(N - 1), n \in T PROVE n + 1 \in T
  <2> DEFINE k == n + 1
  <2>1. k \in 1..N /\ k \in 0..N /\ k - 1 = n /\ ls[k] \in L
    BY <1>1
  <2> HIDE DEF k
  <2>2. SubSeq(ls, 1, k) = Append(SubSeq(ls, 1, n), ls[k]) /\ SubSeq(ls, 1, n) \in Seq(L)
    BY <2>1, NextPrefix
  <2>3. k \in T
    BY <1>3, <2>1, <2>2
  <2> QED BY <2>3 DEF k
<1>4. N \in T
  <2> HIDE DEF T, N
  <2> QED BY <1>1, <1>2, <1>3, Climb
<1> QED BY <1>1, <1>4

-----------------------------------------------------------------------------
(* What passes the gate can be called.                                     *)

\* The elements of two sequences run together.
LEMMA Joined ==
  ASSUME NEW S, NEW a \in Seq(S), NEW b \in Seq(S)
  PROVE  /\ a \o b \in Seq(S) /\ Len(a) \in Nat /\ Len(b) \in Nat
         /\ Len(a \o b) = Len(a) + Len(b)
         /\ \A i \in 1..Len(a) : (a \o b)[i] = a[i]
         /\ \A i \in 1..Len(b) : (a \o b)[Len(a) + i] = b[i]
OBVIOUS

\* A member as the parser made it, of a line of the item's kind.
MadeOf(it, m, l) == l \in Lines /\ MemberRead(l) /\ OwnerOf[l[1]] = it.kind /\ m = MemberOf(l)
Made(it) == \A j \in DOMAIN it.members : \E l \in Lines : MadeOf(it, it.members[j], l)

\* The lines of an item: its header, its members, and none of a member's kind after those.
LEMMA MadeLines ==
  ASSUME NEW it \in Items, Made(it), NEW n, n = Len(it.members)
  PROVE  /\ n \in Nat /\ Len(ItemLines(it)) \in Nat /\ Len(ItemLines(it)) >= n + 1
         /\ ItemLines(it)[1] = <<it.kind, it.name>>
         /\ \A j \in 1..n : MadeOf(it, it.members[j], ItemLines(it)[j + 1])
         /\ \A j \in 2..Len(ItemLines(it)) : ItemLines(it)[j][1] \notin Headers
         /\ \A j \in (n + 2)..Len(ItemLines(it)) : ItemLines(it)[j][1] \notin DOMAIN OwnerOf
<1> DEFINE h == <<it.kind, it.name>>
           m == Members(it)
           t == Rets(it) \o Sems(it)
           il == ItemLines(it)
           S == Parts(it)
<1>1. /\ il = <<h>> \o m \o Rets(it) \o Sems(it) /\ <<h>> \in Seq(S) /\ m \in Seq(S)
      /\ Rets(it) \in Seq(S) /\ Sems(it) \in Seq(S) /\ Len(m) = n
  BY ItemParts
<1>2. n \in Nat
  BY <1>1
<1>3. t \in Seq(S) /\ il = <<h>> \o m \o t
  <2> DEFINE a == Rets(it)
             b == Sems(it)
             hm == <<h>> \o m
  <2>1. hm \in Seq(S) /\ a \in Seq(S) /\ b \in Seq(S)
    BY <1>1
  <2> HIDE DEF a, b, hm
  <2>2. (hm \o a) \o b = hm \o (a \o b) /\ a \o b \in Seq(S)
    BY <2>1
  <2> QED BY <1>1, <2>2 DEF a, b, hm
<1>4. \A j \in 1..Len(t) : t[j][1] \in {"ret", "sem"}
  <2> DEFINE a == Rets(it)
             b == Sems(it)
  <2>1. \A j \in 1..Len(a) : a[j][1] = "ret"
    BY <1>1 DEF Rets
  <2>2. \A j \in 1..Len(b) : b[j][1] = "sem"
    <3>1. DOMAIN b = DOMAIN it.sem
      BY DEF Sems
    <3>2. DOMAIN b = 1..Len(b)
      BY <1>1
    <3>3. \A j \in DOMAIN it.sem : it.sem[j] \in {FuncSem(l) : l \in Lines}
      BY DEF Items
    <3>4. \A l \in Lines : (<<"sem">> \o FuncSem(l))[1] = "sem"
      <4> SUFFICES ASSUME NEW l \in Lines PROVE (<<"sem">> \o FuncSem(l))[1] = "sem"
        OBVIOUS
      <4>1. l = [i \in 1..Len(l) |-> l[i]] /\ Len(l) \in Nat \ {0}
        BY GateAssumption
      <4> DEFINE X == {l[i] : i \in 1..Len(l)} \cup {"sem"}
      <4>2. l \in Seq(X) /\ l # <<>>
        BY <4>1
      <4> HIDE DEF X
      <4>3. FuncSem(l) \in Seq(X)
        BY <4>2 DEF FuncSem
      <4>4. <<"sem">> \in Seq(X)
        BY DEF X
      <4> QED BY <4>3, <4>4
    <3>5. \A j \in DOMAIN it.sem : b[j] = <<"sem">> \o it.sem[j]
      BY DEF Sems
    <3> QED BY <3>1, <3>2, <3>3, <3>4, <3>5
  <2>3. a \in Seq(S) /\ b \in Seq(S)
    BY <1>1
  <2>4. t = a \o b
    OBVIOUS
  <2> HIDE DEF a, b, t
  <2> QED BY <2>1, <2>2, <2>3, <2>4
<1>5. \A j \in 1..n : MadeOf(it, it.members[j], m[j])
  <2> SUFFICES ASSUME NEW j \in 1..n PROVE MadeOf(it, it.members[j], m[j])
    OBVIOUS
  <2>1. j \in DOMAIN it.members /\ m[j] = MemberLine(it.members[j])
    BY <1>1 DEF Members, Items
  <2>2. PICK l \in Lines : MadeOf(it, it.members[j], l)
    BY <2>1 DEF Made
  <2>3. MemberLine(MemberOf(l)) = l
    BY <2>2, MemberReturns DEF MadeOf
  <2> QED BY <2>1, <2>2, <2>3 DEF MadeOf
<1> HIDE DEF h, m, t, il
<1>6. /\ Len(il) = 1 + n + Len(t) /\ Len(t) \in Nat /\ il[1] = h
      /\ \A j \in 1..n : il[j + 1] = m[j]
      /\ \A j \in (n + 2)..Len(il) : il[j] = t[j - (n + 1)] /\ j - (n + 1) \in 1..Len(t)
  <2>1. <<h>> \in Seq(S) /\ m \in Seq(S) /\ t \in Seq(S) /\ il = <<h>> \o m \o t /\ Len(m) = n
    BY <1>1, <1>3 DEF h, m
  <2> DEFINE one == <<h>>
             hm == one \o m
  <2>2. one \in Seq(S) /\ Len(one) = 1 /\ one[1] = h /\ 1 \in 1..1
    BY <2>1
  <2> HIDE DEF one, S
  <2>3. /\ hm \in Seq(S) /\ Len(hm) = 1 + n /\ \A i \in 1..1 : hm[i] = one[i]
        /\ \A i \in 1..n : hm[1 + i] = m[i]
    <3>1. /\ one \o m \in Seq(S) /\ Len(one \o m) = Len(one) + Len(m)
          /\ \A i \in 1..Len(one) : (one \o m)[i] = one[i]
          /\ \A i \in 1..Len(m) : (one \o m)[Len(one) + i] = m[i]
      <4>1. one \in Seq(S) /\ m \in Seq(S)
        BY <2>1, <2>2
      <4> QED BY <4>1, Joined
    <3> QED BY <2>1, <2>2, <3>1
  <2>4. il = hm \o t
    BY <2>1 DEF one
  <2> HIDE DEF hm
  <2>5. /\ Len(t) \in Nat /\ Len(il) = (1 + n) + Len(t) /\ \A i \in 1..(1 + n) : il[i] = hm[i]
        /\ \A i \in 1..Len(t) : il[(1 + n) + i] = t[i]
    <3>1. /\ Len(t) \in Nat /\ Len(hm \o t) = Len(hm) + Len(t)
          /\ \A i \in 1..Len(hm) : (hm \o t)[i] = hm[i]
          /\ \A i \in 1..Len(t) : (hm \o t)[Len(hm) + i] = t[i]
      BY SMTT(60), <2>1, <2>3, Joined
    <3> QED BY <2>3, <2>4, <3>1
  <2>6. \A j \in (n + 2)..Len(il) : il[j] = t[j - (n + 1)] /\ j - (n + 1) \in 1..Len(t)
    <3> SUFFICES ASSUME NEW j \in (n + 2)..Len(il)
                 PROVE  il[j] = t[j - (n + 1)] /\ j - (n + 1) \in 1..Len(t)
      OBVIOUS
    <3>1. j - (n + 1) \in 1..Len(t) /\ (1 + n) + (j - (n + 1)) = j
      BY <1>2, <2>5
    <3> QED BY <2>5, <3>1
  <2>7. 1 \in 1..(1 + n) /\ \A j \in 1..n : 1 + j \in 1..(1 + n) /\ 1 + j = j + 1
    BY <1>2
  <2>8. il[1] = h /\ \A j \in 1..n : il[j + 1] = m[j]
    BY <2>2, <2>3, <2>5, <2>7
  <2> QED BY <1>2, <2>5, <2>6, <2>8
<1>7. \A j \in 1..n : il[j + 1][1] \in DOMAIN OwnerOf
  BY <1>5, <1>6 DEF MadeOf, MemberRead
<1>8. \A j \in (n + 2)..Len(il) : il[j][1] \in {"ret", "sem"}
  BY <1>4, <1>6
<1>9. \A j \in 2..Len(il) : il[j][1] \notin Headers
  <2> SUFFICES ASSUME NEW j \in 2..Len(il) PROVE il[j][1] \notin Headers
    OBVIOUS
  <2>1. CASE j <= n + 1
    <3>1. j - 1 \in 1..n /\ (j - 1) + 1 = j
      BY <1>2, <1>6, <2>1
    <3>2. il[j][1] \in DOMAIN OwnerOf
      BY <1>7, <3>1
    <3> QED BY <3>2 DEF OwnerOf, Headers
  <2>2. CASE ~(j <= n + 1)
    <3>1. j \in (n + 2)..Len(il)
      BY <1>2, <1>6, <2>2
    <3> QED BY <1>8, <3>1 DEF Headers
  <2> QED BY <2>1, <2>2
<1>10. \A j \in (n + 2)..Len(il) : il[j][1] \notin DOMAIN OwnerOf
  BY <1>8 DEF OwnerOf
<1>11. Len(il) \in Nat /\ Len(il) >= n + 1
  BY <1>2, <1>6
<1>12. \A j \in 1..n : MadeOf(it, it.members[j], il[j + 1])
  BY <1>5, <1>6
<1> QED BY <1>2, <1>6, <1>9, <1>10, <1>11, <1>12 DEF il, h

\* at[k] is where the lines of the k-th item begin in ls, and the last is behind them all.
Laid(at, items, ls) ==
  /\ ls \in Seq(Lines) /\ at \in [1..(Len(items) + 1) -> Nat]
  /\ at[1] = 1 /\ at[Len(items) + 1] = Len(ls) + 1
  /\ \A k \in 1..Len(items) :
       /\ at[k] >= 1 /\ at[k + 1] = at[k] + Len(ItemLines(items[k])) /\ at[k + 1] <= Len(ls) + 1
       /\ \A j \in 1..Len(ItemLines(items[k])) : ls[at[k] + j - 1] = ItemLines(items[k])[j]
  /\ \A k, q \in 1..(Len(items) + 1) : k < q => at[k] < at[q]
  /\ \A i \in 1..Len(ls) : \E k \in 1..Len(items) : at[k] <= i /\ i < at[k + 1]

\* Items that are written as lines.
SpeltItems == {it \in Items : ItemLines(it) \in Seq(Lines)}

\* One item more lies behind the others.
LEMMA LaidAppend ==
  ASSUME NEW items, Spelt(items), NEW it \in SpeltItems, NEW at, Laid(at, items, LinesOf(items))
  PROVE  \E up : Laid(up, Append(items, it), LinesOf(Append(items, it)))
<1> DEFINE N == Len(items)
           ls == LinesOf(items)
           il == ItemLines(it)
           m == Len(ls)
           n == Len(il)
           more == Append(items, it)
           all == ls \o il
           up == [k \in 1..(N + 2) |-> IF k <= N + 1 THEN at[k] ELSE m + 1 + n]
<1>1. /\ LinesOf(more) = all /\ ls \in Seq(Lines) /\ il \in Seq(Lines)
      /\ items \in Seq(Items) /\ it \in Items
  BY LinesAppend DEF SpeltItems, Spelt
<1>2. /\ N \in Nat /\ Len(more) = N + 1 /\ more[N + 1] = it
      /\ \A k \in 1..N : more[k] = items[k]
  BY <1>1
<1>3. n >= 1 /\ n \in Nat
  <2> DEFINE h == <<it.kind, it.name>>
             one == <<h>>
             a == Members(it)
             b == Rets(it)
             c == Sems(it)
             S == Parts(it)
  <2>1. /\ il = ((one \o a) \o b) \o c /\ one \in Seq(S) /\ a \in Seq(S) /\ b \in Seq(S)
        /\ c \in Seq(S)
    BY <1>1, ItemParts
  <2> HIDE DEF a, b, c, S, il, h
  <2>2. Len(one) = 1
    OBVIOUS
  <2> HIDE DEF one
  <2>3. one \o a \in Seq(S) /\ Len(one \o a) = 1 + Len(a) /\ Len(a) \in Nat
    <3>1. one \in Seq(S) /\ a \in Seq(S)
      BY <2>1
    <3>2. one \o a \in Seq(S) /\ Len(one \o a) = Len(one) + Len(a) /\ Len(a) \in Nat
      BY <3>1, Joined
    <3> QED BY <2>2, <3>2
  <2> DEFINE oa == one \o a
  <2> HIDE DEF oa
  <2>4. oa \o b \in Seq(S) /\ Len(oa \o b) = Len(oa) + Len(b) /\ Len(b) \in Nat
    <3>1. oa \in Seq(S)
      BY <2>3 DEF oa
    <3> QED BY <2>1, <3>1
  <2> DEFINE oab == oa \o b
  <2> HIDE DEF oab
  <2>5. oab \o c \in Seq(S) /\ Len(oab \o c) = Len(oab) + Len(c) /\ Len(c) \in Nat
    <3>1. oab \in Seq(S)
      BY <2>4 DEF oab
    <3> QED BY <2>1, <3>1
  <2> QED BY <2>1, <2>3, <2>4, <2>5 DEF oa, oab
<1> HIDE DEF il, ls, more
<1>4. /\ all \in Seq(Lines) /\ m \in Nat /\ Len(all) = m + n
      /\ \A i \in 1..m : all[i] = ls[i]
      /\ \A i \in 1..n : all[m + i] = il[i]
  BY <1>1, Joined
<1>5. /\ at \in [1..(N + 1) -> Nat] /\ at[1] = 1 /\ at[N + 1] = m + 1
      /\ \A k \in 1..N :
            /\ at[k] >= 1 /\ at[k + 1] = at[k] + Len(ItemLines(items[k])) /\ at[k + 1] <= m + 1
            /\ \A j \in 1..Len(ItemLines(items[k])) : ls[at[k] + j - 1] = ItemLines(items[k])[j]
      /\ \A k, q \in 1..(N + 1) : k < q => at[k] < at[q]
      /\ \A i \in 1..m : \E k \in 1..N : at[k] <= i /\ i < at[k + 1]
  BY DEF Laid, ls
<1>6. \A k \in 1..N : Len(ItemLines(items[k])) \in Nat
  BY <1>2 DEF Spelt
<1> HIDE DEF all, n, m, N
<1>7. up \in [1..(N + 2) -> Nat]
  BY <1>2, <1>3, <1>4, <1>5
<1>8. /\ \A k \in 1..(N + 1) : up[k] = at[k]
      /\ up[N + 2] = m + 1 + n
  BY <1>2
<1> HIDE DEF up
<1>9. ASSUME NEW k \in 1..(N + 1)
      PROVE  /\ up[k] >= 1 /\ up[k + 1] = up[k] + Len(ItemLines(more[k]))
             /\ up[k + 1] <= m + n + 1
             /\ \A j \in 1..Len(ItemLines(more[k])) : all[up[k] + j - 1] = ItemLines(more[k])[j]
  <2>1. CASE k <= N
    <3> DEFINE jl == ItemLines(items[k])
    <3>1. k \in 1..N /\ k + 1 \in 1..(N + 1) /\ k \in 1..(N + 1) /\ more[k] = items[k]
      BY <1>2, <2>1
    <3>2. Len(jl) \in Nat
      BY <1>6, <3>1
    <3>3. /\ at[k] \in Nat /\ at[k] >= 1 /\ at[k + 1] = at[k] + Len(jl) /\ at[k + 1] <= m + 1
          /\ \A j \in 1..Len(jl) : ls[at[k] + j - 1] = jl[j]
      BY <1>5, <3>1
    <3> HIDE DEF jl
    <3>4. up[k] = at[k] /\ up[k + 1] = at[k + 1]
      BY <1>8, <3>1
    <3>5. \A j \in 1..Len(jl) : all[up[k] + j - 1] = jl[j]
      <4> SUFFICES ASSUME NEW j \in 1..Len(jl) PROVE all[up[k] + j - 1] = jl[j]
        OBVIOUS
      <4>1. at[k] + j - 1 \in 1..m
        BY <1>4, <3>2, <3>3
      <4>2. all[at[k] + j - 1] = ls[at[k] + j - 1]
        BY <1>4, <4>1
      <4> QED BY <3>3, <3>4, <4>2
    <3>6. up[k + 1] <= m + n + 1
      BY <1>3, <1>4, <3>3, <3>4, <3>2
    <3> QED BY <3>1, <3>3, <3>4, <3>5, <3>6 DEF jl
  <2>2. CASE ~(k <= N)
    <3>1. k = N + 1 /\ k + 1 = N + 2 /\ more[k] = it /\ N + 1 \in 1..(N + 1)
      BY <1>2, <2>2
    <3>2. up[k] = m + 1 /\ up[k + 1] = m + 1 + n
      BY <1>5, <1>8, <3>1
    <3>3. ItemLines(more[k]) = il /\ Len(il) = n
      BY <3>1 DEF il, n
    <3>4. \A j \in 1..n : all[up[k] + j - 1] = il[j]
      <4> SUFFICES ASSUME NEW j \in 1..n PROVE all[up[k] + j - 1] = il[j]
        OBVIOUS
      <4>1. up[k] + j - 1 = m + j
        BY <1>3, <1>4, <3>2
      <4> QED BY <1>4, <4>1
    <3> QED BY <1>3, <1>4, <3>2, <3>3, <3>4
  <2> QED BY <2>1, <2>2
<1>10. ASSUME NEW k \in 1..(N + 2), NEW q \in 1..(N + 2), k < q PROVE up[k] < up[q]
  <2>1. CASE q <= N + 1
    <3>1. k \in 1..(N + 1) /\ q \in 1..(N + 1)
      BY <1>2, <1>10, <2>1
    <3>2. at[k] < at[q]
      BY <1>5, <1>10, <3>1
    <3> QED BY <1>8, <3>1, <3>2
  <2>2. CASE ~(q <= N + 1)
    <3>1. k \in 1..(N + 1) /\ q = N + 2 /\ N + 1 \in 1..(N + 1)
      BY <1>2, <1>10, <2>2
    <3>2. up[k] \in Nat /\ up[k] <= m + 1
      <4>1. CASE k = N + 1
        BY <1>4, <1>5, <1>8, <3>1, <4>1
      <4>2. CASE k # N + 1
        <5>1. k < N + 1 /\ at[k] \in Nat
          BY <1>2, <1>5, <3>1, <4>2
        <5>2. at[k] < at[N + 1]
          BY <1>5, <3>1, <5>1
        <5> QED BY <1>4, <1>5, <1>8, <3>1, <5>1, <5>2
      <4> QED BY <4>1, <4>2
    <3> QED BY <1>3, <1>4, <1>8, <3>1, <3>2
  <2> QED BY <2>1, <2>2
<1>11. ASSUME NEW i \in 1..(m + n) PROVE \E k \in 1..(N + 1) : up[k] <= i /\ i < up[k + 1]
  <2>1. CASE i <= m
    <3>1. i \in 1..m
      BY <1>3, <1>4, <2>1
    <3>2. PICK k \in 1..N : at[k] <= i /\ i < at[k + 1]
      BY <1>5, <3>1
    <3>3. k \in 1..(N + 1) /\ k + 1 \in 1..(N + 1)
      BY <1>2
    <3> QED BY <1>8, <3>2, <3>3
  <2>2. CASE ~(i <= m)
    <3>1. N + 1 \in 1..(N + 1) /\ (N + 1) + 1 = N + 2
      BY <1>2
    <3>2. up[N + 1] = m + 1 /\ up[(N + 1) + 1] = m + 1 + n
      BY <1>5, <1>8, <3>1
    <3>3. up[N + 1] <= i /\ i < up[(N + 1) + 1]
      BY <1>3, <1>4, <2>2, <3>2
    <3> QED BY <3>1, <3>3
  <2> QED BY <2>1, <2>2
<1>12. up[1] = 1 /\ up[(N + 1) + 1] = (m + n) + 1
  <2>1. 1 \in 1..(N + 1) /\ (N + 1) + 1 = N + 2
    BY <1>2
  <2>2. up[1] = 1
    BY <1>5, <1>8, <2>1
  <2> QED BY <1>3, <1>4, <1>8, <2>1, <2>2
<1>13. Laid(up, more, all)
  <2>1. Len(more) + 1 = N + 2 /\ Len(all) + 1 = m + n + 1 /\ Len(more) = N + 1 /\ Len(all) = m + n
    BY <1>2, <1>3, <1>4
  <2> QED BY <1>4, <1>7, <1>9, <1>10, <1>11, <1>12, <2>1 DEF Laid
<1> QED BY <1>1, <1>13 DEF more

\* The lines of items are laid out, whatever the items.
LEMMA LaidOut ==
  ASSUME NEW items, Spelt(items) PROVE \E at : Laid(at, items, LinesOf(items))
<1> DEFINE P == {its \in Seq(SpeltItems) : \E at : Laid(at, its, LinesOf(its))}
<1>1. <<>> \in P
  <2> DEFINE at == [k \in 1..1 |-> 1]
  <2>1. LinesOf(<<>>) = <<>>
    BY TextEmpty
  <2>2. Laid(at, <<>>, <<>>)
    <3>1. Len(<<>>) = 0 /\ <<>> \in Seq(Lines)
      OBVIOUS
    <3>2. at \in [1..1 -> Nat] /\ at[1] = 1
      OBVIOUS
    <3> HIDE DEF at
    <3> QED BY <3>1, <3>2 DEF Laid
  <2> HIDE DEF at
  <2>3. <<>> \in Seq(SpeltItems) /\ \E up : Laid(up, <<>>, LinesOf(<<>>))
    BY <2>1, <2>2
  <2> QED BY <2>3
<1>2. ASSUME NEW its \in Seq(SpeltItems), NEW it \in SpeltItems, its \in P PROVE Append(its, it) \in P
  <2>1. PICK at : Laid(at, its, LinesOf(its))
    BY <1>2
  <2>2. Spelt(its)
    BY DEF Spelt, SpeltItems
  <2>3. \E up : Laid(up, Append(its, it), LinesOf(Append(its, it)))
    BY <2>1, <2>2, LaidAppend
  <2>4. Append(its, it) \in Seq(SpeltItems)
    OBVIOUS
  <2> QED BY <2>3, <2>4
<1>3. items \in Seq(SpeltItems)
  <2>1. items \in Seq(Items) /\ \A i \in DOMAIN items : ItemLines(items[i]) \in Seq(Lines)
    BY DEF Spelt
  <2>2. \A i \in 1..Len(items) : items[i] \in SpeltItems
    BY <2>1 DEF SpeltItems
  <2> QED BY <2>1, <2>2
<1> HIDE DEF P
<1>4. Seq(SpeltItems) \subseteq P
  BY <1>1, <1>2, Lengthen
<1>5. items \in P
  BY <1>3, <1>4
<1> QED BY <1>5 DEF P

\* The least of a set of positions.
LEMMA LeastIs ==
  ASSUME NEW I \in SUBSET Nat, I # {}
  PROVE  Min(I) \in I /\ \A y \in I : Min(I) <= y
<1>1. \E x \in I : \A y \in I : x <= y
  BY Least
<1> QED BY <1>1 DEF Min

\* Items that are all made of lines the parser took.
AllMade(items) == items \in Seq(Items) /\ \A i \in DOMAIN items : Made(items[i])

\* The headers among the lines are the lines the items begin at.
LEMMA Headed ==
  ASSUME NEW items, AllMade(items), NEW ls, NEW at, Laid(at, items, ls)
  PROVE  /\ \A k \in 1..Len(items) : /\ at[k] \in 1..Len(ls)
                                     /\ ls[at[k]] = <<items[k].kind, items[k].name>>
         /\ \A i \in 1..Len(ls) : ls[i][1] \in Headers => \E k \in 1..Len(items) : i = at[k]
<1> DEFINE N == Len(items)
           m == Len(ls)
<1>1. /\ N \in Nat /\ m \in Nat
      /\ \A k \in 1..N : items[k] \in Items /\ Made(items[k])
  BY DEF AllMade, Laid
<1>2. /\ at \in [1..(N + 1) -> Nat]
      /\ \A k \in 1..N :
            /\ at[k] >= 1 /\ at[k + 1] = at[k] + Len(ItemLines(items[k])) /\ at[k + 1] <= m + 1
            /\ \A j \in 1..Len(ItemLines(items[k])) : ls[at[k] + j - 1] = ItemLines(items[k])[j]
      /\ \A i \in 1..m : \E k \in 1..N : at[k] <= i /\ i < at[k + 1]
  BY DEF Laid
<1> HIDE DEF N, m
<1>3. ASSUME NEW k \in 1..N
      PROVE  /\ at[k] \in 1..m /\ ls[at[k]] = <<items[k].kind, items[k].name>>
             /\ \A i \in 1..m : at[k] < i /\ i < at[k + 1] => ls[i][1] \notin Headers
  <2> DEFINE il == ItemLines(items[k])
             n == Len(items[k].members)
  <2>1. /\ n \in Nat /\ Len(il) \in Nat /\ Len(il) >= n + 1
        /\ il[1] = <<items[k].kind, items[k].name>>
        /\ \A j \in 2..Len(il) : il[j][1] \notin Headers
    BY <1>1, MadeLines
  <2>2. at[k] \in Nat /\ at[k] >= 1 /\ at[k + 1] = at[k] + Len(il) /\ at[k + 1] <= m + 1
    BY <1>1, <1>2
  <2>3. \A j \in 1..Len(il) : ls[at[k] + j - 1] = il[j]
    BY <1>2
  <2> HIDE DEF il, n
  <2>4. at[k] \in 1..m /\ 1 \in 1..Len(il) /\ at[k] + 1 - 1 = at[k]
    BY <1>1, <2>1, <2>2
  <2>5. ASSUME NEW i \in 1..m, at[k] < i, i < at[k + 1] PROVE ls[i][1] \notin Headers
    <3> DEFINE j == i - at[k] + 1
    <3>1. j \in 2..Len(il) /\ j \in 1..Len(il) /\ at[k] + j - 1 = i
      BY SMTT(60), <1>1, <2>1, <2>2, <2>5
    <3> HIDE DEF j
    <3>2. ls[i] = il[j]
      BY <2>3, <3>1
    <3> QED BY <2>1, <3>1, <3>2
  <2> QED BY <2>1, <2>3, <2>4, <2>5
<1>4. ASSUME NEW i \in 1..m, ls[i][1] \in Headers PROVE \E k \in 1..N : i = at[k]
  <2>1. PICK k \in 1..N : at[k] <= i /\ i < at[k + 1]
    BY <1>2
  <2>2. at[k] \in 1..m /\ ~(at[k] < i /\ i < at[k + 1])
    BY <1>3, <1>4
  <2>3. i = at[k]
    BY <1>1, <2>1, <2>2
  <2> QED BY <2>3
<1> QED BY <1>3, <1>4 DEF N, m

\* The lines behind a place, as long as they begin with a token.
Run(ls, from, token) ==
  {j \in 1..Len(ls) : j > from /\ \A q \in (from + 1)..j : ls[q][1] = token}

\* The lines of a member's kind behind a header are the item's members, no more and no fewer.
LEMMA RunIs ==
  ASSUME NEW items, AllMade(items), NEW ls, NEW at, Laid(at, items, ls),
         NEW k \in 1..Len(items), NEW token \in DOMAIN OwnerOf, OwnerOf[token] = items[k].kind
  PROVE  LET n == Len(items[k].members)
         IN /\ n \in Nat /\ at[k] \in Nat
            /\ Run(ls, at[k], token) = (at[k] + 1)..(at[k] + n)
            /\ Cardinality(Run(ls, at[k], token)) = n
            /\ \A j \in 1..n : MadeOf(items[k], items[k].members[j], ls[at[k] + j])
<1> DEFINE N == Len(items)
           m == Len(ls)
           it == items[k]
           n == Len(it.members)
           il == ItemLines(it)
           p == at[k]
           u == at[k + 1]
<1>1. N \in Nat /\ m \in Nat /\ it \in Items /\ Made(it)
  BY DEF AllMade, Laid
<1>2. /\ n \in Nat /\ Len(il) \in Nat /\ Len(il) >= n + 1
      /\ \A j \in 1..n : MadeOf(it, it.members[j], il[j + 1])
      /\ \A j \in (n + 2)..Len(il) : il[j][1] \notin DOMAIN OwnerOf
  BY <1>1, MadeLines
<1>3. /\ p \in Nat /\ p >= 1 /\ u = p + Len(il) /\ u <= m + 1
      /\ \A j \in 1..Len(il) : ls[p + j - 1] = il[j]
  BY DEF Laid
<1>4. u <= m => ls[u][1] \in Headers
  <2> SUFFICES ASSUME u <= m PROVE ls[u][1] \in Headers
    OBVIOUS
  <2>1. k # N
    <3>1. at[N + 1] = m + 1
      BY DEF Laid
    <3> QED BY <1>1, <3>1
  <2>2. k + 1 \in 1..N
    BY <1>1, <2>1
  <2>3. ls[u] = <<items[k + 1].kind, items[k + 1].name>> /\ items[k + 1] \in Items
    BY <2>2, Headed DEF AllMade
  <2> QED BY <2>3 DEF Items
<1> HIDE DEF N, m, il, n, p, u, it
<1>5. \A j \in 1..n : ls[p + j] = il[j + 1]
  <2> SUFFICES ASSUME NEW j \in 1..n PROVE ls[p + j] = il[j + 1]
    OBVIOUS
  <2>1. j + 1 \in 1..Len(il) /\ p + (j + 1) - 1 = p + j
    BY <1>2, <1>3
  <2> QED BY <1>3, <2>1
<1>6. \A j \in 1..n : MadeOf(it, it.members[j], ls[p + j])
  BY <1>2, <1>5
<1>7. \A j \in 1..n : ls[p + j][1] = token
  <2> SUFFICES ASSUME NEW j \in 1..n PROVE ls[p + j][1] = token
    OBVIOUS
  <2>1. OwnerOf[ls[p + j][1]] = OwnerOf[token] /\ ls[p + j][1] \in DOMAIN OwnerOf
    BY <1>6 DEF MadeOf, MemberRead, it
  <2> QED BY <2>1 DEF OwnerOf
<1>8. p + n + 1 <= m => ls[p + n + 1][1] # token
  <2> SUFFICES ASSUME p + n + 1 <= m PROVE ls[p + n + 1][1] # token
    OBVIOUS
  <2>1. CASE Len(il) = n + 1
    <3>1. p + n + 1 = u
      BY <1>2, <1>3, <2>1
    <3> QED BY <1>4, <3>1 DEF Headers, OwnerOf
  <2>2. CASE Len(il) # n + 1
    <3>1. n + 2 \in (n + 2)..Len(il) /\ n + 2 \in 1..Len(il) /\ p + (n + 2) - 1 = p + n + 1
      BY <1>2, <1>3, <2>2
    <3>2. ls[p + n + 1] = il[n + 2]
      BY <1>3, <3>1
    <3>3. ls[p + n + 1][1] \notin DOMAIN OwnerOf
      BY <1>2, <3>1, <3>2
    <3> QED BY <3>3
  <2> QED BY <2>1, <2>2
<1>9. Run(ls, p, token) = (p + 1)..(p + n)
  <2> DEFINE R == Run(ls, p, token)
  <2>1. ASSUME NEW j \in R PROVE j \in (p + 1)..(p + n)
    <3>1. j \in 1..m /\ j > p /\ \A q \in (p + 1)..j : ls[q][1] = token
      BY <2>1 DEF Run, m
    <3>2. ASSUME j > p + n PROVE FALSE
      <4>1. p + n + 1 \in (p + 1)..j /\ p + n + 1 <= m
        BY <1>1, <1>2, <1>3, <3>1, <3>2
      <4> QED BY <1>8, <3>1, <4>1
    <3> QED BY <1>1, <1>2, <1>3, <3>1, <3>2
  <2>2. ASSUME NEW j \in (p + 1)..(p + n) PROVE j \in R
    <3>1. j \in 1..m /\ j > p
      BY <1>1, <1>2, <1>3
    <3>2. ASSUME NEW q \in (p + 1)..j PROVE ls[q][1] = token
      <4>1. q - p \in 1..n /\ p + (q - p) = q
        BY <1>2, <1>3
      <4> QED BY <1>7, <4>1
    <3> QED BY <3>1, <3>2 DEF Run, m
  <2> HIDE DEF R
  <2>3. R = (p + 1)..(p + n)
    <3>1. R \subseteq Int
      BY <1>2, <1>3, <2>1
    <3> QED BY <2>1, <2>2
  <2> QED BY <2>3 DEF R
<1>10. Cardinality((p + 1)..(p + n)) = n
  <2>1. p + 1 \in Int /\ p + n \in Int
    BY <1>2, <1>3
  <2>2. Cardinality((p + 1)..(p + n)) = IF p + 1 > p + n THEN 0 ELSE (p + n) - (p + 1) + 1
    BY <2>1, FS_Interval
  <2> QED BY <1>2, <1>3, <2>2
<1> QED BY <1>2, <1>3, <1>6, <1>9, <1>10 DEF n, p, it

\* Where a name is declared, off the lines.
HeaderAt(ls, name) == SelectInSeq(ls, LAMBDA l : l[1] \in Headers /\ l[2] = name)

\* The first item of a name and its header.
LEMMA FoundHeader ==
  ASSUME AllMade(done), NEW ls, NEW at, Laid(at, done, ls), NEW name, Find(name) # 0,
         NEW header, header = HeaderAt(ls, name)
  PROVE  Find(name) \in 1..Len(done) /\ header = at[Find(name)]
<1> DEFINE N == Len(done)
           m == Len(ls)
           f == Find(name)
           I == {i \in 1..N : done[i].name = name}
           J == {i \in 1..m : ls[i][1] \in Headers /\ ls[i][2] = name}
<1>1. /\ N \in Nat /\ m \in Nat /\ \A k \in 1..N : done[k] \in Items
      /\ at \in [1..(N + 1) -> Nat] /\ \A k, q \in 1..(N + 1) : k < q => at[k] < at[q]
  BY DEF AllMade, Laid
<1>2. /\ \A k \in 1..N : at[k] \in 1..m /\ ls[at[k]] = <<done[k].kind, done[k].name>>
      /\ \A i \in 1..m : ls[i][1] \in Headers => \E k \in 1..N : i = at[k]
  BY Headed
<1>3. f = IF I # {} THEN Min(I) ELSE 0
  BY DEF Find, SelectInSeq
<1>4. header = IF J # {} THEN Min(J) ELSE 0
  BY DEF HeaderAt, SelectInSeq
<1>5. I # {} /\ I \in SUBSET Nat /\ J \in SUBSET Nat
  BY <1>3
<1>6. f \in I /\ \A y \in I : f <= y
  BY <1>3, <1>5, LeastIs
<1>7. f \in 1..N /\ done[f].name = name
  BY <1>6
<1>8. \A k \in 1..N : k \in I <=> at[k] \in J
  <2> SUFFICES ASSUME NEW k \in 1..N PROVE k \in I <=> at[k] \in J
    OBVIOUS
  <2>1. done[k].kind \in Headers
    BY <1>1 DEF Items
  <2> QED BY <1>2, <2>1
<1>9. at[f] \in J
  BY <1>6, <1>7, <1>8
<1>10. header \in J /\ \A y \in J : header <= y
  BY ZenonT(60), <1>4, <1>5, <1>9, LeastIs
<1>11. PICK k \in 1..N : header = at[k]
  BY <1>2, <1>10
<1>12. k \in I
  BY <1>8, <1>10, <1>11
<1> HIDE DEF f, I, J, N, m
<1>13. k = f
  <2>1. f <= k /\ at[k] <= at[f]
    <3>1. f <= k
      BY <1>6, <1>12
    <3>2. at[k] <= at[f]
      BY <1>9, <1>10, <1>11
    <3> QED BY <3>1, <3>2
  <2>3. k \in 1..(N + 1) /\ f \in 1..(N + 1) /\ at[k] \in Nat /\ at[f] \in Nat
    BY <1>1, <1>7, <1>11
  <2>2. f < k => at[f] < at[k]
    BY <1>1, <2>3
  <2> QED BY <2>1, <2>2, <2>3
<1> QED BY <1>7, <1>11, <1>13 DEF N, f

\* The slots of a type, off the lines and off the items.
LEMMA SlotsAgree ==
  ASSUME AllMade(done), NEW at, Laid(at, done, TextLines(lines)),
         NEW l \in Lines, MemberRead(l), Len(l) = 3, NEW ty, ty = ReadTy(l[3]).ty,
         ty[1] = "ty" => Find(ty[2]) # 0
  PROVE  SlotsIn(TextLines(lines), l[3]) = FlatArity(ty)
<1> DEFINE text == l[3]
           ls == TextLines(lines)
<1>1. text \in Texts /\ ReadTy(text).ok
  BY DEF MemberRead, Texts
<1>2. IF text[1] = "ty" THEN ty = <<"ty", SubSeq(text, 3, Len(text) - 1)>> ELSE ty[1] # "ty"
  BY <1>1, GateAssumption
<1>3. CASE text[1] # "ty"
  BY <1>2, <1>3 DEF SlotsIn, FlatArity
<1>4. CASE text[1] = "ty"
  <2> DEFINE name == SubSeq(text, 3, Len(text) - 1)
             header == HeaderAt(ls, name)
             f == Find(name)
             fields == {i \in DOMAIN ls : i > header /\ \A j \in (header + 1)..i : ls[j][1] = "field"}
  <2>1. ty[1] = "ty" /\ ty[2] = name /\ f # 0
    <3>1. ty = <<"ty", name>>
      BY <1>2, <1>4
    <3> HIDE DEF name
    <3>2. ty[1] = "ty" /\ ty[2] = name
      BY <3>1
    <3> QED BY <3>2
  <2>2. f \in 1..Len(done) /\ header = at[f]
    <3> HIDE DEF name, ls
    <3> QED BY <2>1, FoundHeader DEF ls
  <2>3. SlotsIn(ls, text) = CASE ls[header][1] = "record" -> Cardinality(fields)
                          [] ls[header][1] = "variant" -> 2
                          [] OTHER -> 1
    BY <1>4 DEF SlotsIn, HeaderAt
  <2>4. FlatArity(ty) = CASE done[f].kind = "record" -> Len(done[f].members)
                          [] done[f].kind = "variant" -> 2
                          [] OTHER -> 1
    BY <2>1 DEF FlatArity
  <2> HIDE DEF f, header, ls, name, text
  <2>5. Laid(at, done, ls)
    BY DEF ls
  <2>6. ls[header][1] = done[f].kind
    <3>1. ls[at[f]] = <<done[f].kind, done[f].name>>
      BY <2>2, <2>5, Headed
    <3> QED BY <2>2, <3>1
  <2>7. done[f].kind = "record" => Cardinality(fields) = Len(done[f].members)
    <3> SUFFICES ASSUME done[f].kind = "record" PROVE Cardinality(fields) = Len(done[f].members)
      OBVIOUS
    <3>1. fields = Run(ls, header, "field")
      <4>1. DOMAIN ls = 1..Len(ls)
        BY <2>5 DEF Laid
      <4> QED BY <4>1 DEF Run
    <3>2. "field" \in DOMAIN OwnerOf /\ OwnerOf["field"] = done[f].kind
      BY DEF OwnerOf
    <3>3. Cardinality(Run(ls, at[f], "field")) = Len(done[f].members)
      BY <2>2, <2>5, <3>2, RunIs
    <3> QED BY <2>2, <3>1, <3>3
  <2> HIDE DEF fields
  <2>8. SlotsIn(ls, text) = FlatArity(ty)
    BY <2>3, <2>4, <2>6, <2>7
  <2> QED BY <2>8 DEF text, ls
<1> QED BY <1>3, <1>4

\* Sequences of at most one, and what they run together to.
Single(T) == {x \in Seq(T) : Len(x) <= 1}

\* Pieces of at most one element run together to as many as there are, and to each of them.
LEMMA Picked ==
  ASSUME NEW T, NEW ss \in Seq(Single(T))
  PROVE  LET whole == FlattenSeq(ss)
             I == {i \in 1..Len(ss) : ss[i] # <<>>}
         IN /\ whole \in Seq(T) /\ IsFiniteSet(I) /\ Len(whole) = Cardinality(I)
            /\ \A i \in I : \E q \in 1..Len(whole) : whole[q] = ss[i][1]
<1> DEFINE P == Single(T)
           At(xs) == {i \in 1..Len(xs) : xs[i] # <<>>}
           Fits(xs) == /\ FlattenSeq(xs) \in Seq(T) /\ IsFiniteSet(At(xs))
                       /\ Len(FlattenSeq(xs)) = Cardinality(At(xs))
                       /\ \A i \in At(xs) : \E q \in 1..Len(FlattenSeq(xs)) : FlattenSeq(xs)[q] = xs[i][1]
           G == {xs \in Seq(P) : Fits(xs)}
<1> USE DEF Single
<1>1. <<>> \in G
  <2>1. At(<<>>) = {}
    OBVIOUS
  <2>2. FlattenSeq(<<>>) = <<>> /\ Len(<<>>) = 0 /\ <<>> \in Seq(T) /\ <<>> \in Seq(P)
    BY FlattenEmpty
  <2>3. IsFiniteSet({}) /\ Cardinality({}) = 0
    BY FS_EmptySet
  <2> HIDE DEF At
  <2> QED BY <2>1, <2>2, <2>3
<1>2. ASSUME NEW xs \in Seq(P), NEW x \in P, xs \in G PROVE Append(xs, x) \in G
  <2> DEFINE more == Append(xs, x)
             N == Len(xs)
             w == FlattenSeq(xs)
             v == FlattenSeq(more)
             A == At(xs)
             B == At(more)
  <2>1. /\ N \in Nat /\ Len(more) = N + 1 /\ more[N + 1] = x /\ more \in Seq(P)
        /\ \A i \in 1..N : more[i] = xs[i]
    OBVIOUS
  <2>2. w \in Seq(T) /\ IsFiniteSet(A) /\ Len(w) = Cardinality(A)
        /\ \A i \in A : \E q \in 1..Len(w) : w[q] = xs[i][1]
    BY <1>2
  <2>3. v = w \o x
    <3>1. xs \in Seq(Seq(T)) /\ x \in Seq(T)
      OBVIOUS
    <3> QED BY <3>1, FlattenAppend
  <2>4. x \in Seq(T) /\ Len(x) <= 1 /\ (x # <<>> => Len(x) = 1)
    <3>1. x \in Seq(T) /\ Len(x) <= 1
      OBVIOUS
    <3>2. Len(x) \in Nat /\ (Len(x) = 0 => x = <<>>)
      BY <3>1
    <3> DEFINE z == Len(x)
    <3> HIDE DEF z
    <3>3. z \in Nat /\ z <= 1 /\ (z = 0 => x = <<>>)
      BY <3>1, <3>2 DEF z
    <3>4. z = 0 \/ z = 1
      BY <3>3
    <3>5. x # <<>> => z = 1
      BY <3>3, <3>4
    <3> QED BY <3>1, <3>5 DEF z
  <2>5. A = {i \in 1..N : xs[i] # <<>>} /\ B = {i \in 1..(N + 1) : more[i] # <<>>}
    BY <2>1
  <2>6. N + 1 \notin A
    BY <2>1, <2>5
  <2> HIDE DEF more, w, v, A, B, N
  <2>7. B = IF x = <<>> THEN A ELSE A \cup {N + 1}
    BY <2>1, <2>5
  <2>8. /\ v \in Seq(T) /\ Len(v) = Len(w) + Len(x) /\ Len(w) \in Nat /\ Len(x) \in Nat
        /\ \A q \in 1..Len(w) : v[q] = w[q]
        /\ \A q \in 1..Len(x) : v[Len(w) + q] = x[q]
    <3>1. w \in Seq(T) /\ x \in Seq(T)
      BY <2>2, <2>4
    <3>2. /\ w \o x \in Seq(T) /\ Len(w) \in Nat /\ Len(x) \in Nat
          /\ Len(w \o x) = Len(w) + Len(x)
          /\ \A q \in 1..Len(w) : (w \o x)[q] = w[q]
          /\ \A q \in 1..Len(x) : (w \o x)[Len(w) + q] = x[q]
      BY <3>1, Joined
    <3> QED BY <2>3, <3>2
  <2>9. IsFiniteSet(B) /\ Len(v) = Cardinality(B)
    <3>1. CASE x = <<>>
      BY <2>2, <2>7, <2>8, <3>1
    <3>2. CASE x # <<>>
      <4>1. Len(x) = 1
        BY <2>4, <3>2
      <4>2. IsFiniteSet(A \cup {N + 1}) /\ Cardinality(A \cup {N + 1}) = Cardinality(A) + 1
        BY <2>2, <2>6, FS_AddElement
      <4> QED BY <2>2, <2>7, <2>8, <3>2, <4>1, <4>2
    <3> QED BY <3>1, <3>2
  <2>10. ASSUME NEW i \in B PROVE \E q \in 1..Len(v) : v[q] = more[i][1]
    <3>1. CASE i \in A
      <4>1. more[i] = xs[i]
        BY <2>1, <2>5, <3>1
      <4>2. PICK q \in 1..Len(w) : w[q] = xs[i][1]
        BY <2>2, <3>1
      <4>3. q \in 1..Len(v)
        BY <2>8
      <4> QED BY <2>8, <4>1, <4>2, <4>3
    <3>2. CASE i \notin A
      <4>1. x # <<>> /\ i = N + 1
        BY <2>7, <3>2
      <4>2. Len(x) = 1 /\ 1 \in 1..Len(x) /\ Len(w) + 1 \in 1..Len(v)
        BY <2>4, <2>8, <4>1
      <4>3. v[Len(w) + 1] = x[1]
        BY <2>8, <4>2
      <4> QED BY <2>1, <4>1, <4>2, <4>3
    <3> QED BY <3>1, <3>2
  <2> QED BY <2>1, <2>8, <2>9, <2>10 DEF more, v, B
<1> HIDE DEF Fits
<1>3. Seq(P) \subseteq G
  <2> HIDE DEF G
  <2> QED BY <1>1, <1>2, Lengthen
<1>4. Fits(ss)
  BY <1>3
<1> QED BY <1>4 DEF Fits

\* Two finite sets of which each is the other's image have as many elements.
LEMMA SameSize ==
  ASSUME NEW S, NEW T, IsFiniteSet(S), NEW f \in [S -> T], NEW g \in [T -> S],
         \A x \in S : g[f[x]] = x, \A y \in T : f[g[y]] = y
  PROVE  Cardinality(S) = Cardinality(T)
<1>1. f \in Surjection(S, T) /\ g \in Surjection(T, S)
  BY DEF Surjection
<1>2. IsFiniteSet(T) /\ Cardinality(T) <= Cardinality(S)
  BY <1>1, FS_Surjection
<1>3. Cardinality(S) <= Cardinality(T)
  BY <1>1, <1>2, FS_Surjection
<1>4. Cardinality(S) \in Nat /\ Cardinality(T) \in Nat
  BY <1>2, FS_CardinalityType
<1> QED BY <1>2, <1>3, <1>4

\* The slots of a function's parameters, off the lines and off the items.
LEMMA ArityAgrees ==
  ASSUME AllMade(done), Resolved, NEW at, Laid(at, done, TextLines(lines)), NEW k \in Funcs
  PROVE  SlotsAt(TextLines(lines), at[k]) = Arity(done[k].members)
<1> DEFINE ls == TextLines(lines)
           it == done[k]
           n == Len(it.members)
           p == at[k]
           params == {j \in DOMAIN ls : j > p /\ \A q \in (p + 1)..j : ls[q][1] = "param"}
<1>1. k \in DOMAIN done /\ it.kind = "func" /\ it \in Items /\ k \in 1..Len(done)
  BY DEF Funcs, AllMade
<1>2. params = Run(ls, p, "param")
  <2>1. DOMAIN ls = 1..Len(ls)
    BY DEF Laid
  <2> QED BY <2>1 DEF Run
<1>3. /\ n \in Nat /\ Cardinality(Run(ls, p, "param")) = n
      /\ \A j \in 1..n : MadeOf(it, it.members[j], ls[p + j])
  <2>1. "param" \in DOMAIN OwnerOf /\ OwnerOf["param"] = it.kind
    BY <1>1 DEF OwnerOf
  <2> HIDE DEF ls
  <2>2. Laid(at, done, ls)
    BY DEF ls
  <2> QED BY <1>1, <2>1, <2>2, RunIs
<1>4. ASSUME NEW j \in 1..n
      PROVE  SlotsIn(ls, ls[p + j][3]) = FlatArity(it.members[j][3][1])
  <2> DEFINE l == ls[p + j]
             ty == ReadTy(l[3]).ty
  <2>1. l \in Lines /\ MemberRead(l) /\ OwnerOf[l[1]] = "func" /\ it.members[j] = MemberOf(l)
    BY <1>1, <1>3 DEF MadeOf
  <2> HIDE DEF l
  <2>2. Len(l) = 3
    BY <2>1 DEF MemberRead, OwnerOf
  <2>3. it.members[j][3][1] = ty
    BY <2>1, <2>2 DEF MemberOf
  <2>4. j \in DOMAIN it.members
    BY <1>1 DEF Items
  <2>5. ty[1] = "ty" => Find(ty[2]) # 0
    BY <1>1, <2>3, <2>4 DEF Resolved
  <2>6. SlotsIn(ls, l[3]) = FlatArity(ty)
    BY <2>1, <2>2, <2>5, SlotsAgree
  <2> QED BY <2>3, <2>6 DEF l
<1>5. SlotsAt(ls, p) = Total([j \in 1..n |-> SlotsIn(ls, ls[p + j][3])])
  <2>1. SlotsAt(ls, p) = Total([j \in 1..Cardinality(params) |-> SlotsIn(ls, ls[p + j][3])])
    BY DEF SlotsAt
  <2>2. Cardinality(params) = n
    BY <1>2, <1>3
  <2> HIDE DEF params, n, ls, p
  <2> QED BY <2>1, <2>2
<1>6. DOMAIN it.members = 1..n
  BY <1>1 DEF Items
<1> HIDE DEF ls, p, n
<1>7. [j \in 1..n |-> SlotsIn(ls, ls[p + j][3])]
        = [j \in DOMAIN it.members |-> FlatArity(it.members[j][3][1])]
  BY <1>4, <1>6
<1>8. SlotsAt(ls, p) = Arity(it.members)
  BY <1>5, <1>7 DEF Arity
<1> QED BY <1>8 DEF ls, p

\* What the check covers, of the items.
LEMMA CoveredIs ==
  ASSUME AllMade(done)
  PROVE  /\ Named \subseteq 1..Len(done) /\ IsFiniteSet(Named) /\ Len(Covered) = Cardinality(Named)
         /\ \A k \in Named : Contains(Covered, SurfaceEntry(k))
<1> DEFINE N == Len(done)
           T == {SurfaceEntry(k) : k \in 1..N}
           P == Single(T)
           ss == [k \in DOMAIN done |-> IF k \in Named THEN <<SurfaceEntry(k)>> ELSE <<>>]
           I == {i \in 1..Len(ss) : ss[i] # <<>>}
<1>1. DOMAIN done = 1..N /\ N \in Nat
  BY DEF AllMade
<1>2. Named \subseteq 1..N
  BY <1>1 DEF Named, Funcs
<1>3. \A k \in 1..N : <<SurfaceEntry(k)>> \in P /\ <<>> \in P
  <2> SUFFICES ASSUME NEW k \in 1..N PROVE <<SurfaceEntry(k)>> \in P /\ <<>> \in P
    OBVIOUS
  <2>1. SurfaceEntry(k) \in T
    OBVIOUS
  <2> HIDE DEF T
  <2> QED BY <2>1 DEF Single
<1> HIDE DEF T, P
<1>4. ss \in Seq(P) /\ Len(ss) = N
  BY <1>1, <1>3
<1>5. I = Named
  <2> DEFINE e(k) == SurfaceEntry(k)
  <2>1. \A k \in 1..N : ss[k] = IF k \in Named THEN <<e(k)>> ELSE <<>>
    BY <1>1
  <2> HIDE DEF e, ss
  <2>2. \A k : <<e(k)>> # <<>>
    OBVIOUS
  <2> QED BY <1>2, <1>4, <2>1, <2>2
<1>6. Covered = FlattenSeq(ss)
  BY DEF Covered
<1>7. \A k \in Named : ss[k][1] = SurfaceEntry(k)
  BY <1>1, <1>2
<1> HIDE DEF ss
<1>9. /\ IsFiniteSet(I) /\ Len(FlattenSeq(ss)) = Cardinality(I)
      /\ \A i \in I : \E q \in 1..Len(FlattenSeq(ss)) : FlattenSeq(ss)[q] = ss[i][1]
  <2>1. LET w == FlattenSeq(ss)
            J == {i \in 1..Len(ss) : ss[i] # <<>>}
        IN /\ IsFiniteSet(J) /\ Len(w) = Cardinality(J)
           /\ \A i \in J : \E q \in 1..Len(w) : w[q] = ss[i][1]
    BY <1>4, Picked DEF P
  <2> QED BY <2>1
<1> HIDE DEF I, N
<1>10. \A k \in Named : Contains(Covered, SurfaceEntry(k))
  BY <1>5, <1>6, <1>7, <1>9 DEF Contains
<1> QED BY <1>2, <1>5, <1>6, <1>9, <1>10 DEF N

\* What the check asks of the items holds of the lines.
LEMMA CheckedIsCallable ==
  ASSUME AllMade(done), Spelt(done), LinesOf(done) = TextLines(lines), Resolved, Named # {},
         \A k \in Named : Contract[InContract(SurfaceEntry(k)[1])][2] = SurfaceEntry(k)[2]
  PROVE  Callable(TextLines(lines), Covered)
<1> DEFINE ls == TextLines(lines)
           N == Len(done)
<1>1. PICK at : Laid(at, done, ls)
  BY LaidOut
<1>2. /\ \A k \in 1..N : at[k] \in 1..Len(ls) /\ ls[at[k]] = <<done[k].kind, done[k].name>>
      /\ \A i \in 1..Len(ls) : ls[i][1] \in Headers => \E k \in 1..N : i = at[k]
  <2> HIDE DEF ls
  <2> QED BY <1>1, Headed
<1>3. /\ DOMAIN ls = 1..Len(ls) /\ N \in Nat /\ at \in [1..(N + 1) -> Nat]
      /\ \A k, q \in 1..(N + 1) : k < q => at[k] < at[q]
  BY <1>1 DEF Laid, AllMade
<1>4. /\ Named \subseteq 1..N /\ IsFiniteSet(Named) /\ Len(Covered) = Cardinality(Named)
      /\ \A k \in Named : Contains(Covered, SurfaceEntry(k))
  BY CoveredIs
<1>5. ASSUME NEW k \in Named
      PROVE  /\ at[k] \in NamedIn(ls) /\ ls[at[k]][2] = done[k].name
             /\ SlotsAt(ls, at[k]) = Arity(done[k].members)
  <2>1. k \in Funcs /\ InContract(Kebab(done[k].name)) # 0 /\ done[k].kind = "func" /\ k \in 1..N
    BY <1>4 DEF Named, Funcs
  <2>2. SlotsAt(ls, at[k]) = Arity(done[k].members)
    BY <1>1, <2>1, ArityAgrees
  <2>3. ls[at[k]][1] = "func" /\ ls[at[k]][2] = done[k].name /\ at[k] \in DOMAIN ls
    BY <1>2, <1>3, <2>1
  <2> QED BY <2>1, <2>2, <2>3 DEF NamedIn
<1>6. ASSUME NEW i \in NamedIn(ls) PROVE \E k \in Named : i = at[k]
  <2>1. i \in 1..Len(ls) /\ ls[i][1] = "func" /\ InContract(Kebab(ls[i][2])) # 0
    BY <1>3 DEF NamedIn
  <2>2. PICK k \in 1..N : i = at[k]
    BY <1>2, <2>1 DEF Headers
  <2>3. done[k].kind = "func" /\ done[k].name = ls[i][2]
    BY <1>2, <2>1, <2>2
  <2>4. k \in DOMAIN done
    BY DEF AllMade
  <2>5. k \in Named
    BY <2>1, <2>3, <2>4 DEF Named, Funcs
  <2> QED BY <2>2, <2>5
<1> HIDE DEF ls, N
<1>7. Cardinality(NamedIn(ls)) = Cardinality(Named)
  <2> DEFINE S == Named
             T == NamedIn(ls)
  <2> DEFINE f == [k \in Named |-> at[k]]
             g == [i \in NamedIn(ls) |-> CHOOSE k \in Named : i = at[k]]
  <2>1. f \in [Named -> NamedIn(ls)] /\ \A k \in Named : f[k] = at[k]
    BY <1>5
  <2>2. \A i \in NamedIn(ls) : g[i] \in Named /\ i = at[g[i]]
    BY <1>6
  <2>3. g \in [NamedIn(ls) -> Named]
    BY <2>2
  <2> HIDE DEF f, g
  <2>4. \A k, q \in Named : at[k] = at[q] => k = q
    <3> SUFFICES ASSUME NEW k \in Named, NEW q \in Named, at[k] = at[q] PROVE k = q
      OBVIOUS
    <3>1. k \in 1..(N + 1) /\ q \in 1..(N + 1) /\ at[k] \in Nat
      BY <1>3, <1>4
    <3>2. ~(k < q) /\ ~(q < k)
      BY <1>3, <3>1
    <3> QED BY <3>1, <3>2
  <2>5. \A k \in Named : g[f[k]] = k
    BY <2>1, <2>2, <2>4
  <2>6. \A i \in NamedIn(ls) : f[g[i]] = i
    BY <2>1, <2>2
  <2>7. /\ IsFiniteSet(S) /\ f \in [S -> T] /\ g \in [T -> S]
        /\ \A x \in S : g[f[x]] = x /\ \A y \in T : f[g[y]] = y
    BY <1>4, <2>1, <2>3, <2>5, <2>6
  <2> HIDE DEF S, T
  <2>8. Cardinality(S) = Cardinality(T)
    BY <2>7, SameSize
  <2> QED BY <2>8 DEF S, T
<1>8. NamedIn(ls) # {}
  BY <1>5
<1>9. ASSUME NEW i \in NamedIn(ls)
      PROVE  /\ Contract[InContract(Kebab(ls[i][2]))][2] = SlotsAt(ls, i)
             /\ Contains(Covered, <<Kebab(ls[i][2]), SlotsAt(ls, i)>>)
  <2>1. PICK k \in Named : i = at[k]
    BY <1>6
  <2>2. SurfaceEntry(k) = <<Kebab(ls[i][2]), SlotsAt(ls, i)>>
    BY <1>5, <2>1 DEF SurfaceEntry
  <2>3. SurfaceEntry(k)[1] = Kebab(ls[i][2]) /\ SurfaceEntry(k)[2] = SlotsAt(ls, i)
    BY <2>2
  <2>4. Contract[InContract(SurfaceEntry(k)[1])][2] = SurfaceEntry(k)[2] /\ Contains(Covered, SurfaceEntry(k))
    BY <1>4
  <2> QED BY <2>2, <2>3, <2>4
<1> QED BY <1>4, <1>7, <1>8, <1>9 DEF Callable, ls

\* Inductive: the items are made of lines the parser took, and none is open when the file ends.
ContractInv ==
  /\ GateInv /\ ValidMeansCallable
  /\ \A i \in DOMAIN done : Made(done[i])
  /\ \A i \in DOMAIN cur : Made(cur[i])
  /\ status = "parsed" => cur = <<>>

\* The items and the open one are made when both are.
LEMMA ItemsMade ==
  ASSUME GateTypes, \A i \in DOMAIN done : Made(done[i]), \A i \in DOMAIN cur : Made(cur[i])
  PROVE  /\ done \o cur \in Seq(Items) /\ \A i \in DOMAIN (done \o cur) : Made((done \o cur)[i])
         /\ (cur = <<>> => done \o cur = done)
<1> DEFINE v == done \o cur
           M == Len(done)
           K == Len(cur)
<1>1. done \in Seq(Items) /\ cur \in Seq(Items)
  BY DEF GateTypes
<1>2. /\ v \in Seq(Items) /\ DOMAIN v = 1..(M + K) /\ M \in Nat /\ K \in Nat
      /\ \A i \in 1..M : v[i] = done[i]
      /\ \A i \in (M + 1)..(M + K) : i - M \in 1..K /\ v[i] = cur[i - M]
      /\ DOMAIN done = 1..M /\ DOMAIN cur = 1..K
  BY <1>1
<1>3. cur = <<>> => v = done
  BY <1>1
<1> HIDE DEF v, M, K
<1>4. ASSUME NEW i \in DOMAIN v PROVE Made(v[i])
  <2>1. CASE i \in 1..M
    BY <1>2, <2>1
  <2>2. CASE i \in (M + 1)..(M + K)
    BY <1>2, <2>2
  <2> QED BY <1>2, <2>1, <2>2
<1> QED BY <1>2, <1>3, <1>4 DEF v

\* A step of the reading that leaves the items made.
LEMMA StillReading ==
  ASSUME ContractInv, status' \notin {"valid", "parsed"}, GateInv',
         \A i \in DOMAIN done' : Made(done'[i]), \A i \in DOMAIN cur' : Made(cur'[i])
  PROVE  ContractInv'
<1>1. ValidMeansCallable'
  BY DEF ValidMeansCallable
<1> QED BY <1>1 DEF ContractInv

\* An item opens without members.
LEMMA RestartMade ==
  ASSUME ContractInv, NEW l \in Lines, Restart(l) PROVE ContractInv'
<1>1. /\ GateInv /\ GateTypes /\ \A i \in DOMAIN done : Made(done[i])
      /\ \A i \in DOMAIN cur : Made(cur[i])
  BY DEF ContractInv, GateInv
<1>2. /\ status = "reading" /\ status' = status /\ done' = done \o cur
      /\ cur' = <<Item(l[1], l[2])>>
  BY DEF Restart, Reading
<1>3. GateInv'
  BY <1>1, RestartKeeps
<1>4. \A i \in DOMAIN done' : Made(done'[i])
  BY <1>1, <1>2, ItemsMade
<1>5. \A i \in DOMAIN cur' : Made(cur'[i])
  <2> DEFINE it == Item(l[1], l[2])
  <2>1. it.members = <<>>
    BY DEF Item
  <2> HIDE DEF it
  <2>2. Made(it)
    BY <2>1 DEF Made
  <2>3. cur' = <<it>>
    BY <1>2 DEF it
  <2>4. DOMAIN cur' = {1} /\ cur'[1] = it
    BY <2>3
  <2> QED BY <2>2, <2>4
<1> QED BY <1>2, <1>3, <1>4, <1>5, StillReading

\* The open item, changed.
LEMMA ChangedMade ==
  ASSUME ContractInv, status = "reading", status' = "reading", GateInv', done' = done,
         cur # <<>>, NEW new, cur' = <<new>>, Made(cur[1]) => Made(new)
  PROVE  ContractInv'
<1>1. /\ \A i \in DOMAIN done : Made(done[i])
      /\ \A i \in DOMAIN cur : Made(cur[i])
      /\ GateInv
  BY DEF ContractInv
<1>2. cur = <<cur[1]>>
  BY <1>1, OpenItem
<1>3. 1 \in DOMAIN cur
  BY <1>2
<1>4. Made(new)
  <2>1. Made(cur[1])
    BY <1>1, <1>3
  <2> QED BY <2>1
<1>5. DOMAIN cur' = {1} /\ cur'[1] = new
  OBVIOUS
<1>6. \A i \in DOMAIN cur' : Made(cur'[i])
  BY <1>4, <1>5
<1> QED BY <1>1, <1>6, StillReading

\* A member is added of the line it was read from.
LEMMA AddMemberMade ==
  ASSUME ContractInv, NEW l \in Lines, AddMember(l) PROVE ContractInv'
<1> DEFINE it == cur[1]
           new == [it EXCEPT !.members = Append(@, MemberOf(l))]
<1>1. /\ status = "reading" /\ status' = "reading" /\ Member(l) /\ done' = done
      /\ cur' = [cur EXCEPT ![1].members = Append(@, MemberOf(l))]
  BY DEF AddMember, Reading
<1>2. cur # <<>> /\ it.kind = OwnerOf[l[1]] /\ MemberRead(l)
  BY <1>1 DEF Member, Open, MemberRead
<1>3. GateInv' /\ GateInv
  BY AddMemberKeeps DEF ContractInv
<1>4. it \in Items /\ cur = <<it>>
  BY <1>1, <1>2, <1>3, OpenItem
<1>5. cur' = <<new>>
  <2>1. DOMAIN cur = {1} /\ cur = [i \in {1} |-> cur[1]]
    BY <1>4
  <2>2. cur' = [i \in {1} |-> new]
    BY <1>1, <2>1
  <2> HIDE DEF new
  <2> QED BY <2>2
<1>6. Made(it) => Made(new)
  <2> DEFINE ms == it.members
             n == Len(ms)
             M == {MemberOf(k) : k \in Lines}
  <2>1. ms \in Seq(M) /\ new.members = Append(ms, MemberOf(l)) /\ new.kind = it.kind
    BY <1>4 DEF Items
  <2>2. MemberOf(l) \in M
    OBVIOUS
  <2> DEFINE x == MemberOf(l)
  <2> HIDE DEF it, new, ms, M, x
  <2>3. /\ n \in Nat /\ DOMAIN ms = 1..n /\ DOMAIN Append(ms, x) = 1..(n + 1)
        /\ \A j \in 1..n : Append(ms, x)[j] = ms[j]
        /\ Append(ms, x)[n + 1] = x
    BY <2>1, <2>2 DEF x
  <2>4. MadeOf(new, x, l)
    BY <1>2, <2>1 DEF MadeOf, x
  <2> SUFFICES ASSUME Made(it) PROVE Made(new)
    OBVIOUS
  <2>5. ASSUME NEW j \in 1..n PROVE \E k \in Lines : MadeOf(new, ms[j], k)
    <3>1. PICK k \in Lines : MadeOf(it, ms[j], k)
      BY <2>3 DEF Made, ms
    <3>2. MadeOf(new, ms[j], k)
      BY <2>1, <3>1 DEF MadeOf
    <3> QED BY <3>2
  <2>6. ASSUME NEW j \in 1..(n + 1)
        PROVE  \E k \in Lines : MadeOf(new, Append(ms, x)[j], k)
    <3>1. CASE j \in 1..n
      BY <2>3, <2>5, <3>1
    <3>2. CASE j = n + 1
      BY <2>3, <2>4, <3>2
    <3>3. j \in 1..n \/ j = n + 1
      BY <2>3
    <3> QED BY <3>1, <3>2, <3>3
  <2>7. new.members = Append(ms, x)
    BY <2>1 DEF x
  <2> QED BY <2>3, <2>6, <2>7 DEF Made
<1> HIDE DEF new
<1> QED BY <1>1, <1>2, <1>3, <1>5, <1>6, ChangedMade

\* A ret does not touch the members.
LEMMA SetRetMade ==
  ASSUME ContractInv, NEW l \in Lines, SetRet(l) PROVE ContractInv'
<1> DEFINE it == cur[1]
           new == [it EXCEPT !.ret = <<ReadTy(l[2]).ty>>]
<1>1. /\ status = "reading" /\ status' = "reading" /\ Ret(l) /\ done' = done
      /\ cur' = [cur EXCEPT ![1].ret = <<ReadTy(l[2]).ty>>]
  BY DEF SetRet, Reading
<1>2. cur # <<>>
  BY <1>1 DEF Ret, Open
<1>3. GateInv' /\ GateInv
  BY SetRetKeeps DEF ContractInv
<1>4. it \in Items /\ cur = <<it>>
  BY <1>1, <1>2, <1>3, OpenItem
<1>5. cur' = <<new>>
  <2>1. DOMAIN cur = {1} /\ cur = [i \in {1} |-> cur[1]]
    BY <1>4
  <2>2. cur' = [i \in {1} |-> new]
    BY <1>1, <2>1
  <2> HIDE DEF new
  <2> QED BY <2>2
<1>6. new.members = it.members /\ new.kind = it.kind
  BY <1>4 DEF Items
<1> HIDE DEF new
<1>7. Made(it) => Made(new)
  BY <1>6 DEF Made, MadeOf
<1> QED BY <1>1, <1>2, <1>3, <1>5, <1>7, ChangedMade

\* A sem, the same.
LEMMA SetSemMade ==
  ASSUME ContractInv, NEW l \in Lines, SetSem(l) PROVE ContractInv'
<1> DEFINE it == cur[1]
           new == [it EXCEPT !.sem = <<FuncSem(l)>>]
<1>1. /\ status = "reading" /\ status' = "reading" /\ Sem(l) /\ done' = done
      /\ cur' = [cur EXCEPT ![1].sem = <<FuncSem(l)>>]
  BY DEF SetSem, Reading
<1>2. cur # <<>>
  BY <1>1 DEF Sem, Open
<1>3. GateInv' /\ GateInv
  BY SetSemKeeps DEF ContractInv
<1>4. it \in Items /\ cur = <<it>>
  BY <1>1, <1>2, <1>3, OpenItem
<1>5. cur' = <<new>>
  <2>1. DOMAIN cur = {1} /\ cur = [i \in {1} |-> cur[1]]
    BY <1>4
  <2>2. cur' = [i \in {1} |-> new]
    BY <1>1, <2>1
  <2> HIDE DEF new
  <2> QED BY <2>2
<1>6. new.members = it.members /\ new.kind = it.kind
  BY <1>4 DEF Items
<1> HIDE DEF new
<1>7. Made(it) => Made(new)
  BY <1>6 DEF Made, MadeOf
<1> QED BY <1>1, <1>2, <1>3, <1>5, <1>7, ChangedMade

\* The end of the file closes the open item, and leaves none.
LEMMA EndOfFileMade == ASSUME ContractInv, EndOfFile PROVE ContractInv'
<1>1. /\ GateInv /\ GateTypes /\ \A i \in DOMAIN done : Made(done[i])
      /\ \A i \in DOMAIN cur : Made(cur[i])
  BY DEF ContractInv, GateInv
<1>2. GateInv'
  BY <1>1, EndOfFileKeeps
<1>3. CASE Closes
  <2>1. done' = done \o cur /\ cur' = <<>> /\ status' = "parsed"
    BY <1>3 DEF EndOfFile
  <2>2. \A i \in DOMAIN done' : Made(done'[i])
    BY <1>1, <2>1, ItemsMade
  <2>3. \A i \in DOMAIN cur' : Made(cur'[i])
    <3>1. DOMAIN <<>> = {}
      OBVIOUS
    <3> QED BY <2>1, <3>1
  <2>4. ValidMeansCallable'
    BY <2>1 DEF ValidMeansCallable
  <2> QED BY <1>2, <2>1, <2>2, <2>3, <2>4 DEF ContractInv
<1>4. CASE ~Closes
  <2>1. done' = done /\ cur' = cur /\ status' = "parse"
    BY <1>4 DEF EndOfFile
  <2> QED BY <1>1, <1>2, <2>1, StillReading
<1> QED BY <1>3, <1>4

\* The check of the contract is where a file is said to be valid.
LEMMA CheckContractMade == ASSUME ContractInv, CheckContract PROVE ContractInv'
<1>1. /\ GateInv /\ GateTypes /\ GateStands /\ NothingSkipped
      /\ \A i \in DOMAIN done : Made(done[i])
      /\ (status = "parsed" => cur = <<>>)
  BY DEF ContractInv, GateInv, SnapshotReadWhole
<1>2. /\ status = "parsed" /\ Resolved /\ lines' = lines /\ done' = done /\ cur' = cur
      /\ line' = line /\ status' \in {"valid", "skew"}
      /\ status' = "valid" =>
           /\ covered' = Covered /\ Named # {}
           /\ \A k \in Named : Contract[InContract(SurfaceEntry(k)[1])][2] = SurfaceEntry(k)[2]
  BY DEF CheckContract
<1>3. cur = <<>>
  BY <1>1, <1>2
<1>4. GateInv'
  <2>1. status' \in {"surface", "valid", "skew"} /\ UNCHANGED <<lines, done, cur, line>>
    BY <1>2
  <2> QED BY <1>1, <1>2, <2>1, JudgedKeeps
<1>5. AllMade(done) /\ Spelt(done) /\ LinesOf(done) = TextLines(lines)
  <2>1. done \in Seq(Items)
    BY <1>1 DEF GateTypes
  <2>2. done \o cur = done
    BY <1>3, <2>1
  <2>3. LinesOf(done \o cur) = TextLines(lines)
    BY <1>1, <1>2 DEF NothingSkipped
  <2> QED BY <1>1, <2>1, <2>2, <2>3 DEF AllMade, Spelt, GateStands
<1>6. ValidMeansCallable'
  <2> SUFFICES ASSUME status' = "valid" PROVE Callable(TextLines(lines'), covered')
    BY DEF ValidMeansCallable
  <2>1. Callable(TextLines(lines), Covered)
    BY <1>2, <1>5, CheckedIsCallable
  <2> QED BY <1>2, <2>1
<1> QED BY <1>1, <1>2, <1>3, <1>4, <1>6 DEF ContractInv

\* Before the first line.
LEMMA ContractInit == GateInit => ContractInv
<1> SUFFICES ASSUME GateInit PROVE ContractInv
  OBVIOUS
<1>1. done = <<>> /\ cur = <<>> /\ status = "reading" /\ GateInv
  BY GateInitInv DEF GateInit
<1>2. DOMAIN <<>> = {}
  OBVIOUS
<1> QED BY <1>1, <1>2 DEF ContractInv, ValidMeansCallable

\* Every step of the gate.
LEMMA ContractKeeps == ContractInv /\ [GateNext]_gate => ContractInv'
<1> SUFFICES ASSUME ContractInv, [GateNext]_gate PROVE ContractInv'
  OBVIOUS
<1>1. /\ GateInv'
      /\ \A i \in DOMAIN done : Made(done[i])
      /\ \A i \in DOMAIN cur : Made(cur[i])
  BY GateKeeps DEF ContractInv
<1>2. CASE Blank
  <2>1. status' = "reading" /\ done' = done /\ cur' = cur
    BY <1>2 DEF Blank, Reading
  <2> QED BY <1>1, <2>1, StillReading DEF ContractInv
<1>3. ASSUME NEW l \in Lines, Restart(l) PROVE ContractInv'
  BY <1>3, RestartMade
<1>4. ASSUME NEW l \in Lines, AddMember(l) PROVE ContractInv'
  BY <1>4, AddMemberMade
<1>5. ASSUME NEW l \in Lines, SetRet(l) PROVE ContractInv'
  BY <1>5, SetRetMade
<1>6. ASSUME NEW l \in Lines, SetSem(l) PROVE ContractInv'
  BY <1>6, SetSemMade
<1>7. ASSUME NEW l \in Lines, RefuseLine(l) PROVE ContractInv'
  <2>1. status' = "parse" /\ done' = done /\ cur' = cur
    BY <1>7 DEF RefuseLine
  <2> QED BY <1>1, <2>1, StillReading DEF ContractInv
<1>8. CASE EndOfFile
  BY <1>8, EndOfFileMade
<1>9. CASE UnresolvedRef
  <2>1. status' = "surface" /\ done' = done /\ cur' = cur
    BY <1>9 DEF UnresolvedRef
  <2> QED BY <1>1, <2>1, StillReading DEF ContractInv
<1>10. CASE CheckContract
  BY <1>10, CheckContractMade
<1>11. CASE UNCHANGED gate
  <2>1. /\ lines' = lines /\ done' = done /\ cur' = cur /\ status' = status
        /\ covered' = covered
    BY <1>11 DEF gate
  <2>2. ValidMeansCallable'
    BY <2>1 DEF ContractInv, ValidMeansCallable
  <2> QED BY <1>1, <2>1, <2>2 DEF ContractInv
<1> QED BY <1>2, <1>3, <1>4, <1>5, <1>6, <1>7, <1>8, <1>9, <1>10, <1>11 DEF GateNext

\* `validate_committed` says valid of no file whose functions the host would call with a number
\* of values they do not take, whatever the items of the file and their order: the slots counted
\* on the parsed items (flat_arity) are those of the lines of the file.
THEOREM ContractHolds == GateSpec => []ValidMeansCallable
<1>1. GateSpec => []ContractInv
  BY ContractInit, ContractKeeps, PTL DEF GateSpec
<1>2. ContractInv => ValidMeansCallable
  BY DEF ContractInv
<1> QED BY <1>1, <1>2, PTL

-----------------------------------------------------------------------------
(* The emitted circuit and the emitted order.                              *)

\* What a stream holds, and integers that wrap to the same number.
Elements == {Dbsp!I(x) : x \in Int}
Apart(a, b) == \E k \in Int : a = b + k * Modulus

\* Integers a multiple of the modulus apart have one remainder.
LEMMA Multiples ==
  ASSUME Modulus \in Nat \ {0}, NEW a \in Int, NEW b \in Int, Apart(a, b)
  PROVE  a % Modulus = b % Modulus
<1> DEFINE M == Modulus
           qa == a \div M
           qb == b \div M
           ra == a % M
           rb == b % M
<1>1. PICK k \in Int : a = b + k * M
  BY DEF Apart
<1>2. M \in Nat /\ M > 0
  OBVIOUS
<1>3. /\ qa \in Int /\ qb \in Int /\ ra \in Int /\ rb \in Int
      /\ 0 <= ra /\ ra < M /\ 0 <= rb /\ rb < M
  BY <1>2
<1>4. a = M * qa + ra
  BY <1>2
<1>5. b = M * qb + rb
  BY <1>2
<1> HIDE DEF M, qa, qb, ra, rb
<1> DEFINE d == qb + k - qa
<1>6. d \in Int /\ ra - rb = M * d
  BY <1>1, <1>2, <1>3, <1>4, <1>5
<1> HIDE DEF d
<1>7. d = 0
  <2>1. CASE d >= 1
    <3>1. M * d >= M
      BY <1>2, <1>6, <2>1
    <3> QED BY <1>2, <1>3, <1>6, <3>1
  <2>2. CASE d <= -1
    <3>1. M * d <= -M
      BY <1>2, <1>6, <2>2
    <3> QED BY <1>2, <1>3, <1>6, <3>1
  <2> QED BY <1>6, <2>1, <2>2
<1>8. ra = rb
  BY <1>2, <1>3, <1>6, <1>7
<1> QED BY <1>8 DEF ra, rb, M

\* Wrapping moves an integer by a multiple of the modulus.
LEMMA WrapLaws ==
  ASSUME Modulus \in Nat \ {0}, NEW x \in Int
  PROVE  Dbsp!Wrapped(x) \in Int /\ Apart(Dbsp!Wrapped(x), x)
<1> DEFINE M == Modulus
           h == Modulus \div 2
           q == (x + h) \div M
           r == (x + h) % M
<1>1. M \in Nat /\ M > 0 /\ h \in Int
  OBVIOUS
<1>2. x + h \in Int
  BY <1>1
<1>3. q \in Int /\ r \in Int /\ x + h = M * q + r
  <2> HIDE DEF h
  <2> QED BY <1>1, <1>2
<1>4. Dbsp!Wrapped(x) = r - h
  BY DEF Dbsp!Wrapped
<1> HIDE DEF M, h, q, r
<1>5. r - h = x + (-q) * M /\ -q \in Int
  BY <1>1, <1>3
<1> QED BY <1>1, <1>3, <1>4, <1>5 DEF Apart, M

\* Such integers are the same number.
LEMMA SameWrapped ==
  ASSUME Modulus \in Nat \ {0}, NEW a \in Int, NEW b \in Int, Apart(a, b)
  PROVE  Dbsp!Wrapped(a) = Dbsp!Wrapped(b) /\ Dbsp!I(a) = Dbsp!I(b)
<1>1. Modulus \div 2 \in Int
  OBVIOUS
<1>2. Apart(a + Modulus \div 2, b + Modulus \div 2)
  BY <1>1 DEF Apart
<1>3. (a + Modulus \div 2) % Modulus = (b + Modulus \div 2) % Modulus
  BY <1>1, <1>2, Multiples
<1> QED BY <1>3 DEF Dbsp!Wrapped, Dbsp!I

\* Elements add, subtract and double as integers do, before or after they wrap.
LEMMA NumberLaws ==
  ASSUME Modulus \in Nat \ {0}, NEW x \in Int, NEW y \in Int
  PROVE  /\ Dbsp!IsNumber(Dbsp!I(x)) /\ Dbsp!I(x)[<<>>] \in Int
         /\ Dbsp!Plus(Dbsp!I(x), Dbsp!I(y)) = Dbsp!I(x + y)
         /\ Dbsp!Minus(Dbsp!I(x), Dbsp!I(y)) = Dbsp!I(x - y)
         /\ Dbsp!I(Dbsp!demo_double(Dbsp!I(x)[<<>>])) = Dbsp!I(2 * x)
<1>1. PICK k \in Int : Dbsp!Wrapped(x) = x + k * Modulus
  BY WrapLaws DEF Apart
<1>2. PICK l \in Int : Dbsp!Wrapped(y) = y + l * Modulus
  BY WrapLaws DEF Apart
<1>3. /\ DOMAIN Dbsp!I(x) = {<<>>} /\ Dbsp!I(x)[<<>>] = Dbsp!Wrapped(x) /\ Dbsp!Wrapped(x) \in Int
      /\ DOMAIN Dbsp!I(y) = {<<>>} /\ Dbsp!I(y)[<<>>] = Dbsp!Wrapped(y) /\ Dbsp!Wrapped(y) \in Int
  BY WrapLaws DEF Dbsp!I
<1>4. Modulus \in Int
  OBVIOUS
<1>5. Dbsp!Wrapped(Dbsp!Wrapped(x) + Dbsp!Wrapped(y)) = Dbsp!Wrapped(x + y)
  <2>1. Dbsp!Wrapped(x) + Dbsp!Wrapped(y) = (x + y) + (k + l) * Modulus /\ k + l \in Int
    BY <1>1, <1>2, <1>4
  <2>2. Apart(Dbsp!Wrapped(x) + Dbsp!Wrapped(y), x + y)
    BY <2>1 DEF Apart
  <2> QED BY <1>3, <2>2, SameWrapped
<1>6. Dbsp!Wrapped(Dbsp!Wrapped(x) - Dbsp!Wrapped(y)) = Dbsp!Wrapped(x - y)
  <2>1. Dbsp!Wrapped(x) - Dbsp!Wrapped(y) = (x - y) + (k - l) * Modulus /\ k - l \in Int
    BY <1>1, <1>2, <1>4
  <2>2. Apart(Dbsp!Wrapped(x) - Dbsp!Wrapped(y), x - y)
    BY <2>1 DEF Apart
  <2> QED BY <1>3, <2>2, SameWrapped
<1>7. Dbsp!I(2 * Dbsp!Wrapped(x)) = Dbsp!I(2 * x)
  <2>1. 2 * Dbsp!Wrapped(x) = 2 * x + (2 * k) * Modulus /\ 2 * k \in Int
    BY <1>1, <1>4
  <2>2. Apart(2 * Dbsp!Wrapped(x), 2 * x)
    BY <2>1 DEF Apart
  <2>3. 2 * Dbsp!Wrapped(x) \in Int /\ 2 * x \in Int
    BY <1>3
  <2> QED BY <2>2, <2>3, SameWrapped
<1>8. Dbsp!Plus(Dbsp!I(x), Dbsp!I(y)) = [p \in {<<>>} |-> Dbsp!Wrapped(Dbsp!Wrapped(x) + Dbsp!Wrapped(y))]
  BY <1>3 DEF Dbsp!Plus
<1>9. Dbsp!Minus(Dbsp!I(x), Dbsp!I(y)) = [p \in {<<>>} |-> Dbsp!Wrapped(Dbsp!Wrapped(x) - Dbsp!Wrapped(y))]
  BY <1>3 DEF Dbsp!Minus
<1>10. Dbsp!I(x + y) = [p \in {<<>>} |-> Dbsp!Wrapped(x + y)] /\ Dbsp!I(x - y) = [p \in {<<>>} |-> Dbsp!Wrapped(x - y)]
  BY DEF Dbsp!I
<1> QED BY <1>3, <1>5, <1>6, <1>7, <1>8, <1>9, <1>10 DEF Dbsp!IsNumber, Dbsp!demo_double

\* The numbers are a group under Dbsp!Plus and Dbsp!Minus, which doubling respects.
LEMMA GroupLaws ==
  ASSUME Modulus \in Nat \ {0}, NEW a \in Elements, NEW b \in Elements
  PROVE  /\ Dbsp!Plus(a, b) \in Elements /\ Dbsp!Minus(a, b) \in Elements
         /\ Dbsp!Minus(Dbsp!Plus(a, b), a) = b
         /\ Dbsp!Plus(a, Dbsp!Minus(b, a)) = b
         /\ Dbsp!IsNumber(a)
         /\ Dbsp!I(Dbsp!demo_double(a[<<>>])) \in Elements
         /\ Dbsp!I(Dbsp!demo_double(Dbsp!Minus(a, b)[<<>>]))
              = Dbsp!Minus(Dbsp!I(Dbsp!demo_double(a[<<>>])), Dbsp!I(Dbsp!demo_double(b[<<>>])))
<1>1. PICK x \in Int : a = Dbsp!I(x)
  BY DEF Elements
<1>2. PICK y \in Int : b = Dbsp!I(y)
  BY DEF Elements
<1>3. Dbsp!Plus(a, b) = Dbsp!I(x + y) /\ Dbsp!Minus(a, b) = Dbsp!I(x - y) /\ Dbsp!Minus(b, a) = Dbsp!I(y - x) /\ Dbsp!IsNumber(a)
  BY <1>1, <1>2, NumberLaws
<1>4. Dbsp!Minus(Dbsp!I(x + y), Dbsp!I(x)) = Dbsp!I((x + y) - x) /\ Dbsp!Plus(Dbsp!I(x), Dbsp!I(y - x)) = Dbsp!I(x + (y - x))
  BY NumberLaws
<1>5. (x + y) - x = y /\ x + (y - x) = y
  OBVIOUS
<1>6. /\ Dbsp!I(Dbsp!demo_double(a[<<>>])) = Dbsp!I(2 * x) /\ Dbsp!I(Dbsp!demo_double(b[<<>>])) = Dbsp!I(2 * y)
      /\ Dbsp!I(Dbsp!demo_double(Dbsp!Minus(a, b)[<<>>])) = Dbsp!I(2 * (x - y))
  <2>1. x - y \in Int
    OBVIOUS
  <2>2. Dbsp!I(Dbsp!demo_double(Dbsp!I(x - y)[<<>>])) = Dbsp!I(2 * (x - y))
    BY <2>1, NumberLaws
  <2> QED BY <1>1, <1>2, <1>3, <2>2, NumberLaws
<1>7. Dbsp!Minus(Dbsp!I(2 * x), Dbsp!I(2 * y)) = Dbsp!I(2 * x - 2 * y) /\ 2 * x - 2 * y = 2 * (x - y)
  <2>1. 2 * x \in Int /\ 2 * y \in Int /\ 2 * x - 2 * y = 2 * (x - y)
    OBVIOUS
  <2> QED BY <2>1, NumberLaws
<1>8. \A z \in Int : Dbsp!I(z) \in Elements
  BY DEF Elements
<1> QED BY <1>1, <1>2, <1>3, <1>4, <1>5, <1>6, <1>7, <1>8

\* Zero is a number, and its own double.
LEMMA ZeroLaws ==
  ASSUME Modulus \in Nat \ {0}
  PROVE  Dbsp!Zero \in Elements /\ Dbsp!I(Dbsp!demo_double(Dbsp!Zero[<<>>])) = Dbsp!Zero
<1>1. Dbsp!I(Dbsp!demo_double(Dbsp!I(0)[<<>>])) = Dbsp!I(2 * 0) /\ 2 * 0 = 0
  BY NumberLaws
<1> QED BY <1>1 DEF Dbsp!Zero, Elements

\* A stream of numbers one tick late is a stream of numbers.
LEMMA BeforeNumbers ==
  ASSUME Modulus \in Nat \ {0}, NEW xs \in Seq(Elements), NEW n \in DOMAIN xs
  PROVE  Dbsp!Before(xs, n) \in Elements
BY ZeroLaws DEF Dbsp!Before

-----------------------------------------------------------------------------

\* The sums of a stream of numbers are numbers, each the one before plus what arrived.
LEMMA StreamSums ==
  ASSUME Modulus \in Nat \ {0}, NEW xs \in Seq(Elements)
  PROVE  LET ys == Dbsp!Integral(xs)
         IN  /\ ys \in Seq(Elements) /\ Len(ys) = Len(xs)
             /\ \A n \in DOMAIN xs : ys[n] = Dbsp!Plus(Dbsp!Before(ys, n), xs[n])
<1> DEFINE Step(f, n) == IF n = 0 THEN Dbsp!Zero ELSE Dbsp!Plus(f[n - 1], xs[n])
           sum == CHOOSE f : f = [n \in {0} \cup DOMAIN xs |-> Step(f, n)]
           Sum(f, m) == f \in [0..m -> Elements] /\ \A n \in 0..m : f[n] = Step(f, n)
           ys == Dbsp!Integral(xs)
<1>1. /\ Len(xs) \in Nat /\ DOMAIN xs = 1..Len(xs) /\ {0} \cup DOMAIN xs = 0..Len(xs)
      /\ \A n \in 1..Len(xs) : xs[n] \in Elements
  OBVIOUS
<1>2. \E g : Sum(g, Len(xs))
  <2> SUFFICES ASSUME ~\E g : Sum(g, Len(xs)) PROVE FALSE
    OBVIOUS
  <2> DEFINE D == {m \in 0..Len(xs) : ~\E g : Sum(g, m)}
  <2>1. D \in SUBSET Nat /\ Len(xs) \in D
    BY <1>1
  <2>2. PICK k \in D : \A j \in D : k <= j
    <3> HIDE DEF D
    <3> QED BY <2>1, Least
  <2>3. k # 0
    <3> DEFINE g == [n \in 0..0 |-> Dbsp!Zero]
    <3>1. Sum(g, 0)
      BY ZeroLaws
    <3> QED BY <2>2, <3>1
  <2>4. k \in 0..Len(xs) /\ k \in Nat /\ k - 1 \in 0..Len(xs) /\ k - 1 \in Nat /\ k \in 1..Len(xs)
    BY <1>1, <2>2, <2>3
  <2>5. PICK g : Sum(g, k - 1)
    <3>1. ~(k <= k - 1)
      BY <2>4
    <3>2. k - 1 \notin D
      BY <2>2, <3>1
    <3> HIDE DEF Sum
    <3> QED BY <2>4, <3>2
  <2> DEFINE h == [n \in 0..k |-> IF n = k THEN Dbsp!Plus(g[k - 1], xs[k]) ELSE g[n]]
  <2>6. h \in [0..k -> Elements]
    BY <1>1, <2>4, <2>5, GroupLaws
  <2>7. ASSUME NEW n \in 0..k PROVE h[n] = Step(h, n)
    <3>1. CASE n = k
      BY <2>4, <3>1
    <3>2. CASE n # k
      <4>1. n \in 0..(k - 1) /\ h[n] = g[n] /\ (n # 0 => h[n - 1] = g[n - 1])
        BY <2>4, <3>2
      <4> QED BY <2>5, <4>1
    <3> QED BY <3>1, <3>2
  <2>8. Sum(h, k)
    BY <2>6, <2>7
  <2> QED BY <2>2, <2>8
<1>3. PICK g : Sum(g, Len(xs))
  BY <1>2
<1> HIDE DEF Step
<1>4. g = [n \in {0} \cup DOMAIN xs |-> Step(g, n)]
  BY <1>1, <1>3
<1>5. sum = [n \in {0} \cup DOMAIN xs |-> Step(sum, n)]
  BY <1>4
<1> HIDE DEF sum
<1>6. ASSUME NEW n \in 0..Len(xs) PROVE sum[n] = g[n]
  <2> SUFFICES ASSUME sum[n] # g[n] PROVE FALSE
    OBVIOUS
  <2> DEFINE D == {m \in 0..Len(xs) : sum[m] # g[m]}
  <2>1. D \in SUBSET Nat /\ n \in D
    BY <1>1
  <2>2. PICK k \in D : \A j \in D : k <= j
    <3> HIDE DEF D
    <3> QED BY <2>1, Least
  <2>3. k \in 0..Len(xs) /\ sum[k] = Step(sum, k) /\ g[k] = Step(g, k) /\ sum[k] # g[k]
    BY <1>1, <1>3, <1>5, <2>2
  <2>4. k # 0 /\ k - 1 \in 0..Len(xs)
    BY <1>1, <2>3 DEF Step
  <2>5. sum[k - 1] = g[k - 1]
    BY <1>1, <2>2, <2>4
  <2> QED BY <2>3, <2>4, <2>5 DEF Step
<1>7. ys = [n \in DOMAIN xs |-> sum[n]]
  BY DEF Dbsp!Integral, sum, Step
<1>8. \A n \in 1..Len(xs) : ys[n] = g[n] /\ g[n] \in Elements
  BY <1>1, <1>3, <1>6, <1>7
<1>9. ys \in Seq(Elements) /\ Len(ys) = Len(xs)
  BY <1>1, <1>7, <1>8
<1>10. ASSUME NEW n \in DOMAIN xs PROVE ys[n] = Dbsp!Plus(Dbsp!Before(ys, n), xs[n])
  <2>1. n \in 1..Len(xs) /\ n - 1 \in 0..Len(xs) /\ n # 0
    BY <1>1
  <2>2. g[n] = Dbsp!Plus(g[n - 1], xs[n])
    BY <1>3, <2>1 DEF Step
  <2>3. g[0] = Dbsp!Zero
    BY <1>1, <1>3 DEF Step
  <2>4. Dbsp!Before(ys, n) = g[n - 1]
    BY <1>1, <1>8, <2>1, <2>3 DEF Dbsp!Before
  <2> QED BY <1>8, <2>1, <2>2, <2>4
<1> QED BY <1>9, <1>10

\* The differences of a stream of numbers are numbers.
LEMMA Differences ==
  ASSUME Modulus \in Nat \ {0}, NEW xs \in Seq(Elements)
  PROVE  LET ds == Dbsp!Derivative(xs)
         IN  /\ ds \in Seq(Elements) /\ Len(ds) = Len(xs)
             /\ \A n \in DOMAIN xs : ds[n] = Dbsp!Minus(xs[n], Dbsp!Before(xs, n))
<1> DEFINE ds == Dbsp!Derivative(xs)
<1>1. DOMAIN xs = 1..Len(xs) /\ Len(xs) \in Nat /\ \A n \in 1..Len(xs) : xs[n] \in Elements
  OBVIOUS
<1>2. ds = [n \in 1..Len(xs) |-> Dbsp!Minus(xs[n], Dbsp!Before(xs, n))]
  BY <1>1 DEF Dbsp!Derivative
<1>3. \A n \in 1..Len(xs) : Dbsp!Minus(xs[n], Dbsp!Before(xs, n)) \in Elements
  BY <1>1, BeforeNumbers, GroupLaws
<1> HIDE DEF ds
<1>4. ds \in Seq(Elements) /\ Len(ds) = Len(xs)
  BY <1>1, <1>2, <1>3
<1>5. \A n \in DOMAIN xs : ds[n] = Dbsp!Minus(xs[n], Dbsp!Before(xs, n))
  BY <1>1, <1>2
<1> QED BY <1>4, <1>5 DEF ds

\* Doubling a stream of numbers, tick by tick.
LEMMA Doubles ==
  ASSUME Modulus \in Nat \ {0}, NEW xs \in Seq(Elements)
  PROVE  LET ds == Dbsp!Doubled(xs)
         IN  /\ ds \in Seq(Elements) /\ Len(ds) = Len(xs)
             /\ \A n \in DOMAIN xs : ds[n] = Dbsp!I(Dbsp!demo_double(xs[n][<<>>]))
<1> DEFINE ds == Dbsp!Doubled(xs)
           twice(v) == Dbsp!I(Dbsp!demo_double(v[<<>>]))
<1>1. DOMAIN xs = 1..Len(xs) /\ Len(xs) \in Nat /\ \A n \in 1..Len(xs) : xs[n] \in Elements
  OBVIOUS
<1>2. \A n \in 1..Len(xs) : Dbsp!IsNumber(xs[n]) /\ twice(xs[n]) \in Elements
  BY <1>1, GroupLaws
<1>3. ds = [n \in 1..Len(xs) |-> IF Dbsp!IsNumber(xs[n]) THEN twice(xs[n]) ELSE xs[n]]
  BY <1>1 DEF Dbsp!Doubled, Dbsp!Lift
<1> HIDE DEF ds, twice
<1>4. ds = [n \in 1..Len(xs) |-> twice(xs[n])]
  BY <1>2, <1>3
<1>5. ds \in Seq(Elements) /\ Len(ds) = Len(xs) /\ \A n \in DOMAIN xs : ds[n] = twice(xs[n])
  BY <1>1, <1>2, <1>4
<1> QED BY <1>5 DEF ds, twice

\* The totals of order lines are numbers.
LEMMA Totals ==
  ASSUME Modulus \in Nat \ {0}, NEW xs \in Seq(Elements)
  PROVE  Dbsp!LineTotals(xs) \in Seq(Elements)
<1> DEFINE ts == Dbsp!LineTotals(xs)
           square(v) == Dbsp!I(Dbsp!demo_line_total(v[<<>>]))
<1>1. DOMAIN xs = 1..Len(xs) /\ Len(xs) \in Nat /\ \A n \in 1..Len(xs) : xs[n] \in Elements
  OBVIOUS
<1>2. ASSUME NEW v \in Elements PROVE Dbsp!IsNumber(v) /\ square(v) \in Elements
  <2>1. PICK x \in Int : v = Dbsp!I(x)
    BY DEF Elements
  <2>2. Dbsp!IsNumber(v) /\ v[<<>>] \in Int
    BY <2>1, NumberLaws
  <2>3. Dbsp!demo_line_total(v[<<>>]) \in Int
    BY <2>2 DEF Dbsp!demo_line_total
  <2> QED BY <2>2, <2>3 DEF Elements
<1>3. ts = [n \in 1..Len(xs) |-> IF Dbsp!IsNumber(xs[n]) THEN square(xs[n]) ELSE xs[n]]
  BY <1>1 DEF Dbsp!LineTotals, Dbsp!Lift
<1> HIDE DEF ts, square
<1>4. \A n \in 1..Len(xs) : (IF Dbsp!IsNumber(xs[n]) THEN square(xs[n]) ELSE xs[n]) \in Elements
  BY <1>1, <1>2
<1>5. ts \in Seq(Elements)
  BY <1>1, <1>3, <1>4
<1> QED BY <1>5 DEF ts

\* Summing and differencing undo each other on every stream of numbers.
LEMMA Inverses ==
  ASSUME Modulus \in Nat \ {0}, NEW xs \in Seq(Elements)
  PROVE  Dbsp!Derivative(Dbsp!Integral(xs)) = xs /\ Dbsp!Integral(Dbsp!Derivative(xs)) = xs
<1>1. DOMAIN xs = 1..Len(xs) /\ Len(xs) \in Nat /\ \A n \in 1..Len(xs) : xs[n] \in Elements
  OBVIOUS
<1>2. Dbsp!Derivative(Dbsp!Integral(xs)) = xs
  <2> DEFINE ys == Dbsp!Integral(xs)
             ds == Dbsp!Derivative(ys)
  <2>1. /\ ys \in Seq(Elements) /\ Len(ys) = Len(xs)
        /\ \A n \in DOMAIN xs : ys[n] = Dbsp!Plus(Dbsp!Before(ys, n), xs[n])
    BY StreamSums
  <2> HIDE DEF ys
  <2>2. /\ ds \in Seq(Elements) /\ Len(ds) = Len(ys)
        /\ \A n \in DOMAIN ys : ds[n] = Dbsp!Minus(ys[n], Dbsp!Before(ys, n))
    BY <2>1, Differences
  <2>3. DOMAIN ys = 1..Len(xs) /\ DOMAIN ds = 1..Len(xs) /\ Len(ds) = Len(xs)
    BY <1>1, <2>1, <2>2
  <2> HIDE DEF ds
  <2>4. ASSUME NEW n \in 1..Len(xs) PROVE ds[n] = xs[n]
    <3>1. ys[n] = Dbsp!Plus(Dbsp!Before(ys, n), xs[n]) /\ ds[n] = Dbsp!Minus(ys[n], Dbsp!Before(ys, n))
      BY <1>1, <2>1, <2>2, <2>3
    <3>2. Dbsp!Before(ys, n) \in Elements
      BY <2>1, <2>3, BeforeNumbers
    <3> QED BY <1>1, <3>1, <3>2, GroupLaws
  <2>5. ds = xs
    BY <1>1, <2>2, <2>3, <2>4
  <2> QED BY <2>5 DEF ds, ys
<1>3. Dbsp!Integral(Dbsp!Derivative(xs)) = xs
  <2> DEFINE ds == Dbsp!Derivative(xs)
             ys == Dbsp!Integral(ds)
  <2>1. /\ ds \in Seq(Elements) /\ Len(ds) = Len(xs)
        /\ \A n \in DOMAIN xs : ds[n] = Dbsp!Minus(xs[n], Dbsp!Before(xs, n))
    BY Differences
  <2> HIDE DEF ds
  <2>2. /\ ys \in Seq(Elements) /\ Len(ys) = Len(ds)
        /\ \A n \in DOMAIN ds : ys[n] = Dbsp!Plus(Dbsp!Before(ys, n), ds[n])
    BY <2>1, StreamSums
  <2>3. DOMAIN ys = 1..Len(xs) /\ DOMAIN ds = 1..Len(xs) /\ Len(ys) = Len(xs)
    BY <1>1, <2>1, <2>2
  <2> HIDE DEF ys
  <2>4. ASSUME NEW n \in 1..Len(xs) PROVE ys[n] = xs[n]
    <3> SUFFICES ASSUME ys[n] # xs[n] PROVE FALSE
      OBVIOUS
    <3> DEFINE D == {m \in 1..Len(xs) : ys[m] # xs[m]}
    <3>1. D \in SUBSET Nat /\ n \in D
      BY <1>1
    <3>2. PICK k \in D : \A j \in D : k <= j
      <4> HIDE DEF D
      <4> QED BY <3>1, Least
    <3>3. k \in 1..Len(xs) /\ ys[k] # xs[k]
      BY <3>2
    <3>4. Dbsp!Before(ys, k) = Dbsp!Before(xs, k)
      <4>1. CASE k = 1
        BY <4>1 DEF Dbsp!Before
      <4>2. CASE k # 1
        <5>1. k - 1 \in 1..Len(xs) /\ ~(k <= k - 1)
          BY <1>1, <3>3, <4>2
        <5>2. ys[k - 1] = xs[k - 1]
          BY <3>2, <5>1
        <5> QED BY <4>2, <5>2 DEF Dbsp!Before
      <4> QED BY <4>1, <4>2
    <3>5. Dbsp!Before(xs, k) \in Elements /\ xs[k] \in Elements
      BY <1>1, <3>3, BeforeNumbers
    <3>6. ys[k] = Dbsp!Plus(Dbsp!Before(xs, k), Dbsp!Minus(xs[k], Dbsp!Before(xs, k)))
      BY <1>1, <2>1, <2>2, <2>3, <3>3, <3>4
    <3> QED BY <3>3, <3>5, <3>6, GroupLaws
  <2>5. ys = xs
    BY <1>1, <2>2, <2>3, <2>4
  <2> QED BY <2>5 DEF ds, ys
<1> QED BY <1>2, <1>3

\* Doubling is linear: the doubles of the differences are the differences of the doubles.
LEMMA DoublingIsLinear ==
  ASSUME Modulus \in Nat \ {0}, NEW xs \in Seq(Elements)
  PROVE  Dbsp!Doubled(Dbsp!Derivative(xs)) = Dbsp!Derivative(Dbsp!Doubled(xs))
<1> DEFINE ds == Dbsp!Derivative(xs)
           ts == Dbsp!Doubled(xs)
           left == Dbsp!Doubled(ds)
           right == Dbsp!Derivative(ts)
           twice(v) == Dbsp!I(Dbsp!demo_double(v[<<>>]))
<1>1. DOMAIN xs = 1..Len(xs) /\ Len(xs) \in Nat /\ \A n \in 1..Len(xs) : xs[n] \in Elements
  OBVIOUS
<1>2. /\ ds \in Seq(Elements) /\ Len(ds) = Len(xs)
      /\ \A n \in DOMAIN xs : ds[n] = Dbsp!Minus(xs[n], Dbsp!Before(xs, n))
  BY Differences
<1>3. /\ ts \in Seq(Elements) /\ Len(ts) = Len(xs)
      /\ \A n \in DOMAIN xs : ts[n] = twice(xs[n])
  BY Doubles
<1> HIDE DEF ds, ts
<1>4. /\ left \in Seq(Elements) /\ Len(left) = Len(xs)
      /\ \A n \in DOMAIN ds : left[n] = twice(ds[n])
  BY <1>2, Doubles
<1>5. /\ right \in Seq(Elements) /\ Len(right) = Len(xs)
      /\ \A n \in DOMAIN ts : right[n] = Dbsp!Minus(ts[n], Dbsp!Before(ts, n))
  BY <1>3, Differences
<1>6. /\ DOMAIN ds = 1..Len(xs) /\ DOMAIN ts = 1..Len(xs)
      /\ DOMAIN left = 1..Len(xs) /\ DOMAIN right = 1..Len(xs)
  BY <1>1, <1>2, <1>3, <1>4, <1>5
<1> HIDE DEF left, right
<1>7. ASSUME NEW n \in 1..Len(xs) PROVE left[n] = right[n]
  <2>1. Dbsp!Before(ts, n) = twice(Dbsp!Before(xs, n))
    <3>1. CASE n = 1
      BY <3>1, ZeroLaws DEF Dbsp!Before
    <3>2. CASE n # 1
      <4>1. n - 1 \in 1..Len(xs)
        BY <1>1, <3>2
      <4> QED BY <1>1, <1>3, <3>2, <4>1 DEF Dbsp!Before
    <3> QED BY <3>1, <3>2
  <2>2. Dbsp!Before(xs, n) \in Elements /\ xs[n] \in Elements
    BY <1>1, BeforeNumbers
  <2>3. left[n] = twice(Dbsp!Minus(xs[n], Dbsp!Before(xs, n)))
    BY <1>1, <1>2, <1>4, <1>6
  <2>4. right[n] = Dbsp!Minus(twice(xs[n]), twice(Dbsp!Before(xs, n)))
    BY <1>1, <1>3, <1>5, <1>6, <2>1
  <2> QED BY <2>2, <2>3, <2>4, GroupLaws
<1>8. left = right
  BY <1>4, <1>5, <1>6, <1>7
<1> QED BY <1>8 DEF left, right, ds, ts

\* The incremental circuit agrees with the batch circuit on every stream of numbers.
LEMMA Agreement ==
  ASSUME Modulus \in Nat \ {0}, s \in Seq(Elements)
  PROVE  Dbsp!IncrementalAgrees /\ Dbsp!SumsUndoDifferences
<1> DEFINE totals == Dbsp!LineTotals(Dbsp!Integral(s))
           doubles == Dbsp!Doubled(totals)
<1>1. Dbsp!Integral(s) \in Seq(Elements)
  BY StreamSums
<1>2. totals \in Seq(Elements)
  BY <1>1, Totals
<1>3. doubles \in Seq(Elements)
  <2> HIDE DEF totals
  <2> QED BY <1>2, Doubles
<1>4. Dbsp!order_total_incremental(s) = Dbsp!Integral(Dbsp!Doubled(Dbsp!Derivative(totals)))
  BY DEF Dbsp!order_total_incremental, Dbsp!Incremental
<1>5. Dbsp!Incremental(Dbsp!order_total_circuit, s) = Dbsp!Derivative(Dbsp!Integral(doubles))
  BY DEF Dbsp!order_total_circuit, Dbsp!Incremental
<1> HIDE DEF totals
<1>6. Dbsp!Doubled(Dbsp!Derivative(totals)) = Dbsp!Derivative(doubles)
  BY <1>2, DoublingIsLinear
<1> HIDE DEF doubles
<1>7. Dbsp!Integral(Dbsp!Derivative(doubles)) = doubles /\ Dbsp!Derivative(Dbsp!Integral(doubles)) = doubles
  BY <1>3, Inverses
<1>8. Dbsp!IncrementalAgrees
  BY <1>4, <1>5, <1>6, <1>7 DEF Dbsp!IncrementalAgrees
<1> QED BY <1>8, Inverses DEF Dbsp!SumsUndoDifferences

-----------------------------------------------------------------------------

\* A value: its paths lead left or right.
Tree(v) == v = [p \in DOMAIN v |-> v[p]] /\ DOMAIN v \in SUBSET Seq({1, 2})

\* Elements are values.
LEMMA NumbersAreTrees ==
  ASSUME NEW v \in Elements
  PROVE  Tree(v)
<1>1. PICK x \in Int : v = Dbsp!I(x)
  BY DEF Elements
<1>2. v = [p \in {<<>>} |-> Dbsp!Wrapped(x)]
  BY <1>1 DEF Dbsp!I
<1>3. DOMAIN v = {<<>>} /\ \A p \in DOMAIN v : v[p] = Dbsp!Wrapped(x)
  BY <1>2
<1>4. <<>> \in Seq({1, 2})
  OBVIOUS
<1> QED BY <1>2, <1>3, <1>4 DEF Tree

\* A step in front of a path can be taken off again.
LEMMA OneStep ==
  ASSUME NEW h \in {1, 2}, NEW p \in Seq({1, 2})
  PROVE  /\ <<h>> \o p \in Seq({1, 2}) /\ (<<h>> \o p)[1] = h
         /\ Tail(<<h>> \o p) = p /\ <<h>> \o p # <<>>
<1>1. <<h>> \in Seq({1, 2}) /\ Len(<<h>>) = 1 /\ <<h>>[1] = h
  OBVIOUS
<1>2. <<h>> \o p \in Seq({1, 2}) /\ Len(<<h>> \o p) = 1 + Len(p) /\ (<<h>> \o p)[1] = h
  BY <1>1
<1>3. \A i \in 1..Len(p) : (<<h>> \o p)[i + 1] = p[i]
  BY <1>1
<1>4. Len(Tail(<<h>> \o p)) = Len(p) /\ \A i \in 1..Len(p) : Tail(<<h>> \o p)[i] = p[i]
  BY <1>2, <1>3
<1>5. Tail(<<h>> \o p) \in Seq({1, 2})
  BY <1>2
<1>6. Tail(<<h>> \o p) = p
  BY <1>4, <1>5
<1> QED BY <1>2, <1>6

\* So is a pair of values, and each of its halves comes back.
LEMMA PairsAreTrees ==
  ASSUME NEW a, NEW b, Tree(a), Tree(b)
  PROVE  Tree(Dbsp!P(a, b)) /\ Dbsp!Fst(Dbsp!P(a, b)) = a /\ Dbsp!Snd(Dbsp!P(a, b)) = b
<1> DEFINE A == DOMAIN a
           B == DOMAIN b
           lefts == {<<1>> \o p : p \in A}
           rights == {<<2>> \o p : p \in B}
           val(q) == IF q[1] = 1 THEN a[Tail(q)] ELSE b[Tail(q)]
           pair == Dbsp!P(a, b)
<1>1. A \in SUBSET Seq({1, 2}) /\ B \in SUBSET Seq({1, 2}) /\ a = [p \in A |-> a[p]] /\ b = [p \in B |-> b[p]]
  BY DEF Tree
<1>2. pair = [q \in lefts \cup rights |-> val(q)]
  BY DEF Dbsp!P
<1>3. \A p \in A : /\ <<1>> \o p \in Seq({1, 2}) /\ (<<1>> \o p)[1] = 1
                    /\ Tail(<<1>> \o p) = p /\ <<1>> \o p # <<>>
  BY <1>1, OneStep
<1>20. \A p \in B : /\ <<2>> \o p \in Seq({1, 2}) /\ (<<2>> \o p)[1] = 2
                    /\ Tail(<<2>> \o p) = p /\ <<2>> \o p # <<>>
  BY <1>1, OneStep
<1> HIDE DEF A, B, lefts, rights, val, pair
<1>4. \A q \in lefts : \E p \in A : q = <<1>> \o p
  BY DEF lefts
<1>5. \A q \in rights : \E p \in B : q = <<2>> \o p
  BY DEF rights
<1>6. \A p \in A : <<1>> \o p \in lefts
  BY DEF lefts
<1>7. \A p \in B : <<2>> \o p \in rights
  BY DEF rights
<1>8. DOMAIN pair = lefts \cup rights /\ pair = [q \in DOMAIN pair |-> pair[q]]
  BY <1>2
<1>9. lefts \cup rights \in SUBSET Seq({1, 2})
  BY ZenonT(60), <1>3, <1>4, <1>5, <1>20
<1>10. Tree(pair)
  BY <1>8, <1>9 DEF Tree
<1>11. <<>> \notin DOMAIN pair
  BY <1>3, <1>4, <1>5, <1>8, <1>20
<1>12. \A p \in A : pair[<<1>> \o p] = a[p]
  BY <1>2, <1>3, <1>6 DEF val
<1>13. \A p \in B : pair[<<2>> \o p] = b[p]
  <2> SUFFICES ASSUME NEW p \in B PROVE pair[<<2>> \o p] = b[p]
    OBVIOUS
  <2> DEFINE q == <<2>> \o p
  <2>1. q \in lefts \cup rights /\ q[1] = 2 /\ Tail(q) = p
    BY <1>7, <1>20
  <2> HIDE DEF q
  <2>2. pair[q] = val(q)
    BY <1>2, <2>1
  <2>3. q[1] # 1
    BY <2>1
  <2>4. val(q) = b[Tail(q)]
    BY <2>3 DEF val
  <2> QED BY <2>1, <2>2, <2>4 DEF q
<1> DEFINE Under(h) == {x \in DOMAIN pair : x[1] = h}
           Below(h) == {Tail(q) : q \in Under(h)}
<1>14. Dbsp!Fst(pair) = [p \in Below(1) |-> pair[<<1>> \o p]]
       /\ Dbsp!Snd(pair) = [p \in Below(2) |-> pair[<<2>> \o p]]
  BY <1>11 DEF Dbsp!Fst, Dbsp!Snd, Dbsp!Half, Dbsp!IsNumber
<1>15. Under(1) = lefts /\ Under(2) = rights
  BY <1>3, <1>4, <1>5, <1>8, <1>20
<1> HIDE DEF Under
<1>16. Below(1) = A
  <2>1. ASSUME NEW x \in Below(1) PROVE x \in A
    <3>1. PICK q \in lefts : x = Tail(q)
      BY <1>15
    <3> QED BY <1>3, <1>4, <3>1
  <2>2. ASSUME NEW x \in A PROVE x \in Below(1)
    <3>1. <<1>> \o x \in Under(1) /\ Tail(<<1>> \o x) = x
      BY <1>3, <1>6, <1>15
    <3> QED BY <3>1
  <2> QED BY <2>1, <2>2
<1>17. Below(2) = B
  <2>1. ASSUME NEW x \in Below(2) PROVE x \in B
    <3>1. PICK q \in rights : x = Tail(q)
      BY <1>15
    <3> QED BY <1>5, <1>20, <3>1
  <2>2. ASSUME NEW x \in B PROVE x \in Below(2)
    <3>1. <<2>> \o x \in Under(2) /\ Tail(<<2>> \o x) = x
      BY <1>7, <1>15, <1>20
    <3> QED BY <3>1
  <2> QED BY <2>1, <2>2
<1> HIDE DEF Below
<1>18. Dbsp!Fst(pair) = a /\ Dbsp!Snd(pair) = b
  BY <1>1, <1>12, <1>13, <1>14, <1>16, <1>17
<1> QED BY <1>10, <1>18 DEF pair

\* A pair of an integral and a delay runs each on its own half.
LEMMA HalvesApart ==
  ASSUME Modulus \in Nat \ {0}, NEW xs \in Seq(Elements),
         NEW zs, \A n \in DOMAIN xs : Tree(zs[n])
  PROVE  Dbsp!Par(Dbsp!Integral, Dbsp!Delay, [n \in DOMAIN xs |-> Dbsp!P(xs[n], zs[n])])
           = [n \in DOMAIN xs |-> Dbsp!P(Dbsp!Integral(xs)[n], Dbsp!Before(zs, n))]
<1> DEFINE pairs == [n \in DOMAIN xs |-> Dbsp!P(xs[n], zs[n])]
           firsts == [n \in DOMAIN pairs |-> Dbsp!Fst(pairs[n])]
           seconds == [n \in DOMAIN pairs |-> Dbsp!Snd(pairs[n])]
<1>1. DOMAIN xs = 1..Len(xs) /\ Len(xs) \in Nat /\ \A n \in 1..Len(xs) : xs[n] \in Elements
  OBVIOUS
<1>2. ASSUME NEW n \in DOMAIN xs
      PROVE  Dbsp!Fst(pairs[n]) = xs[n] /\ Dbsp!Snd(pairs[n]) = zs[n]
  <2>1. Tree(xs[n]) /\ Tree(zs[n]) /\ pairs[n] = Dbsp!P(xs[n], zs[n])
    BY <1>1, NumbersAreTrees
  <2> HIDE DEF pairs
  <2> QED BY <2>1, PairsAreTrees
<1>3. DOMAIN pairs = DOMAIN xs
  OBVIOUS
<1>4. Dbsp!Par(Dbsp!Integral, Dbsp!Delay, pairs)
        = [n \in DOMAIN pairs |-> Dbsp!P(Dbsp!Integral(firsts)[n], Dbsp!Delay(seconds)[n])]
  BY DEF Dbsp!Par
<1> HIDE DEF pairs
<1>5. firsts = [n \in DOMAIN xs |-> xs[n]] /\ seconds = [n \in DOMAIN xs |-> zs[n]]
  BY <1>2, <1>3
<1> HIDE DEF firsts, seconds
<1>6. firsts = xs
  BY <1>1, <1>5
<1>7. ASSUME NEW n \in DOMAIN xs PROVE Dbsp!Delay(seconds)[n] = Dbsp!Before(zs, n)
  <2>1. Dbsp!Delay(seconds)[n] = Dbsp!Before(seconds, n)
    BY <1>5 DEF Dbsp!Delay
  <2>2. n # 1 => n - 1 \in DOMAIN xs
    BY <1>1
  <2>3. n # 1 => seconds[n - 1] = zs[n - 1]
    BY <1>5, <2>2
  <2> QED BY <2>1, <2>3 DEF Dbsp!Before
<1>8. Dbsp!Par(Dbsp!Integral, Dbsp!Delay, pairs)
        = [n \in DOMAIN xs |-> Dbsp!P(Dbsp!Integral(xs)[n], Dbsp!Before(zs, n))]
  BY <1>3, <1>4, <1>6, <1>7
<1> QED BY <1>8 DEF pairs

\* The sums of a prefix are a prefix of the sums.
LEMMA SumsOfPrefix ==
  ASSUME Modulus \in Nat \ {0}, NEW xs \in Seq(Elements), NEW n \in 1..Len(xs), NEW m \in 1..n
  PROVE  Dbsp!Integral(SubSeq(xs, 1, n))[m] = Dbsp!Integral(xs)[m]
<1> DEFINE ps == SubSeq(xs, 1, n)
           ys == Dbsp!Integral(xs)
           qs == Dbsp!Integral(ps)
<1>1. /\ Len(xs) \in Nat /\ n \in Nat /\ DOMAIN xs = 1..Len(xs)
      /\ ps \in Seq(Elements) /\ Len(ps) = n /\ DOMAIN ps = 1..n
      /\ \A i \in 1..n : ps[i] = xs[i] /\ i \in DOMAIN xs
  OBVIOUS
<1> HIDE DEF ps
<1>2. \A i \in 1..n : ys[i] = Dbsp!Plus(Dbsp!Before(ys, i), xs[i])
  BY <1>1, StreamSums
<1>3. \A i \in 1..n : qs[i] = Dbsp!Plus(Dbsp!Before(qs, i), xs[i])
  BY <1>1, StreamSums
<1> HIDE DEF ys, qs
<1> SUFFICES ASSUME qs[m] # ys[m] PROVE FALSE
  BY DEF ps, ys, qs
<1> DEFINE D == {i \in 1..n : qs[i] # ys[i]}
<1>4. D \in SUBSET Nat /\ m \in D
  BY <1>1
<1>5. PICK k \in D : \A j \in D : k <= j
  <2> HIDE DEF D
  <2> QED BY <1>4, Least
<1>6. k \in 1..n /\ qs[k] # ys[k]
  BY <1>5
<1>7. Dbsp!Before(qs, k) = Dbsp!Before(ys, k)
  <2>1. CASE k = 1
    BY <2>1 DEF Dbsp!Before
  <2>2. CASE k # 1
    <3>1. k - 1 \in 1..n /\ ~(k <= k - 1)
      BY <1>1, <1>6, <2>2
    <3>2. qs[k - 1] = ys[k - 1]
      BY <1>5, <3>1
    <3> QED BY <2>2, <3>2 DEF Dbsp!Before
  <2> QED BY <2>1, <2>2
<1> QED BY <1>2, <1>3, <1>6, <1>7

\* What the feedback answers at a tick: the sum so far, and its own answer two ticks ago.
BodyAnswer(f, n) ==
  Dbsp!P(Dbsp!Integral(s)[n], IF n = 1 THEN Dbsp!Zero ELSE Dbsp!Before(f, n - 1))

\* What the body reads of a prefix and of earlier answers decides its answer.
LEMMA BodyAnswers ==
  ASSUME Modulus \in Nat \ {0}, s \in Seq(Elements), NEW n \in 1..Len(s), NEW f,
         \A i \in 1..(n - 1) : Tree(f[i]), NEW m \in 1..n
  PROVE  /\ Dbsp!Par(Dbsp!Integral, Dbsp!Delay, Dbsp!Paired(SubSeq(s, 1, n), f))[m] = BodyAnswer(f, m)
         /\ Tree(BodyAnswer(f, m))
<1> DEFINE ps == SubSeq(s, 1, n)
           zs == [i \in 1..n |-> Dbsp!Before(f, i)]
<1>1. /\ Len(s) \in Nat /\ n \in Nat /\ ps \in Seq(Elements) /\ DOMAIN ps = 1..n /\ DOMAIN s = 1..Len(s)
      /\ m \in 1..Len(s) /\ m \in Nat
  OBVIOUS
<1>2. Tree(Dbsp!Zero)
  BY ZeroLaws, NumbersAreTrees
<1>3. ASSUME NEW i \in 1..n PROVE Tree(Dbsp!Before(f, i))
  <2>1. CASE i = 1
    BY <1>2, <2>1 DEF Dbsp!Before
  <2>2. CASE i # 1
    <3>1. i - 1 \in 1..(n - 1)
      BY <1>1, <2>2
    <3> QED BY <2>2, <3>1 DEF Dbsp!Before
  <2> QED BY <2>1, <2>2
<1>4. \A i \in DOMAIN ps : Tree(zs[i])
  BY <1>1, <1>3
<1>5. Dbsp!Paired(ps, f) = [i \in DOMAIN ps |-> Dbsp!P(ps[i], zs[i])]
  BY <1>1 DEF Dbsp!Paired
<1>6. Dbsp!Integral(ps)[m] = Dbsp!Integral(s)[m]
  BY SumsOfPrefix
<1> HIDE DEF ps
<1>7. Dbsp!Before(zs, m) = IF m = 1 THEN Dbsp!Zero ELSE Dbsp!Before(f, m - 1)
  <2>1. m # 1 => m - 1 \in 1..n
    BY <1>1
  <2>2. m # 1 => zs[m - 1] = Dbsp!Before(f, m - 1)
    BY <2>1
  <2> HIDE DEF zs
  <2> QED BY <2>2 DEF Dbsp!Before
<1> HIDE DEF zs
<1>8. Dbsp!Par(Dbsp!Integral, Dbsp!Delay, Dbsp!Paired(ps, f))
        = [i \in DOMAIN ps |-> Dbsp!P(Dbsp!Integral(ps)[i], Dbsp!Before(zs, i))]
  BY <1>1, <1>4, <1>5, HalvesApart, ZenonT(60)
<1>9. Dbsp!Par(Dbsp!Integral, Dbsp!Delay, Dbsp!Paired(ps, f))[m] = BodyAnswer(f, m)
  BY <1>1, <1>6, <1>7, <1>8 DEF BodyAnswer
<1>10. Tree(BodyAnswer(f, m))
  <2>1. Dbsp!Integral(s) \in Seq(Elements) /\ Len(Dbsp!Integral(s)) = Len(s)
    BY StreamSums
  <2>2. Dbsp!Integral(s)[m] \in Elements
    BY <1>1, <2>1
  <2>3. Tree(Dbsp!Integral(s)[m])
    BY <2>2, NumbersAreTrees
  <2>4. Tree(IF m = 1 THEN Dbsp!Zero ELSE Dbsp!Before(f, m - 1))
    <3>1. m # 1 => m - 1 \in 1..n
      BY <1>1
    <3> QED BY <1>2, <1>3, <3>1
  <2> QED BY <2>3, <2>4, PairsAreTrees DEF BodyAnswer
<1> QED BY <1>9, <1>10 DEF ps

\* Some stream answers as the feedback does.
LEMMA AnswersExist ==
  ASSUME Modulus \in Nat \ {0}, s \in Seq(Elements)
  PROVE  \E f : /\ f = [n \in 1..Len(s) |-> f[n]]
                /\ \A n \in 1..Len(s) : f[n] = BodyAnswer(f, n) /\ Tree(f[n])
<1> DEFINE Answers(f, m) ==
             /\ f = [n \in 1..m |-> f[n]]
             /\ \A n \in 1..m : f[n] = BodyAnswer(f, n) /\ Tree(f[n])
<1> SUFFICES ASSUME ~\E f : Answers(f, Len(s)) PROVE FALSE
  OBVIOUS
<1> DEFINE D == {m \in 0..Len(s) : ~\E f : Answers(f, m)}
<1>1. D \in SUBSET Nat /\ Len(s) \in D /\ Len(s) \in Nat
  OBVIOUS
<1>2. PICK k \in D : \A j \in D : k <= j
  <2> HIDE DEF D
  <2> QED BY <1>1, Least
<1>3. k # 0
  <2> DEFINE f == [n \in 1..0 |-> Dbsp!Zero]
  <2>1. Answers(f, 0)
    OBVIOUS
  <2> QED BY <1>2, <2>1
<1>4. k \in 1..Len(s) /\ k \in Nat /\ k - 1 \in 0..Len(s) /\ ~(k <= k - 1)
  BY <1>1, <1>2, <1>3
<1>5. PICK f : Answers(f, k - 1)
  <2>1. k - 1 \notin D
    BY <1>2, <1>4
  <2> HIDE DEF Answers
  <2> QED BY <1>4, <2>1
<1> DEFINE g == [n \in 1..k |-> IF n = k THEN BodyAnswer(f, k) ELSE f[n]]
<1>6. ASSUME NEW n \in 1..k PROVE BodyAnswer(g, n) = BodyAnswer(f, n)
  <2>1. n # 1 => n - 1 \in 1..k /\ n - 1 # k
    BY <1>4
  <2>2. n # 1 => Dbsp!Before(g, n - 1) = Dbsp!Before(f, n - 1)
    <3> SUFFICES ASSUME n # 1, n - 1 # 1 PROVE g[n - 1 - 1] = f[n - 1 - 1]
      BY DEF Dbsp!Before
    <3> QED BY <1>4
  <2> HIDE DEF g
  <2> QED BY <2>2 DEF BodyAnswer
<1>7. Tree(BodyAnswer(f, k))
  <2>1. \A i \in 1..(k - 1) : Tree(f[i])
    BY <1>5
  <2>2. k \in 1..k
    BY <1>4
  <2> QED BY <1>4, <2>1, <2>2, BodyAnswers
<1>8. ASSUME NEW n \in 1..k PROVE g[n] = BodyAnswer(g, n) /\ Tree(g[n])
  <2>1. CASE n = k
    BY <1>6, <1>7, <2>1
  <2>2. CASE n # k
    <3>1. n \in 1..(k - 1) /\ g[n] = f[n]
      BY <1>4, <2>2
    <3> QED BY <1>5, <1>6, <3>1
  <2> QED BY <2>1, <2>2
<1>9. g = [n \in 1..k |-> g[n]]
  OBVIOUS
<1>10. Answers(g, k)
  BY <1>8, <1>9
<1> QED BY <1>2, <1>10

\* The memo of the feedback is the stream its equation asks for.
LEMMA FeedbackSolves ==
  ASSUME Modulus \in Nat \ {0}, s \in Seq(Elements)
  PROVE  LET Both(xs) == Dbsp!Par(Dbsp!Integral, Dbsp!Delay, xs)
             alpha == Dbsp!Feedback(Both, s)
         IN  alpha = Both(Dbsp!Paired(s, alpha))
<1> DEFINE Both(xs) == Dbsp!Par(Dbsp!Integral, Dbsp!Delay, xs)
           Tick(f, n) == Both(Dbsp!Paired(SubSeq(s, 1, n), f))[n]
           alpha == CHOOSE f : f = [n \in DOMAIN s |-> Tick(f, n)]
<1>1. DOMAIN s = 1..Len(s) /\ Len(s) \in Nat
  OBVIOUS
<1>2. Dbsp!Feedback(Both, s) = alpha
  BY DEF Dbsp!Feedback
<1>3. ASSUME NEW f, NEW n \in 1..Len(s), \A i \in 1..(n - 1) : Tree(f[i])
      PROVE  Tick(f, n) = BodyAnswer(f, n) /\ Tree(BodyAnswer(f, n))
  <2>1. n \in 1..n
    BY <1>1
  <2> QED BY <1>3, <2>1, BodyAnswers
<1> HIDE DEF Both
<1>4. PICK g : /\ g = [n \in 1..Len(s) |-> g[n]]
               /\ \A n \in 1..Len(s) : g[n] = BodyAnswer(g, n) /\ Tree(g[n])
  BY AnswersExist
<1>5. g = [n \in DOMAIN s |-> Tick(g, n)]
  <2>1. ASSUME NEW n \in 1..Len(s) PROVE g[n] = Tick(g, n)
    <3>1. \A i \in 1..(n - 1) : Tree(g[i])
      <4>1. \A i \in 1..(n - 1) : i \in 1..Len(s)
        BY <1>1
      <4>2. \A i \in 1..Len(s) : Tree(g[i])
        BY <1>4
      <4> QED BY <4>1, <4>2
    <3> HIDE DEF Tick
    <3> QED BY <1>3, <1>4, <3>1
  <2> HIDE DEF Tick
  <2> QED BY <1>1, <1>4, <2>1
<1> HIDE DEF Tick
<1>6. alpha = [n \in DOMAIN s |-> Tick(alpha, n)]
  BY <1>5
<1> HIDE DEF alpha
<1>7. ASSUME NEW n \in 1..Len(s) PROVE Tree(alpha[n])
  <2> SUFFICES ASSUME ~Tree(alpha[n]) PROVE FALSE
    OBVIOUS
  <2> DEFINE D == {i \in 1..Len(s) : ~Tree(alpha[i])}
  <2>1. D \in SUBSET Nat /\ n \in D
    BY <1>1
  <2>2. PICK k \in D : \A j \in D : k <= j
    <3> HIDE DEF D
    <3> QED BY <2>1, Least
  <2>3. k \in 1..Len(s) /\ ~Tree(alpha[k])
    BY <2>2
  <2>4. ASSUME NEW i \in 1..(k - 1) PROVE Tree(alpha[i])
    <3>1. i \in 1..Len(s) /\ ~(k <= i)
      BY <1>1, <2>3
    <3> QED BY <2>2, <3>1
  <2>5. Tree(Tick(alpha, k))
    BY <1>3, <2>3, <2>4
  <2>6. alpha[k] = Tick(alpha, k)
    BY <1>1, <1>6, <2>3
  <2> QED BY <2>3, <2>5, <2>6
<1> DEFINE all == Both(Dbsp!Paired(s, alpha))
<1>8. ASSUME NEW n \in 1..Len(s) PROVE all[n] = alpha[n]
  <2>1. \A i \in 1..(n - 1) : Tree(alpha[i])
    BY <1>1, <1>7
  <2>2. alpha[n] = BodyAnswer(alpha, n)
    BY <1>1, <1>3, <1>6, <2>1
  <2>3. Len(s) \in 1..Len(s) /\ \A i \in 1..(Len(s) - 1) : Tree(alpha[i])
    BY <1>1, <1>7
  <2>4. SubSeq(s, 1, Len(s)) = s
    OBVIOUS
  <2>5. Dbsp!Par(Dbsp!Integral, Dbsp!Delay, Dbsp!Paired(SubSeq(s, 1, Len(s)), alpha))[n] = BodyAnswer(alpha, n)
    BY <2>3, BodyAnswers
  <2> QED BY <2>2, <2>4, <2>5 DEF Both
<1>9. all = [n \in DOMAIN s |-> all[n]]
  <2>1. DOMAIN Dbsp!Paired(s, alpha) = DOMAIN s
    BY DEF Dbsp!Paired
  <2> DEFINE pairs == Dbsp!Paired(s, alpha)
  <2>2. \E val : all = [n \in DOMAIN pairs |-> val[n]]
    <3> DEFINE val == [n \in DOMAIN pairs |->
                         Dbsp!P(Dbsp!Integral([i \in DOMAIN pairs |-> Dbsp!Fst(pairs[i])])[n],
                                Dbsp!Delay([i \in DOMAIN pairs |-> Dbsp!Snd(pairs[i])])[n])]
    <3>1. all = val
      BY DEF Both, Dbsp!Par
    <3> HIDE DEF all, pairs
    <3>2. val = [n \in DOMAIN pairs |-> val[n]]
      OBVIOUS
    <3> HIDE DEF val
    <3> QED BY <3>1, <3>2
  <2> HIDE DEF all, pairs
  <2> QED BY <2>1, <2>2 DEF pairs
<1> HIDE DEF all
<1>10. alpha = [n \in DOMAIN s |-> alpha[n]]
  BY <1>6
<1>11. alpha = all
  BY <1>1, <1>8, <1>9, <1>10
<1> QED BY <1>2, <1>11 DEF all, Both

-----------------------------------------------------------------------------

\* The statuses an order can have: no event leads to Stray, and the typestate has no such struct.
Lived == {"Cart", "Placed", "Shipped", "Delivered", "Cancelled"}

\* w[n] is the value behind the n-th method call along t.
Passes(w, t) ==
  /\ w \in [0..Len(t) -> Lived] /\ w[0] = "Cart"
  /\ \A n \in 1..Len(t) : t[n] \in DOMAIN Life!Methods[w[n - 1]] /\ w[n] = Life!Methods[w[n - 1]][t[n]]

\* Some calls lead along the trail to the order's status.
LifeInv == trail \in Seq(Life!OrderEvent) /\ \E w : Passes(w, trail) /\ w[Len(trail)] = order

\* The methods of a struct are the edges of its status.
LEMMA MethodsAreEdges ==
  ASSUME NEW from \in Lived
  PROVE  /\ \A e, to : <<from, e, to>> \in Life!Edges =>
                 to \in Lived /\ e \in DOMAIN Life!Methods[from] /\ Life!Methods[from][e] = to
         /\ DOMAIN Life!Methods[from] = {edge[2] : edge \in {x \in Life!Edges : x[1] = from}}
<1>1. CASE from = "Cart"
  <2>1. /\ DOMAIN Life!Methods["Cart"] = {"Place", "Cancel"}
        /\ Life!Methods["Cart"]["Place"] = "Placed"
        /\ Life!Methods["Cart"]["Cancel"] = "Cancelled"
    BY DEF Life!Methods
  <2>2. \A e, to : <<"Cart", e, to>> \in Life!Edges => (e = "Place" /\ to = "Placed") \/ (e = "Cancel" /\ to = "Cancelled")
    BY DEF Life!Edges
  <2> DEFINE S == {x \in Life!Edges : x[1] = "Cart"}
  <2>3. S = {<<"Cart", "Place", "Placed">>, <<"Cart", "Cancel", "Cancelled">>}
    BY DEF Life!Edges
  <2> HIDE DEF S
  <2>4. {edge[2] : edge \in S} = {"Place", "Cancel"}
    BY <2>3
  <2> QED BY <1>1, <2>1, <2>2, <2>4 DEF Lived, S
<1>2. CASE from = "Placed"
  <2>1. /\ DOMAIN Life!Methods["Placed"] = {"Ship", "Cancel"}
        /\ Life!Methods["Placed"]["Ship"] = "Shipped"
        /\ Life!Methods["Placed"]["Cancel"] = "Cancelled"
    BY DEF Life!Methods
  <2>2. \A e, to : <<"Placed", e, to>> \in Life!Edges => (e = "Ship" /\ to = "Shipped") \/ (e = "Cancel" /\ to = "Cancelled")
    BY DEF Life!Edges
  <2> DEFINE S == {x \in Life!Edges : x[1] = "Placed"}
  <2>3. S = {<<"Placed", "Ship", "Shipped">>, <<"Placed", "Cancel", "Cancelled">>}
    BY DEF Life!Edges
  <2> HIDE DEF S
  <2>4. {edge[2] : edge \in S} = {"Ship", "Cancel"}
    BY <2>3
  <2> QED BY <1>2, <2>1, <2>2, <2>4 DEF Lived, S
<1>3. CASE from = "Shipped"
  <2>1. /\ DOMAIN Life!Methods["Shipped"] = {"Deliver"}
        /\ Life!Methods["Shipped"]["Deliver"] = "Delivered"
    BY DEF Life!Methods
  <2>2. \A e, to : <<"Shipped", e, to>> \in Life!Edges => (e = "Deliver" /\ to = "Delivered")
    BY DEF Life!Edges
  <2> DEFINE S == {x \in Life!Edges : x[1] = "Shipped"}
  <2>3. S = {<<"Shipped", "Deliver", "Delivered">>}
    BY DEF Life!Edges
  <2> HIDE DEF S
  <2>4. {edge[2] : edge \in S} = {"Deliver"}
    BY <2>3
  <2> QED BY <1>3, <2>1, <2>2, <2>4 DEF Lived, S
<1>4. CASE from = "Delivered"
  BY <1>4 DEF Lived, Life!Edges, Life!Methods
<1>5. CASE from = "Cancelled"
  BY <1>5 DEF Lived, Life!Edges, Life!Methods
<1> QED BY <1>1, <1>2, <1>3, <1>4, <1>5 DEF Lived

\* A Cart with no events behind it is a life.
LEMMA CartIsLife ==
  \E w : Passes(w, <<>>) /\ w[Len(<<>>)] = "Cart"
<1> DEFINE w == [n \in 0..0 |-> "Cart"]
<1>1. Passes(w, <<>>) /\ w[Len(<<>>)] = "Cart"
  BY DEF Passes, Lived
<1> QED BY <1>1

\* A step of the order is a call, a new Cart, or nothing.
LEMMA StepLife ==
  ASSUME LifeInv, [Life!Next]_(Life!vars)
  PROVE  LifeInv'
<1>1. PICK w : Passes(w, trail) /\ w[Len(trail)] = order
  BY DEF LifeInv
<1>2. trail \in Seq(Life!OrderEvent) /\ Len(trail) \in Nat
  BY DEF LifeInv
<1>3. ASSUME NEW e \in Life!OrderEvent, NEW to \in Life!OrderStatus, Life!Fire(e, to) PROVE LifeInv'
  <2> DEFINE m == Len(trail)
             next == [n \in 0..(m + 1) |-> IF n = m + 1 THEN to ELSE w[n]]
  <2>1. /\ trail' \in Seq(Life!OrderEvent) /\ Len(trail') = m + 1 /\ trail'[m + 1] = e
        /\ \A n \in 1..m : trail'[n] = trail[n]
        /\ order' = to /\ <<order, e, to>> \in Life!Edges
    BY <1>2, <1>3 DEF Life!Fire
  <2>2. w \in [0..m -> Lived] /\ w[0] = "Cart" /\ w[m] = order /\ order \in Lived
    BY <1>1, <1>2 DEF Passes
  <2>3. to \in Lived /\ e \in DOMAIN Life!Methods[order] /\ Life!Methods[order][e] = to
    BY <2>1, <2>2, MethodsAreEdges
  <2>4. next \in [0..(m + 1) -> Lived] /\ next[0] = "Cart" /\ next[m + 1] = to
    BY <1>2, <2>2, <2>3
  <2>5. ASSUME NEW n \in 1..(m + 1)
        PROVE  trail'[n] \in DOMAIN Life!Methods[next[n - 1]]
               /\ next[n] = Life!Methods[next[n - 1]][trail'[n]]
    <3>1. CASE n = m + 1
      <4>1. next[n - 1] = order
        BY <1>2, <2>2, <3>1
      <4> QED BY <1>2, <2>1, <2>3, <2>4, <3>1, <4>1
    <3>2. CASE n # m + 1
      <4>1. n \in 1..m /\ next[n] = w[n] /\ next[n - 1] = w[n - 1] /\ trail'[n] = trail[n]
        BY <1>2, <2>1, <3>2
      <4> QED BY <1>1, <4>1 DEF Passes
    <3> QED BY <3>1, <3>2
  <2> HIDE DEF next
  <2>6. Passes(next, trail')
    BY <2>1, <2>4, <2>5 DEF Passes
  <2> QED BY <2>1, <2>4, <2>6 DEF LifeInv
<1>4. CASE Life!Reset
  <2>1. trail' = <<>> /\ order' = "Cart" /\ trail' \in Seq(Life!OrderEvent)
    BY <1>4 DEF Life!Reset
  <2> QED BY <2>1, CartIsLife DEF LifeInv
<1>5. CASE UNCHANGED <<order, trail>>
  BY <1>5 DEF LifeInv
<1>6. ASSUME NEW e \in Life!OrderEvent, Life!Reject(e) PROVE UNCHANGED <<order, trail>>
  BY <1>6 DEF Life!Reject
<1> QED BY <1>3, <1>4, <1>5, <1>6 DEF Life!Next, Life!vars

\* The walk along the methods is the one the invariant names.
LEMMA WalkIsLife ==
  ASSUME LifeInv
  PROVE  Life!TypestateFollows
<1> DEFINE Walked(f, n) ==
             IF n = 0 THEN "Cart"
             ELSE IF f[n - 1] # "no method" /\ trail[n] \in DOMAIN Life!Methods[f[n - 1]]
             THEN Life!Methods[f[n - 1]][trail[n]] ELSE "no method"
           walk == CHOOSE f : f = [n \in 0..Len(trail) |-> Walked(f, n)]
<1>1. PICK w : Passes(w, trail) /\ w[Len(trail)] = order
  BY DEF LifeInv
<1>2. Len(trail) \in Nat /\ w \in [0..Len(trail) -> Lived]
  BY <1>1 DEF LifeInv, Passes
<1>3. \A n \in 0..Len(trail) : w[n] = Walked(w, n)
  <2> SUFFICES ASSUME NEW n \in 0..Len(trail) PROVE w[n] = Walked(w, n)
    OBVIOUS
  <2>1. CASE n = 0
    BY <1>1, <2>1 DEF Passes
  <2>2. CASE n # 0
    <3>1. n \in 1..Len(trail) /\ n - 1 \in 0..Len(trail)
      BY <1>2, <2>2
    <3>2. trail[n] \in DOMAIN Life!Methods[w[n - 1]] /\ w[n] = Life!Methods[w[n - 1]][trail[n]]
      BY <1>1, <3>1 DEF Passes
    <3>3. w[n - 1] # "no method"
      BY <1>2, <3>1 DEF Lived
    <3> QED BY <2>2, <3>2, <3>3
  <2> QED BY <2>1, <2>2
<1> HIDE DEF Walked
<1>4. w = [n \in 0..Len(trail) |-> Walked(w, n)]
  BY <1>2, <1>3
<1>5. walk = [n \in 0..Len(trail) |-> Walked(walk, n)]
  BY <1>4
<1> HIDE DEF walk
<1>6. ASSUME NEW n \in 0..Len(trail), walk[n] # w[n] PROVE FALSE
  <2> DEFINE D == {k \in 0..Len(trail) : walk[k] # w[k]}
  <2>1. D \in SUBSET Nat /\ n \in D
    BY <1>2, <1>6
  <2>2. PICK k \in D : \A j \in D : ~(<<j, k>> \in OpToRel(<, Nat))
    BY <2>1, NatLessThanWellFounded, WFMin
  <2>3. k \in 0..Len(trail) /\ walk[k] = Walked(walk, k) /\ w[k] = Walked(w, k) /\ walk[k] # w[k]
    BY <1>3, <1>5, <2>2
  <2>4. k # 0
    BY <2>3 DEF Walked
  <2>5. k - 1 \in 0..Len(trail) /\ k - 1 < k /\ k - 1 \in Nat /\ k \in Nat
    BY <1>2, <2>3, <2>4
  <2>6. walk[k - 1] = w[k - 1]
    BY <2>2, <2>5 DEF OpToRel
  <2> QED BY <2>3, <2>6 DEF Walked
<1>7. walk[Len(trail)] = order
  BY <1>1, <1>2, <1>6
<1>8. order \in Lived
  BY <1>1, <1>2
<1>9. DOMAIN Life!Methods[order] = {edge[2] : edge \in {x \in Life!Edges : x[1] = order}}
  BY <1>8, MethodsAreEdges
<1> QED BY <1>7, <1>9 DEF Life!TypestateFollows, walk, Walked

-----------------------------------------------------------------------------

\* A stream holds the numbers that arrived.
LEMMA StepStream ==
  ASSUME s \in Seq(Elements), [Dbsp!Next]_s
  PROVE  s' \in Seq(Elements)
<1>1. ASSUME NEW x \in Inputs, Dbsp!Arrive(x) PROVE s' \in Seq(Elements)
  <2>1. Dbsp!I(x) \in Elements /\ s' = Append(s, Dbsp!I(x))
    BY <1>1, GeneratedAssumption DEF Elements, Dbsp!Arrive
  <2> QED BY <2>1
<1> QED BY <1>1 DEF Dbsp!Next

LEMMA LawsHold ==
  ASSUME s \in Seq(Elements)
  PROVE  IncrementalAgrees
<1>1. Modulus \in Nat \ {0}
  BY GeneratedAssumption
<1> DEFINE Both(xs) == Dbsp!Par(Dbsp!Integral, Dbsp!Delay, xs)
           sums == Dbsp!Integral(s)
<1>2. sums \in Seq(Elements) /\ Len(sums) = Len(s) /\ DOMAIN s = 1..Len(s) /\ Len(s) \in Nat
  BY <1>1, StreamSums
<1>3. \A n \in DOMAIN s : Tree(sums[n])
  <2> HIDE DEF sums
  <2> QED BY <1>2, NumbersAreTrees
<1>4. Both([n \in DOMAIN s |-> Dbsp!P(s[n], sums[n])])
        = [n \in DOMAIN s |-> Dbsp!P(sums[n], Dbsp!Before(sums, n))]
  BY <1>1, <1>3, HalvesApart
<1>5. \A n \in DOMAIN s : Dbsp!Delay(sums)[n] = Dbsp!Before(sums, n)
  <2> HIDE DEF sums
  <2>1. DOMAIN sums = DOMAIN s
    BY <1>2
  <2> QED BY <2>1 DEF Dbsp!Delay
<1> DEFINE left == [n \in DOMAIN s |-> Dbsp!P(sums[n], Dbsp!Before(sums, n))]
           right == [n \in DOMAIN s |-> Dbsp!P(sums[n], Dbsp!Delay(sums)[n])]
<1>6. left = right
  <2> HIDE DEF sums
  <2> QED BY <1>5
<1>7. Both([n \in DOMAIN s |-> Dbsp!P(s[n], sums[n])])
        = [n \in DOMAIN s |-> Dbsp!P(sums[n], Dbsp!Delay(sums)[n])]
  BY <1>4, <1>6
<1>8. LET alpha == Dbsp!Feedback(Both, s) IN alpha = Both(Dbsp!Paired(s, alpha))
  BY <1>1, FeedbackSolves
<1>9. Dbsp!IncrementalAgrees /\ Dbsp!SumsUndoDifferences
  BY <1>1, Agreement
<1>10. Dbsp!StreamLaws
  BY <1>7, <1>8, <1>9 DEF Dbsp!StreamLaws
<1> QED BY <1>9, <1>10 DEF IncrementalAgrees

\* For every modulus, input and length: fed with the changes, the emitted incremental circuit
\* gives the changes of the batch circuit's result, sums and differences are inverse, a pair
\* runs each circuit on its own half and a feedback solves its equation
\* (circuit_generated.rs; its certificate Dbsp.incrementalize_ok is about unbounded integers).
THEOREM IncrementalNeverDrifts == EmittedSpec => []IncrementalAgrees
<1> DEFINE Fed == s \in Seq(Elements)
<1>1. EmittedInit => Fed
  BY DEF EmittedInit, Dbsp!Init
<1>2. Fed /\ [EmittedNext]_<<s, order, trail, fired>> => Fed'
  BY StepStream DEF EmittedNext
<1>3. Fed => IncrementalAgrees
  BY LawsHold
<1> QED BY <1>1, <1>2, <1>3, PTL DEF EmittedSpec

\* Whatever events are fired, calling the methods along the accepted ones type-checks, ends
\* in a value of the order's status, and its methods are the events the table would take
\* (order_typestate_generated.rs against order_machine_generated.rs).
THEOREM TypestateNeverDrifts == EmittedSpec => []TypestateFollows
<1>1. EmittedInit => LifeInv
  BY CartIsLife DEF EmittedInit, Life!Init, LifeInv
<1>2. LifeInv /\ [EmittedNext]_<<s, order, trail, fired>> => LifeInv'
  BY StepLife DEF EmittedNext, Life!vars
<1>3. LifeInv => TypestateFollows
  BY WalkIsLife DEF TypestateFollows
<1> QED BY <1>1, <1>2, <1>3, PTL DEF EmittedSpec

-----------------------------------------------------------------------------
(* Guest strings.                                                          *)

\* Of the size of a byte, and of four bytes of UTF-8.
Octet == {n \in Nat : n < 256}
Unicode == {n \in Nat : n < 2097152}

\* The bytes of a character, range by range.
LEMMA EncodeIs ==
  ASSUME NEW cp \in Nat
  PROVE  /\ cp < 128 => Encode(cp) = <<cp>>
         /\ cp >= 128 /\ cp < 2048 => Encode(cp) = <<192 + cp \div 64, Cont(cp, 1)>>
         /\ cp >= 2048 /\ cp < 65536 =>
              Encode(cp) = <<224 + cp \div 4096, Cont(cp, 64), Cont(cp, 1)>>
         /\ cp >= 65536 =>
              Encode(cp) = <<240 + cp \div 262144, Cont(cp, 4096), Cont(cp, 64), Cont(cp, 1)>>
<1> DEFINE one == <<cp>>
           two == <<192 + cp \div 64, Cont(cp, 1)>>
           three == <<224 + cp \div 4096, Cont(cp, 64), Cont(cp, 1)>>
           four == <<240 + cp \div 262144, Cont(cp, 4096), Cont(cp, 64), Cont(cp, 1)>>
<1>1. Encode(cp) = CASE cp < 128 -> one [] cp >= 128 /\ cp < 2048 -> two
                     [] cp >= 2048 /\ cp < 65536 -> three [] cp >= 65536 -> four
  BY SMT DEF Encode
<1> HIDE DEF one, two, three, four
<1>2. /\ cp < 128 => Encode(cp) = one
      /\ cp >= 128 /\ cp < 2048 => Encode(cp) = two
      /\ cp >= 2048 /\ cp < 65536 => Encode(cp) = three
      /\ cp >= 65536 => Encode(cp) = four
  BY SMT, <1>1
<1> QED BY SMT, <1>2 DEF one, two, three, four

\* The two passes on one character.
LEMMA EncodeFacts ==
  ASSUME NEW cp \in Unicode
  PROVE  /\ EncodedBytes(cp) \in Nat /\ EncodedBytes(cp) >= 1 /\ (EncodedBytes(cp) = 1 <=> cp < 128)
         /\ Encode(cp) \in Seq(Octet) /\ Len(Encode(cp)) = EncodedBytes(cp)
<1> DEFINE S == {bound \in {128, 2048, 65536} : cp >= bound}
<1>0. cp \in Nat /\ cp < 2097152
  BY SMT DEF Unicode
<1>c. EncodedBytes(cp) = 1 + Cardinality(S)
  BY DEF EncodedBytes
<1>s. \A x : x \in S <=> (x = 128 /\ cp >= 128) \/ (x = 2048 /\ cp >= 2048) \/ (x = 65536 /\ cp >= 65536)
  BY SMT
<1> HIDE DEF S
<1>n. /\ Cardinality({}) = 0 /\ Cardinality({128}) = 1
      /\ Cardinality({128} \cup {2048}) = 2 /\ Cardinality(({128} \cup {2048}) \cup {65536}) = 3
  <2> DEFINE u == 128
             v == 2048
             w == 65536
  <2>1. u # v /\ u # w /\ v # w
    BY SMT
  <2> HIDE DEF u, v, w
  <2>2. IsFiniteSet({u}) /\ Cardinality({u}) = 1
    BY FS_Singleton
  <2>3. v \notin {u} /\ w \notin {u} \cup {v}
    BY <2>1
  <2>4. IsFiniteSet({u} \cup {v}) /\ Cardinality({u} \cup {v}) = 2
    BY <2>2, <2>3, FS_AddElement
  <2>5. Cardinality(({u} \cup {v}) \cup {w}) = 3
    BY <2>3, <2>4, FS_AddElement
  <2> QED BY SMT, <2>2, <2>4, <2>5, FS_EmptySet DEF u, v, w
<1>1. \A k \in {1, 64, 4096} : Cont(cp, k) \in Octet
  BY SMT, <1>0 DEF Cont, Octet
<1>2. CASE cp < 128
  <2>1. \A x : x \in S <=> x \in {}
    BY SMT, <1>0, <1>2, <1>s
  <2>2. EncodedBytes(cp) = 1
    <3>1. S = {}
      BY SMT, <2>1
    <3> QED BY SMT, <3>1, <1>c, <1>n
  <2>3. Encode(cp) = <<cp>>
    BY SMT, <1>0, <1>2, EncodeIs
  <2>4. cp \in Octet
    BY SMT, <1>0, <1>2 DEF Octet
  <2> QED BY SMT, <1>2, <2>2, <2>3, <2>4
<1>3. CASE cp >= 128 /\ cp < 2048
  <2>1. \A x : x \in S <=> x \in {128}
    BY SMT, <1>0, <1>3, <1>s
  <2>2. EncodedBytes(cp) = 2
    <3>1. S = {128}
      BY SMT, <2>1
    <3> QED BY SMT, <3>1, <1>c, <1>n
  <2>3. Encode(cp) = <<192 + cp \div 64, Cont(cp, 1)>>
    BY SMT, <1>0, <1>3, EncodeIs
  <2>4. 192 + cp \div 64 \in Octet /\ ~(cp < 128)
    BY SMT, <1>0, <1>3 DEF Octet
  <2> QED BY SMT, <1>1, <2>2, <2>3, <2>4
<1>4. CASE cp >= 2048 /\ cp < 65536
  <2>1. \A x : x \in S <=> x \in {128} \cup {2048}
    BY SMT, <1>0, <1>4, <1>s
  <2>2. EncodedBytes(cp) = 3
    <3>1. S = {128} \cup {2048}
      BY SMT, <2>1
    <3> QED BY SMT, <3>1, <1>c, <1>n
  <2>3. Encode(cp) = <<224 + cp \div 4096, Cont(cp, 64), Cont(cp, 1)>>
    BY SMT, <1>0, <1>4, EncodeIs
  <2>4. 224 + cp \div 4096 \in Octet /\ ~(cp < 128)
    BY SMT, <1>0, <1>4 DEF Octet
  <2> QED BY SMT, <1>1, <2>2, <2>3, <2>4
<1>5. CASE cp >= 65536
  <2>1. \A x : x \in S <=> x \in ({128} \cup {2048}) \cup {65536}
    BY SMT, <1>0, <1>5, <1>s
  <2>2. EncodedBytes(cp) = 4
    <3>1. S = ({128} \cup {2048}) \cup {65536}
      BY SMT, <2>1
    <3> QED BY SMT, <3>1, <1>c, <1>n
  <2>3. Encode(cp) = <<240 + cp \div 262144, Cont(cp, 4096), Cont(cp, 64), Cont(cp, 1)>>
    BY SMT, <1>0, <1>5, EncodeIs
  <2>4. 240 + cp \div 262144 \in Octet /\ ~(cp < 128)
    BY SMT, <1>0, <1>5 DEF Octet
  <2> QED BY SMT, <1>1, <2>2, <2>3, <2>4
<1> QED BY SMT, <1>0, <1>2, <1>3, <1>4, <1>5

\* The first pass, character by character.
Counts(list, n) ==
  /\ n \in [0..Len(list) -> Nat] /\ n[0] = 0
  /\ \A i \in 1..Len(list) : n[i] = n[i - 1] + EncodedBytes(list[i])

LEMMA CountedIs ==
  ASSUME NEW list \in Seq(Unicode)
  PROVE  \E n : Counts(list, n) /\ Counted(list) = n[Len(list)]
<1> DEFINE N == Len(list)
           Body(f) == [i \in 0..N |-> IF i = 0 THEN 0 ELSE f[i - 1] + EncodedBytes(list[i])]
           G == [p \in (1..N) \X Nat |-> p[2] + EncodedBytes(list[p[1]])]
           r == Rec(Nat, 0, N, G)
           n == CHOOSE f : f = Body(f)
<1>1. N \in Nat /\ 0 \in Nat /\ \A i \in 1..N : EncodedBytes(list[i]) \in Nat
  BY EncodeFacts
<1>2. G \in [(1..N) \X Nat -> Nat]
  BY <1>1
<1>3. r \in [0..N -> Nat] /\ r[0] = 0 /\ \A i \in 1..N : r[i] = G[<<i, r[i - 1]>>]
  <2>1. Recurs(r, Nat, 0, N, G)
    <3> HIDE DEF N, G
    <3> QED BY <1>1, <1>2, Recursion
  <2> HIDE DEF r, G
  <2> QED BY <2>1 DEF Recurs
<1> HIDE DEF r
<1>4. r = Body(r)
  <2>1. \A i \in 0..N : r[i] = IF i = 0 THEN 0 ELSE r[i - 1] + EncodedBytes(list[i])
    <3> SUFFICES ASSUME NEW i \in 0..N, i # 0 PROVE r[i] = r[i - 1] + EncodedBytes(list[i])
      BY <1>3
    <3>1. i \in 1..N /\ i - 1 \in 0..N
      BY <1>1
    <3>2. r[i - 1] \in Nat
      BY <1>3, <3>1
    <3> QED BY <1>3, <3>1, <3>2
  <2>2. r = [i \in 0..N |-> r[i]]
    BY <1>3
  <2> QED BY <2>1, <2>2
<1>5. n = Body(n)
  <2> HIDE DEF Body
  <2> QED BY <1>4
<1>6. Counted(list) = n[N]
  BY DEF Counted
<1> HIDE DEF n
<1>7. /\ DOMAIN n = 0..N /\ n = [i \in 0..N |-> n[i]]
      /\ \A i \in 0..N : n[i] = IF i = 0 THEN 0 ELSE n[i - 1] + EncodedBytes(list[i])
  BY <1>5
<1> DEFINE T == {i \in 0..N : n[i] \in Nat}
<1>8. 0 \in T
  BY <1>1, <1>7
<1>9. ASSUME NEW i \in 0..(N - 1), i \in T PROVE i + 1 \in T
  <2> DEFINE k == i + 1
  <2>1. k \in 1..N /\ k \in 0..N /\ k # 0 /\ k - 1 = i
    BY <1>1
  <2> HIDE DEF k
  <2>2. n[k] = n[i] + EncodedBytes(list[k]) /\ EncodedBytes(list[k]) \in Nat /\ n[i] \in Nat
    BY <1>1, <1>7, <1>9, <2>1
  <2>3. k \in T
    BY <2>1, <2>2
  <2> QED BY <2>3 DEF k
<1>10. 0..N \subseteq T
  <2> HIDE DEF T
  <2> QED BY <1>1, <1>8, <1>9, Climb
<1>11. \A i \in 1..N : n[i] = n[i - 1] + EncodedBytes(list[i])
  <2> SUFFICES ASSUME NEW i \in 1..N PROVE n[i] = n[i - 1] + EncodedBytes(list[i])
    OBVIOUS
  <2>1. i \in 0..N /\ i # 0
    BY <1>1
  <2> HIDE DEF N
  <2> QED BY <1>7, <2>1
<1>12. n \in [0..N -> Nat]
  <2>1. \A i \in 0..N : n[i] \in Nat
    BY <1>10
  <2> HIDE DEF N
  <2> QED BY <1>7, <2>1
<1>13. n[0] = 0
  BY <1>1, <1>7
<1>14. Counts(list, n)
  <2> HIDE DEF T
  <2> QED BY <1>11, <1>12, <1>13 DEF Counts
<1> HIDE DEF Body
<1> QED BY <1>6, <1>14

\* The pieces the second pass writes.
Pieces(list) == [i \in DOMAIN list |-> Encode(list[i])]
Bytes(list) == RunTogether(Octet, Pieces(list))

LEMMA BytesAre ==
  ASSUME NEW list \in Seq(Unicode)
  PROVE  /\ Bytes(list) \in [0..Len(list) -> Seq(Octet)] /\ Bytes(list)[0] = <<>>
         /\ \A i \in 1..Len(list) : Bytes(list)[i] = Bytes(list)[i - 1] \o Encode(list[i])
         /\ Encoded(list) = Bytes(list)[Len(list)] /\ Encoded(list) \in Seq(Octet)
<1> DEFINE ss == Pieces(list)
<1>1. \A i \in DOMAIN list : Encode(list[i]) \in Seq(Octet)
  BY EncodeFacts
<1>2. ss \in Seq(Seq(Octet)) /\ Len(ss) = Len(list) /\ \A i \in 1..Len(list) : ss[i] = Encode(list[i])
  BY <1>1 DEF Pieces
<1>3. Encoded(list) = FlattenSeq(ss)
  BY DEF Encoded, Pieces
<1> HIDE DEF ss
<1>4. Encoded(list) = RunTogether(Octet, ss)[Len(ss)] /\ Encoded(list) \in Seq(Octet)
  BY <1>2, <1>3, FlattenIs
<1>5. /\ RunTogether(Octet, ss) \in [0..Len(ss) -> Seq(Octet)] /\ RunTogether(Octet, ss)[0] = <<>>
      /\ \A i \in 1..Len(ss) : RunTogether(Octet, ss)[i] = RunTogether(Octet, ss)[i - 1] \o ss[i]
  BY <1>2, RunTogetherIs
<1> QED BY <1>2, <1>4, <1>5 DEF Bytes, ss

\* What is written fills what was counted.
LEMMA PassesAgree ==
  ASSUME NEW list \in Seq(Unicode)
  PROVE  /\ Counted(list) = Len(Encoded(list))
         /\ Counted(list) = Len(list) <=> \A i \in DOMAIN list : list[i] < 128
<1> DEFINE N == Len(list)
           f == Bytes(list)
           Plain(m) == \A j \in 1..m : list[j] < 128
<1>1. N \in Nat /\ DOMAIN list = 1..N /\ \A i \in 1..N : list[i] \in Unicode
  OBVIOUS
<1>2. PICK n : Counts(list, n) /\ Counted(list) = n[N]
  BY CountedIs
<1>3. /\ n \in [0..N -> Nat] /\ n[0] = 0
      /\ \A i \in 1..N : n[i] = n[i - 1] + EncodedBytes(list[i])
  BY <1>2 DEF Counts
<1>4. /\ f \in [0..N -> Seq(Octet)] /\ f[0] = <<>> /\ Encoded(list) = f[N]
      /\ \A i \in 1..N : f[i] = f[i - 1] \o Encode(list[i])
  BY BytesAre
<1> DEFINE T == {i \in 0..N : n[i] = Len(f[i]) /\ n[i] >= i /\ (n[i] = i <=> Plain(i))}
<1> HIDE DEF f, N
<1>5. 0 \in T
  BY <1>1, <1>3, <1>4
<1>6. ASSUME NEW i \in 0..(N - 1), i \in T PROVE i + 1 \in T
  <2> DEFINE k == i + 1
             cp == list[k]
  <2>1. k \in 1..N /\ k \in 0..N /\ k - 1 = i /\ k = i + 1 /\ i \in Nat /\ i \in 0..N
    BY <1>1
  <2> HIDE DEF k
  <2>2. n[k] = n[i] + EncodedBytes(cp) /\ f[k] = f[i] \o Encode(cp) /\ n[i] \in Nat
    BY <1>3, <1>4, <2>1
  <2>3. /\ EncodedBytes(cp) \in Nat /\ EncodedBytes(cp) >= 1 /\ (EncodedBytes(cp) = 1 <=> cp < 128)
        /\ Encode(cp) \in Seq(Octet) /\ Len(Encode(cp)) = EncodedBytes(cp)
    BY <1>1, <2>1, EncodeFacts
  <2>4. f[i] \in Seq(Octet) /\ n[i] = Len(f[i]) /\ n[i] >= i /\ (n[i] = i <=> Plain(i))
    BY <1>4, <1>6, <2>1
  <2> HIDE DEF cp
  <2>5. n[k] = Len(f[k])
    <3> DEFINE a == f[i]
               b == Encode(cp)
    <3>1. a \in Seq(Octet) /\ b \in Seq(Octet) /\ f[k] = a \o b /\ n[k] = Len(a) + Len(b)
      BY <2>2, <2>3, <2>4
    <3> HIDE DEF a, b
    <3>2. Len(a \o b) = Len(a) + Len(b)
      BY <3>1
    <3> QED BY <3>1, <3>2
  <2>6. Plain(k) <=> Plain(i) /\ cp < 128
    <3>1. \A j : j \in 1..k <=> j \in 1..i \/ j = k
      BY <2>1
    <3>2. list[k] = cp
      BY DEF cp
    <3> QED BY <3>1, <3>2
  <2> HIDE DEF Plain
  <2>7. n[k] >= k /\ (n[k] = k <=> Plain(k))
    BY <2>1, <2>2, <2>3, <2>4, <2>6
  <2>8. k \in T
    BY <2>1, <2>5, <2>7
  <2> QED BY <2>8 DEF k
<1> HIDE DEF T
<1>7. 0..N \subseteq T
  BY <1>1, <1>5, <1>6, Climb
<1>8. N \in T
  BY <1>1, <1>7
<1> QED BY <1>1, <1>2, <1>4, <1>8 DEF T, N

\* What is written of a chain that is one character longer.
LEMMA EncodedAppend ==
  ASSUME NEW list \in Seq(Unicode), NEW cp \in Unicode
  PROVE  /\ Encoded(<<>>) = <<>>
         /\ Encoded(Append(list, cp)) = Encoded(list) \o Encode(cp)
<1> DEFINE long == Append(list, cp)
           N == Len(list)
           f == Bytes(list)
           g == Bytes(long)
           none == Bytes(<<>>)
<1>1. /\ long \in Seq(Unicode) /\ N \in Nat /\ Len(long) = N + 1 /\ long[N + 1] = cp
      /\ \A i \in 1..N : long[i] = list[i]
  OBVIOUS
<1>2. Encoded(<<>>) = <<>>
  <2>1. <<>> \in Seq(Unicode) /\ Len(<<>>) = 0
    OBVIOUS
  <2>2. none[0] = <<>> /\ Encoded(<<>>) = none[Len(<<>>)]
    <3> HIDE DEF none
    <3> QED BY <2>1, BytesAre DEF none
  <2> QED BY <2>1, <2>2
<1>3. /\ f \in [0..N -> Seq(Octet)] /\ f[0] = <<>> /\ Encoded(list) = f[N]
      /\ \A i \in 1..N : f[i] = f[i - 1] \o Encode(list[i])
  BY BytesAre
<1>4. /\ g \in [0..(N + 1) -> Seq(Octet)] /\ g[0] = <<>> /\ Encoded(long) = g[N + 1]
      /\ \A i \in 1..(N + 1) : g[i] = g[i - 1] \o Encode(long[i])
  <2> HIDE DEF long
  <2> QED BY <1>1, BytesAre
<1> HIDE DEF f, g, N, long
<1> DEFINE T == {n \in 0..N : g[n] = f[n]}
<1>5. 0 \in T
  BY <1>1, <1>3, <1>4
<1>6. ASSUME NEW n \in 0..(N - 1), n \in T PROVE n + 1 \in T
  <2> DEFINE k == n + 1
  <2>1. k \in 1..N /\ k \in 1..(N + 1) /\ k \in 0..N /\ k - 1 = n
    BY <1>1
  <2> HIDE DEF k
  <2>2. f[k] = f[n] \o Encode(list[k]) /\ g[k] = g[n] \o Encode(list[k])
    BY <1>1, <1>3, <1>4, <2>1
  <2>3. k \in T
    BY <1>6, <2>1, <2>2
  <2> QED BY <2>3 DEF k
<1>7. N \in T
  <2> HIDE DEF T
  <2>1. 0..N \subseteq T
    BY <1>1, <1>5, <1>6, Climb
  <2> QED BY <1>1, <2>1
<1>8. g[N + 1] = g[N] \o Encode(cp)
  <2>1. N + 1 \in 1..(N + 1) /\ (N + 1) - 1 = N
    BY <1>1
  <2> QED BY <1>1, <1>4, <2>1
<1> QED BY <1>2, <1>3, <1>4, <1>7, <1>8 DEF long

\* What is written of two chains run together.
LEMMA EncodedConcat ==
  ASSUME NEW x \in Seq(Unicode), NEW y \in Seq(Unicode)
  PROVE  Encoded(x \o y) = Encoded(x) \o Encoded(y)
<1> DEFINE P == {z \in Seq(Unicode) : Encoded(x \o z) = Encoded(x) \o Encoded(z)}
<1>1. Encoded(x) \in Seq(Octet)
  BY BytesAre
<1>2. <<>> \in P
  <2>1. x \o <<>> = x /\ <<>> \in Seq(Unicode)
    OBVIOUS
  <2>2. Encoded(x) \o <<>> = Encoded(x)
    BY <1>1
  <2>3. Encoded(<<>>) = <<>>
    <3>1. 0 \in Unicode
      BY SMT DEF Unicode
    <3> QED BY <2>1, <3>1, EncodedAppend
  <2> QED BY <2>1, <2>2, <2>3
<1>3. ASSUME NEW z \in Seq(Unicode), NEW cp \in Unicode, z \in P PROVE Append(z, cp) \in P
  <2> DEFINE a == Encoded(x)
             b == Encoded(z)
             c == Encode(cp)
  <2>1. b \in Seq(Octet) /\ c \in Seq(Octet) /\ x \o z \in Seq(Unicode)
    <3>1. b \in Seq(Octet)
      BY BytesAre
    <3>2. c \in Seq(Octet)
      BY EncodeFacts
    <3>3. x \o z \in Seq(Unicode)
      OBVIOUS
    <3> QED BY <3>1, <3>2, <3>3
  <2>2. x \o Append(z, cp) = Append(x \o z, cp)
    OBVIOUS
  <2>3. Encoded(Append(x \o z, cp)) = Encoded(x \o z) \o c /\ Encoded(Append(z, cp)) = b \o c
    BY <2>1, EncodedAppend
  <2>4. Encoded(x \o z) = a \o b
    BY <1>3
  <2>5. (a \o b) \o c = a \o (b \o c)
    <3> HIDE DEF a, b, c
    <3>1. a \in Seq(Octet) /\ b \in Seq(Octet) /\ c \in Seq(Octet)
      BY <1>1, <2>1 DEF a
    <3> QED BY SMTT(60), <3>1
  <2>6. Append(z, cp) \in Seq(Unicode)
    OBVIOUS
  <2> HIDE DEF a, b, c
  <2> QED BY <2>2, <2>3, <2>4, <2>5, <2>6 DEF a
<1>4. y \in P
  <2> HIDE DEF P
  <2> QED BY <1>2, <1>3, Lengthen
<1> QED BY <1>4

\* Where reading back can be.
Decoding == [text : Seq(Nat), now : Nat, owed : 0..4]
Between(text) == [text |-> text, now |-> 0, owed |-> 0]

LEMMA FollowingType ==
  ASSUME NEW r \in Decoding, NEW byte \in Octet
  PROVE  Following(r, byte) \in Decoding
<1> DEFINE bits == 64 * r.now + (byte % 64)
           read(cp) == [text |-> Append(r.text, cp), now |-> 0, owed |-> 0]
           begun(value, owed) == [text |-> r.text, now |-> value, owed |-> owed]
           follows == byte >= 128 /\ byte < 192
<1>1. r = [text |-> r.text, now |-> r.now, owed |-> r.owed] /\ r.text \in Seq(Nat) /\ r.now \in Nat /\ r.owed \in 0..4
  BY DEF Decoding
<1>2. byte \in Nat /\ byte % 8 \in Nat /\ byte % 16 \in Nat /\ byte % 32 \in Nat /\ byte % 64 \in Nat
  BY SMT DEF Octet
<1>3. bits \in Nat
  BY SMTT(60), <1>1, <1>2
<1>4. \A v \in Nat : \A o \in 0..4 : begun(v, o) \in Decoding
  BY <1>1 DEF Decoding
<1>5. \A v \in Nat : read(v) \in Decoding
  BY <1>1 DEF Decoding
<1>6. \/ Following(r, byte) = read(byte)
      \/ Following(r, byte) = begun(byte % 32, 1)
      \/ Following(r, byte) = begun(byte % 16, 2)
      \/ Following(r, byte) = begun(byte % 8, 3)
      \/ Following(r, byte) = read(bits)
      \/ r.owed \in {2, 3} /\ Following(r, byte) = begun(bits, r.owed - 1)
      \/ Following(r, byte) = begun(0, 4)
  <2> HIDE DEF read, begun
  <2>1. Following(r, byte) =
          CASE r.owed = 0 /\ byte < 128 -> read(byte)
            [] r.owed = 0 /\ byte >= 192 /\ byte < 224 -> begun(byte % 32, 1)
            [] r.owed = 0 /\ byte >= 224 /\ byte < 240 -> begun(byte % 16, 2)
            [] r.owed = 0 /\ byte >= 240 /\ byte < 248 -> begun(byte % 8, 3)
            [] r.owed = 1 /\ follows -> read(bits)
            [] r.owed \in {2, 3} /\ follows -> begun(bits, r.owed - 1)
            [] OTHER -> begun(0, 4)
    BY DEF Following, read, begun
  <2> HIDE DEF bits
  <2> QED BY <2>1
<1> HIDE DEF bits, read, begun
<1>7. 0 \in Nat /\ 1 \in 0..4 /\ 2 \in 0..4 /\ 3 \in 0..4 /\ 4 \in 0..4 /\ (r.owed \in {2, 3} => r.owed - 1 \in 0..4)
  OBVIOUS
<1> QED BY <1>2, <1>3, <1>4, <1>5, <1>6, <1>7

\* Where it is after each byte.
Reads(octets, r) ==
  /\ r \in [0..Len(octets) -> Decoding] /\ r[0] = Between(<<>>)
  /\ \A i \in 1..Len(octets) : r[i] = Following(r[i - 1], octets[i])

LEMMA DecodedIs ==
  ASSUME NEW octets \in Seq(Octet)
  PROVE  \E r : Reads(octets, r) /\ Decoded(octets) = r[Len(octets)]
<1> DEFINE N == Len(octets)
           a == Between(<<>>)
           Body(f) == [i \in 0..N |-> IF i = 0 THEN a ELSE Following(f[i - 1], octets[i])]
           G == [p \in (1..N) \X Decoding |-> Following(p[2], octets[p[1]])]
           h == Rec(Decoding, a, N, G)
           r == CHOOSE f : f = Body(f)
<1>1. N \in Nat /\ a \in Decoding /\ \A i \in 1..N : octets[i] \in Octet
  BY DEF Between, Decoding
<1> HIDE DEF a
<1>2. G \in [(1..N) \X Decoding -> Decoding]
  <2>1. \A p \in (1..N) \X Decoding : Following(p[2], octets[p[1]]) \in Decoding
    BY <1>1, FollowingType
  <2> QED BY <2>1
<1>3. h \in [0..N -> Decoding] /\ h[0] = a /\ \A i \in 1..N : h[i] = G[<<i, h[i - 1]>>]
  <2>1. Recurs(h, Decoding, a, N, G)
    <3> HIDE DEF N, G
    <3> QED BY <1>1, <1>2, Recursion
  <2> HIDE DEF h, G
  <2> QED BY <2>1 DEF Recurs
<1> HIDE DEF h
<1>4. h = Body(h)
  <2>1. \A i \in 0..N : h[i] = IF i = 0 THEN a ELSE Following(h[i - 1], octets[i])
    <3> SUFFICES ASSUME NEW i \in 0..N, i # 0 PROVE h[i] = Following(h[i - 1], octets[i])
      BY <1>3
    <3>1. i \in 1..N /\ i - 1 \in 0..N
      BY <1>1
    <3>2. h[i - 1] \in Decoding
      BY <1>3, <3>1
    <3> QED BY <1>3, <3>1, <3>2
  <2>2. h = [i \in 0..N |-> h[i]]
    BY <1>3
  <2> QED BY <2>1, <2>2
<1>5. r = Body(r)
  <2> HIDE DEF Body
  <2> QED BY <1>4
<1>6. Decoded(octets) = r[N]
  BY DEF Decoded, a, Between
<1> HIDE DEF r
<1>7. /\ DOMAIN r = 0..N /\ r = [i \in 0..N |-> r[i]]
      /\ \A i \in 0..N : r[i] = IF i = 0 THEN a ELSE Following(r[i - 1], octets[i])
  BY <1>5
<1> DEFINE T == {i \in 0..N : r[i] \in Decoding}
<1>8. 0 \in T
  BY <1>1, <1>7
<1>9. ASSUME NEW i \in 0..(N - 1), i \in T PROVE i + 1 \in T
  <2> DEFINE k == i + 1
  <2>1. k \in 1..N /\ k \in 0..N /\ k # 0 /\ k - 1 = i
    BY <1>1
  <2> HIDE DEF k
  <2>2. r[k] = Following(r[i], octets[k]) /\ octets[k] \in Octet /\ r[i] \in Decoding
    BY <1>1, <1>7, <1>9, <2>1
  <2>3. r[k] \in Decoding
    BY <2>2, FollowingType
  <2>4. k \in T
    BY <2>1, <2>3
  <2> QED BY <2>4 DEF k
<1>10. 0..N \subseteq T
  <2> HIDE DEF T
  <2> QED BY <1>1, <1>8, <1>9, Climb
<1>11. \A i \in 1..N : r[i] = Following(r[i - 1], octets[i])
  <2> SUFFICES ASSUME NEW i \in 1..N PROVE r[i] = Following(r[i - 1], octets[i])
    OBVIOUS
  <2>1. i \in 0..N /\ i # 0
    BY <1>1
  <2> HIDE DEF N
  <2> QED BY <1>7, <2>1
<1>12. r \in [0..N -> Decoding]
  <2>1. \A i \in 0..N : r[i] \in Decoding
    BY <1>10
  <2> HIDE DEF N
  <2> QED BY <1>7, <2>1
<1>13. r[0] = a
  BY <1>1, <1>7
<1>14. Reads(octets, r)
  <2> HIDE DEF T
  <2> QED BY <1>11, <1>12, <1>13 DEF Reads, a
<1> HIDE DEF Body
<1> QED BY <1>6, <1>14

\* One byte more.
LEMMA DecodedAppend ==
  ASSUME NEW octets \in Seq(Octet), NEW byte \in Octet
  PROVE  /\ Decoded(<<>>) = Between(<<>>)
         /\ Decoded(octets) \in Decoding
         /\ Decoded(Append(octets, byte)) = Following(Decoded(octets), byte)
<1> DEFINE long == Append(octets, byte)
           N == Len(octets)
<1>1. /\ long \in Seq(Octet) /\ N \in Nat /\ Len(long) = N + 1 /\ long[N + 1] = byte
      /\ \A i \in 1..N : long[i] = octets[i]
  OBVIOUS
<1>2. Decoded(<<>>) = Between(<<>>)
  <2>1. <<>> \in Seq(Octet) /\ Len(<<>>) = 0
    OBVIOUS
  <2>2. PICK r : Reads(<<>>, r) /\ Decoded(<<>>) = r[Len(<<>>)]
    BY <2>1, DecodedIs
  <2> QED BY <2>1, <2>2 DEF Reads
<1>3. PICK f : Reads(octets, f) /\ Decoded(octets) = f[N]
  BY DecodedIs
<1>4. PICK g : Reads(long, g) /\ Decoded(long) = g[N + 1]
  <2> HIDE DEF long, N
  <2> QED BY <1>1, DecodedIs
<1>5. /\ f \in [0..N -> Decoding] /\ f[0] = Between(<<>>)
      /\ \A i \in 1..N : f[i] = Following(f[i - 1], octets[i])
  BY <1>3 DEF Reads
<1>6. /\ g \in [0..(N + 1) -> Decoding] /\ g[0] = Between(<<>>)
      /\ \A i \in 1..(N + 1) : g[i] = Following(g[i - 1], long[i])
  <2> HIDE DEF long
  <2> QED BY <1>1, <1>4 DEF Reads
<1> HIDE DEF N, long
<1> DEFINE T == {n \in 0..N : g[n] = f[n]}
<1>7. 0 \in T
  BY <1>1, <1>5, <1>6
<1>8. ASSUME NEW n \in 0..(N - 1), n \in T PROVE n + 1 \in T
  <2> DEFINE k == n + 1
  <2>1. k \in 1..N /\ k \in 1..(N + 1) /\ k \in 0..N /\ k - 1 = n
    BY <1>1
  <2> HIDE DEF k
  <2>2. f[k] = Following(f[n], octets[k]) /\ g[k] = Following(g[n], octets[k])
    BY <1>1, <1>5, <1>6, <2>1
  <2>3. k \in T
    BY <1>8, <2>1, <2>2
  <2> QED BY <2>3 DEF k
<1>9. N \in T
  <2> HIDE DEF T
  <2>1. 0..N \subseteq T
    BY <1>1, <1>7, <1>8, Climb
  <2> QED BY <1>1, <2>1
<1>10. g[N + 1] = Following(g[N], byte)
  <2>1. N + 1 \in 1..(N + 1) /\ (N + 1) - 1 = N
    BY <1>1
  <2> QED BY <1>1, <1>6, <2>1
<1>11. f[N] \in Decoding
  BY <1>1, <1>5
<1> QED BY <1>2, <1>3, <1>4, <1>9, <1>10, <1>11 DEF long

Inside(text, now, owed) == [text |-> text, now |-> now, owed |-> owed]

\* A byte that begins a character.
LEMMA Begins ==
  ASSUME NEW t, NEW q \in Nat
  PROVE  /\ q < 128 => Following(Between(t), q) = Between(Append(t, q))
         /\ q < 32 => Following(Between(t), 192 + q) = Inside(t, q, 1)
         /\ q < 16 => Following(Between(t), 224 + q) = Inside(t, q, 2)
         /\ q < 8 => Following(Between(t), 240 + q) = Inside(t, q, 3)
<1> DEFINE r == Between(t)
<1>1. r.text = t /\ r.now = 0 /\ r.owed = 0
  BY DEF Between
<1>2. /\ q < 128 => Following(r, q) = [text |-> Append(t, q), now |-> 0, owed |-> 0]
      /\ q < 32 => Following(r, 192 + q) = [text |-> t, now |-> (192 + q) % 32, owed |-> 1]
      /\ q < 16 => Following(r, 224 + q) = [text |-> t, now |-> (224 + q) % 16, owed |-> 2]
      /\ q < 8 => Following(r, 240 + q) = [text |-> t, now |-> (240 + q) % 8, owed |-> 3]
  <2> HIDE DEF r
  <2>1. q < 128 => Following(r, q) = [text |-> Append(t, q), now |-> 0, owed |-> 0]
    BY <1>1, SMTT(60) DEF Following
  <2>2. q < 32 => Following(r, 192 + q) = [text |-> t, now |-> (192 + q) % 32, owed |-> 1]
    BY <1>1, SMTT(60) DEF Following
  <2>3. q < 16 => Following(r, 224 + q) = [text |-> t, now |-> (224 + q) % 16, owed |-> 2]
    BY <1>1, SMTT(60) DEF Following
  <2>4. q < 8 => Following(r, 240 + q) = [text |-> t, now |-> (240 + q) % 8, owed |-> 3]
    BY <1>1, SMTT(60) DEF Following
  <2> QED BY <2>1, <2>2, <2>3, <2>4
<1>3. /\ q < 32 => (192 + q) % 32 = q
      /\ q < 16 => (224 + q) % 16 = q
      /\ q < 8 => (240 + q) % 8 = q
  BY SMT
<1> HIDE DEF r
<1> QED BY <1>2, <1>3 DEF r, Between, Inside

\* A byte that goes on with one.
LEMMA GoesOn ==
  ASSUME NEW t, NEW v \in Nat, NEW q \in Nat, q < 64
  PROVE  /\ Following(Inside(t, v, 1), 128 + q) = Between(Append(t, 64 * v + q))
         /\ Following(Inside(t, v, 2), 128 + q) = Inside(t, 64 * v + q, 1)
         /\ Following(Inside(t, v, 3), 128 + q) = Inside(t, 64 * v + q, 2)
<1>1. \A o \in {1, 2, 3} : LET r == Inside(t, v, o) IN r.text = t /\ r.now = v /\ r.owed = o
  BY DEF Inside
<1> DEFINE byte == 128 + q
<1>2. byte \in Nat /\ byte % 64 = q /\ byte >= 128 /\ byte < 192
  BY SMT
<1> HIDE DEF byte
<1>3. Following(Inside(t, v, 1), byte) = Between(Append(t, 64 * v + q))
  <2> DEFINE r == Inside(t, v, 1)
  <2>1. r.text = t /\ r.now = v /\ r.owed = 1
    BY <1>1
  <2> HIDE DEF r
  <2>2. Following(r, byte) = [text |-> Append(t, 64 * v + q), now |-> 0, owed |-> 0]
    BY <2>1, <1>2, SMTT(60) DEF Following
  <2> QED BY <2>2 DEF r, Between
<1>4. Following(Inside(t, v, 2), byte) = Inside(t, 64 * v + q, 1)
  <2> DEFINE r == Inside(t, v, 2)
  <2>1. r.text = t /\ r.now = v /\ r.owed = 2
    BY <1>1
  <2> HIDE DEF r
  <2>2. Following(r, byte) = [text |-> t, now |-> 64 * v + q, owed |-> 1]
    BY <2>1, <1>2, SMTT(60) DEF Following
  <2> QED BY <2>2 DEF r, Inside
<1>5. Following(Inside(t, v, 3), byte) = Inside(t, 64 * v + q, 2)
  <2> DEFINE r == Inside(t, v, 3)
  <2>1. r.text = t /\ r.now = v /\ r.owed = 3
    BY <1>1
  <2> HIDE DEF r
  <2>2. Following(r, byte) = [text |-> t, now |-> 64 * v + q, owed |-> 2]
    BY <2>1, <1>2, SMTT(60) DEF Following
  <2> QED BY <2>2 DEF r, Inside
<1> QED BY <1>3, <1>4, <1>5 DEF byte

\* The bits of a character, as its bytes carry them.
LEMMA Bits ==
  ASSUME NEW cp \in Unicode
  PROVE  /\ \A unit \in {1, 64, 4096} : \E q \in Nat : q < 64 /\ q = (cp \div unit) % 64 /\ Cont(cp, unit) = 128 + q
         /\ cp \div 64 \in Nat /\ cp \div 4096 \in Nat /\ cp \div 262144 \in Nat
         /\ cp < 2048 => cp \div 64 < 32
         /\ cp < 65536 => cp \div 4096 < 16
         /\ cp \div 262144 < 8
         /\ 64 * (cp \div 64) + ((cp \div 1) % 64) = cp
         /\ 64 * (cp \div 4096) + ((cp \div 64) % 64) = cp \div 64
         /\ 64 * (cp \div 262144) + ((cp \div 4096) % 64) = cp \div 4096
<1>1. cp \in Nat /\ cp < 2097152
  BY SMT DEF Unicode
<1>2. \A unit \in {1, 64, 4096} : (cp \div unit) % 64 \in Nat /\ (cp \div unit) % 64 < 64
  BY SMTT(30), <1>1
<1>3. \A unit \in {1, 64, 4096} : Cont(cp, unit) = 128 + ((cp \div unit) % 64)
  BY DEF Cont
<1>4. cp \div 64 \in Nat /\ cp \div 4096 \in Nat /\ cp \div 262144 \in Nat
  BY SMTT(30), <1>1
<1>5. (cp < 2048 => cp \div 64 < 32) /\ (cp < 65536 => cp \div 4096 < 16) /\ cp \div 262144 < 8
  BY SMTT(30), <1>1
<1>6. 64 * (cp \div 64) + ((cp \div 1) % 64) = cp
  BY SMTT(30), <1>1
<1>7. 64 * (cp \div 4096) + ((cp \div 64) % 64) = cp \div 64
  BY SMTT(30), <1>1
<1>8. 64 * (cp \div 262144) + ((cp \div 4096) % 64) = cp \div 4096
  BY SMTT(30), <1>1
<1> QED BY <1>2, <1>3, <1>4, <1>5, <1>6, <1>7, <1>8

\* The bytes of a character are read as that character.
LEMMA CharacterRead ==
  ASSUME NEW octets \in Seq(Octet), NEW cp \in Unicode, NEW t, Decoded(octets) = Between(t)
  PROVE  Decoded(octets \o Encode(cp)) = Between(Append(t, cp))
<1>0. cp \in Nat
  BY SMT DEF Unicode
<1>1. PICK q \in Nat : q < 64 /\ q = (cp \div 1) % 64 /\ Cont(cp, 1) = 128 + q
  BY Bits
<1>2. PICK p \in Nat : p < 64 /\ p = (cp \div 64) % 64 /\ Cont(cp, 64) = 128 + p
  BY Bits
<1>3. PICK o \in Nat : o < 64 /\ o = (cp \div 4096) % 64 /\ Cont(cp, 4096) = 128 + o
  BY Bits
<1>4. 128 + q \in Octet /\ 128 + p \in Octet /\ 128 + o \in Octet
  BY SMT, <1>1, <1>2, <1>3 DEF Octet
<1>5. CASE cp < 128
  <2>0. cp \in Octet
    BY SMT, <1>0, <1>5 DEF Octet
  <2>1. Encode(cp) = <<cp>> /\ cp \in Octet
    BY SMT, <1>0, <1>5, <2>0, EncodeIs
  <2>2. Decoded(Append(octets, cp)) = Between(Append(t, cp))
    BY <1>0, <1>5, <2>1, DecodedAppend, Begins
  <2>3. octets \o <<cp>> = Append(octets, cp)
    BY <2>1
  <2> QED BY <2>1, <2>2, <2>3
<1>6. CASE cp >= 128 /\ cp < 2048
  <2> DEFINE u == cp \div 64
             a == Append(octets, 192 + u)
  <2>1. Encode(cp) = <<192 + u, 128 + q>>
    <3>1. Encode(cp) = <<192 + u, Cont(cp, 1)>>
      BY SMT, <1>0, <1>6, EncodeIs
    <3> HIDE DEF u
    <3> QED BY <1>1, <3>1
  <2>2. u \in Nat /\ u < 32 /\ 64 * u + q = cp
    BY <1>1, <1>6, Bits
  <2> HIDE DEF u
  <2>3. 192 + u \in Octet
    BY SMT, <2>2 DEF Octet
  <2>4. a \in Seq(Octet)
    BY <2>3
  <2>5. Decoded(a) = Inside(t, u, 1)
    BY <2>2, <2>3, DecodedAppend, Begins
  <2>6. octets \o <<192 + u, 128 + q>> = Append(a, 128 + q)
    BY <1>4, <2>3
  <2> HIDE DEF a
  <2>7. Decoded(Append(a, 128 + q)) = Following(Inside(t, u, 1), 128 + q)
    BY <1>4, <2>4, <2>5, DecodedAppend
  <2>8. Following(Inside(t, u, 1), 128 + q) = Between(Append(t, 64 * u + q))
    BY <1>1, <2>2, GoesOn
  <2> QED BY <2>1, <2>2, <2>6, <2>7, <2>8
<1>7. CASE cp >= 2048 /\ cp < 65536
  <2> DEFINE u == cp \div 4096
             v == cp \div 64
             a == Append(octets, 224 + u)
             b == Append(a, 128 + p)
  <2>1. Encode(cp) = <<224 + u, 128 + p, 128 + q>>
    <3>1. Encode(cp) = <<224 + u, Cont(cp, 64), Cont(cp, 1)>>
      BY SMT, <1>0, <1>7, EncodeIs
    <3> HIDE DEF u
    <3> QED BY <1>1, <1>2, <3>1
  <2>2. u \in Nat /\ u < 16 /\ v \in Nat /\ 64 * u + p = v /\ 64 * v + q = cp
    BY <1>1, <1>2, <1>7, Bits
  <2> HIDE DEF u, v
  <2>3. 224 + u \in Octet
    BY SMT, <2>2 DEF Octet
  <2>4. a \in Seq(Octet) /\ b \in Seq(Octet)
    BY <1>4, <2>3
  <2>5. Decoded(a) = Inside(t, u, 2)
    BY <2>2, <2>3, DecodedAppend, Begins
  <2>6. octets \o <<224 + u, 128 + p, 128 + q>> = Append(b, 128 + q)
    BY <1>4, <2>3
  <2> HIDE DEF a
  <2>7. Decoded(b) = Following(Inside(t, u, 2), 128 + p)
    BY <1>4, <2>4, <2>5, DecodedAppend
  <2>8. Following(Inside(t, u, 2), 128 + p) = Inside(t, 64 * u + p, 1)
    BY <1>2, <2>2, GoesOn
  <2>9. Decoded(b) = Inside(t, v, 1)
    BY <2>2, <2>7, <2>8
  <2> HIDE DEF b
  <2>10. Decoded(Append(b, 128 + q)) = Following(Inside(t, v, 1), 128 + q)
    BY <1>4, <2>4, <2>9, DecodedAppend
  <2>11. Following(Inside(t, v, 1), 128 + q) = Between(Append(t, 64 * v + q))
    BY <1>1, <2>2, GoesOn
  <2> QED BY ZenonT(60), <2>1, <2>2, <2>6, <2>10, <2>11
<1>8. CASE cp >= 65536
  <2> DEFINE u == cp \div 262144
             v == cp \div 4096
             w == cp \div 64
             a == Append(octets, 240 + u)
             b == Append(a, 128 + o)
             c == Append(b, 128 + p)
  <2>1. Encode(cp) = <<240 + u, 128 + o, 128 + p, 128 + q>>
    <3>1. Encode(cp) = <<240 + u, Cont(cp, 4096), Cont(cp, 64), Cont(cp, 1)>>
      BY SMT, <1>0, <1>8, EncodeIs
    <3> HIDE DEF u
    <3> QED BY <1>1, <1>2, <1>3, <3>1
  <2>2. u \in Nat /\ u < 8 /\ v \in Nat /\ w \in Nat /\ 64 * u + o = v /\ 64 * v + p = w /\ 64 * w + q = cp
    BY <1>1, <1>2, <1>3, <1>8, Bits
  <2> HIDE DEF u, v, w
  <2>3. 240 + u \in Octet
    BY SMT, <2>2 DEF Octet
  <2>4. a \in Seq(Octet) /\ b \in Seq(Octet) /\ c \in Seq(Octet)
    BY <1>4, <2>3
  <2>5. Decoded(a) = Inside(t, u, 3)
    BY <2>2, <2>3, DecodedAppend, Begins
  <2>6. octets \o <<240 + u, 128 + o, 128 + p, 128 + q>> = Append(c, 128 + q)
    BY SMTT(60), <1>4, <2>3
  <2> HIDE DEF a
  <2>7. Decoded(b) = Following(Inside(t, u, 3), 128 + o)
    BY <1>4, <2>4, <2>5, DecodedAppend
  <2>8. Following(Inside(t, u, 3), 128 + o) = Inside(t, 64 * u + o, 2)
    BY <1>3, <2>2, GoesOn
  <2>9. Decoded(b) = Inside(t, v, 2)
    BY <2>2, <2>7, <2>8
  <2> HIDE DEF b
  <2>10. Decoded(c) = Following(Inside(t, v, 2), 128 + p)
    BY <1>4, <2>4, <2>9, DecodedAppend
  <2>11. Following(Inside(t, v, 2), 128 + p) = Inside(t, 64 * v + p, 1)
    BY <1>2, <2>2, GoesOn
  <2>12. Decoded(c) = Inside(t, w, 1)
    BY <2>2, <2>10, <2>11
  <2> HIDE DEF c
  <2>13. Decoded(Append(c, 128 + q)) = Following(Inside(t, w, 1), 128 + q)
    BY <1>4, <2>4, <2>12, DecodedAppend
  <2>14. Following(Inside(t, w, 1), 128 + q) = Between(Append(t, 64 * w + q))
    BY <1>1, <2>2, GoesOn
  <2> QED BY ZenonT(60), <2>1, <2>2, <2>6, <2>13, <2>14
<1> QED BY SMT, <1>0, <1>5, <1>6, <1>7, <1>8

\* What is written of a chain is read as the chain.
LEMMA ChainRead ==
  ASSUME NEW list \in Seq(Unicode)
  PROVE  Decoded(Encoded(list)) = Between(list)
<1> DEFINE P == {x \in Seq(Unicode) : Decoded(Encoded(x)) = Between(x)}
<1>0. 0 \in Unicode /\ 0 \in Octet
  BY SMT DEF Unicode, Octet
<1>1. <<>> \in P
  <2>1. <<>> \in Seq(Unicode) /\ <<>> \in Seq(Octet)
    OBVIOUS
  <2>2. Encoded(<<>>) = <<>>
    BY <1>0, <2>1, EncodedAppend
  <2>3. Decoded(<<>>) = Between(<<>>)
    BY <1>0, <2>1, DecodedAppend
  <2> QED BY <2>1, <2>2, <2>3
<1>2. ASSUME NEW x \in Seq(Unicode), NEW cp \in Unicode, x \in P PROVE Append(x, cp) \in P
  <2>0. Append(x, cp) \in Seq(Unicode)
    OBVIOUS
  <2>1. Encoded(x) \in Seq(Octet)
    BY BytesAre
  <2>2. Decoded(Encoded(x)) = Between(x)
    BY <1>2
  <2>3. Decoded(Encoded(x) \o Encode(cp)) = Between(Append(x, cp))
    BY <2>1, <2>2, CharacterRead
  <2>4. Encoded(Append(x, cp)) = Encoded(x) \o Encode(cp)
    BY EncodedAppend
  <2> QED BY <2>0, <2>3, <2>4
<1>3. list \in P
  <2> HIDE DEF P
  <2> QED BY <1>1, <1>2, Lengthen
<1> QED BY <1>3

\* The parts of a string.
LEMMA StringParts ==
  ASSUME NEW list \in Seq(Unicode)
  PROVE  LET str == string_oflist(list)
         IN /\ str.len = Len(str.bytes) /\ str.bytes \in Seq(Octet)
            /\ str.bytes = Encoded(list) /\ str = [len |-> str.len, bytes |-> str.bytes]
<1>1. Encoded(list) \in Seq(Octet)
  BY BytesAre
<1>2. Counted(list) = Len(Encoded(list))
  BY PassesAgree
<1> QED BY <1>1, <1>2 DEF string_oflist

\* A string of halves.
LEMMA StringsConcat ==
  ASSUME NEW x \in Seq(Unicode), NEW y \in Seq(Unicode)
  PROVE  string_cat(string_oflist(x), string_oflist(y)) = string_oflist(x \o y)
<1> DEFINE a == string_oflist(x)
           b == string_oflist(y)
           c == string_oflist(x \o y)
           ab == [i \in 1..(a.len + b.len) |-> IF i <= a.len THEN a.bytes[i] ELSE b.bytes[i - a.len]]
<1>0. x \o y \in Seq(Unicode)
  OBVIOUS
<1>1. /\ a.len = Len(a.bytes) /\ a.bytes \in Seq(Octet) /\ a.bytes = Encoded(x)
      /\ b.len = Len(b.bytes) /\ b.bytes \in Seq(Octet) /\ b.bytes = Encoded(y)
  BY StringParts
<1>2. c.len = Len(c.bytes) /\ c.bytes = Encoded(x \o y) /\ c = [len |-> c.len, bytes |-> c.bytes]
  BY <1>0, StringParts
<1> HIDE DEF a, b, c
<1>3. c.bytes = a.bytes \o b.bytes
  BY <1>1, <1>2, EncodedConcat
<1>4. ab = a.bytes \o b.bytes
  <2> DEFINE u == a.bytes
             v == b.bytes
             m == Len(u)
             n == Len(v)
             w == [i \in 1..(m + n) |-> IF i <= m THEN u[i] ELSE v[i - m]]
  <2>1. u \in Seq(Octet) /\ v \in Seq(Octet) /\ m \in Nat /\ n \in Nat
    BY <1>1
  <2>2. ab = w
    BY <1>1
  <2> HIDE DEF u, v, ab
  <2>3. u \o v \in Seq(Octet) /\ Len(u \o v) = m + n
    BY <2>1
  <2>4. \A i \in 1..(m + n) : w[i] = (u \o v)[i] /\ (u \o v)[i] \in Octet
    BY <2>1
  <2>5. w \in Seq(Octet) /\ Len(w) = m + n
    BY <2>1, <2>4
  <2> DEFINE uv == u \o v
  <2>6. uv \in Seq(Octet) /\ w \in Seq(Octet) /\ Len(uv) = Len(w) /\ \A i \in 1..Len(uv) : uv[i] = w[i]
    BY <2>3, <2>4, <2>5
  <2> HIDE DEF uv, w
  <2>7. uv = w
    BY SMTT(60), <2>6
  <2> QED BY <2>2, <2>7 DEF u, v, uv
<1>5. Len(a.bytes \o b.bytes) = a.len + b.len
  BY <1>1
<1>6. string_cat(a, b) = [len |-> a.len + b.len, bytes |-> ab]
  BY DEF string_cat
<1> HIDE DEF ab
<1>7. string_cat(a, b) = c
  BY <1>2, <1>3, <1>4, <1>5, <1>6
<1> QED BY <1>7 DEF a, b, c

\* Equality of strings is that of their texts.
LEMMA StringsEqual ==
  ASSUME NEW x \in Seq(Unicode), NEW y \in Seq(Unicode)
  PROVE  string_eq(string_oflist(x), string_oflist(y)) <=> x = y
<1> DEFINE a == string_oflist(x)
           b == string_oflist(y)
<1>1. /\ a.len = Len(a.bytes) /\ a.bytes \in Seq(Octet) /\ a.bytes = Encoded(x)
      /\ b.len = Len(b.bytes) /\ b.bytes \in Seq(Octet) /\ b.bytes = Encoded(y)
  BY StringParts
<1>2. ASSUME string_eq(a, b) PROVE x = y
  <2> HIDE DEF a, b
  <2>1. Len(a.bytes) = Len(b.bytes) /\ \A i \in 1..Len(a.bytes) : a.bytes[i] = b.bytes[i]
    BY <1>1, <1>2 DEF string_eq
  <2>2. a.bytes = b.bytes
    <3> DEFINE u == a.bytes
               v == b.bytes
    <3>1. u \in Seq(Octet) /\ v \in Seq(Octet) /\ Len(u) = Len(v) /\ \A i \in 1..Len(u) : u[i] = v[i]
      BY <1>1, <2>1
    <3> HIDE DEF u, v
    <3>2. u = v
      BY SMTT(60), <3>1
    <3> QED BY <3>2 DEF u, v
  <2>3. Between(x) = Between(y)
    BY <1>1, <2>2, ChainRead
  <2> QED BY <2>3 DEF Between
<1>3. ASSUME x = y PROVE string_eq(a, b)
  BY <1>3 DEF string_eq
<1> QED BY <1>2, <1>3

\* The chain is one of characters, and a chain of them promises the rest.
Chained == chain \in Seq(Chars)

LEMMA ChainPromises ==
  ASSUME Chained
  PROVE  StringsAreTexts
<1> DEFINE N == Len(chain)
<1>1. Chars \subseteq Unicode /\ chain \in Seq(Unicode) /\ N \in Nat
  <2>1. Chars \subseteq Unicode
    BY SMT, CharsAssumption DEF Unicode
  <2> QED BY <2>1 DEF Chained
<1>2. BlockFilled
  <2>1. /\ string_oflist(chain).len = Len(string_oflist(chain).bytes)
        /\ string_oflist(chain).len = Counted(chain)
    BY <1>1, StringParts DEF string_oflist
  <2>2. Counted(chain) = Len(chain) <=> \A i \in DOMAIN chain : chain[i] < 128
    BY <1>1, PassesAgree
  <2> QED BY <2>1, <2>2 DEF BlockFilled, string_len
<1>3. TextReturns
  <2>1. string_oflist(chain).bytes = Encoded(chain)
    BY DEF string_oflist
  <2>2. Decoded(Encoded(chain)) = Between(chain)
    BY <1>1, ChainRead
  <2> QED BY <2>1, <2>2 DEF TextReturns, Between
<1>4. CatIsAppend
  <2> SUFFICES ASSUME NEW i \in 0..N
               PROVE  string_cat(string_oflist(SubSeq(chain, 1, i)), string_oflist(SubSeq(chain, i + 1, N)))
                        = string_oflist(chain)
    BY DEF CatIsAppend
  <2> DEFINE x == SubSeq(chain, 1, i)
             y == SubSeq(chain, i + 1, N)
  <2>1. x \in Seq(Unicode) /\ y \in Seq(Unicode)
    BY <1>1
  <2>2. x \o y = chain
    <3>1. Len(x) = i /\ Len(y) = N - i /\ i \in Nat /\ N - i \in Nat
      BY <1>1
    <3>2. \A j \in 1..N : (x \o y)[j] = chain[j]
      <4> SUFFICES ASSUME NEW j \in 1..N PROVE (x \o y)[j] = chain[j]
        OBVIOUS
      <4>1. CASE j <= i
        <5>1. x[j] = chain[j]
          BY <4>1
        <5> HIDE DEF x, y
        <5> QED BY <2>1, <3>1, <4>1, <5>1
      <4>2. CASE ~(j <= i)
        <5>1. y[j - i] = chain[j]
          BY SMTT(60), <3>1, <4>2
        <5> HIDE DEF x, y
        <5>2. (x \o y)[j] = y[j - i]
          BY <1>1, <2>1, <3>1, <4>2
        <5> QED BY <5>1, <5>2
      <4> QED BY <4>1, <4>2
    <3> HIDE DEF x, y
    <3>3. x \o y \in Seq(Unicode) /\ Len(x \o y) = N
      BY <1>1, <2>1, <3>1
    <3> DEFINE z == x \o y
    <3>4. z \in Seq(Unicode) /\ Len(z) = Len(chain) /\ \A j \in 1..Len(z) : z[j] = chain[j]
      BY <3>2, <3>3
    <3> HIDE DEF z
    <3>5. z = chain
      BY <1>1, <3>4
    <3> QED BY <3>5 DEF z
  <2> HIDE DEF x, y
  <2>3. string_cat(string_oflist(x), string_oflist(y)) = string_oflist(chain)
    BY <2>1, <2>2, StringsConcat
  <2> QED BY <2>3 DEF x, y
<1>5. EqualMeansSame
  <2>1. ASSUME NEW i \in DOMAIN chain, NEW cp \in Chars
        PROVE  ReplaceAt(chain, i, cp) \in Seq(Unicode)
    BY <1>1 DEF ReplaceAt
  <2>2. ASSUME NEW i \in DOMAIN chain
        PROVE  RemoveAt(chain, i) \in Seq(Unicode)
    <3> DEFINE x == SubSeq(chain, 1, i - 1)
               y == SubSeq(chain, i + 1, Len(chain))
    <3>1. x \in Seq(Unicode) /\ y \in Seq(Unicode)
      BY <1>1
    <3>2. RemoveAt(chain, i) = x \o y
      BY DEF RemoveAt
    <3> HIDE DEF x, y
    <3> QED BY <3>1, <3>2
  <2>3. \A other \in Seq(Unicode) : string_eq(string_oflist(chain), string_oflist(other)) <=> chain = other
    BY <1>1, StringsEqual
  <2> QED BY <2>1, <2>2, <2>3 DEF EqualMeansSame
<1> QED BY <1>2, <1>3, <1>4, <1>5 DEF StringsAreTexts

\* Whatever the characters and however long the chain, a guest string fills the block that
\* was counted for it, spells its characters when it is read back as UTF-8, and is
\* concatenated and compared as its text.
THEOREM GuestStrings == GuestSpec => []StringsAreTexts
<1>1. GuestInit => Chained
  BY DEF GuestInit, Chained
<1>2. Chained /\ [GuestNext]_chain => Chained'
  <2> SUFFICES ASSUME Chained, [GuestNext]_chain PROVE Chained'
    OBVIOUS
  <2>1. CASE UNCHANGED chain
    BY <2>1 DEF Chained
  <2>2. ASSUME NEW cp \in Chars, Prepend(cp) PROVE Chained'
    <3>1. chain' = <<cp>> \o chain /\ <<cp>> \in Seq(Chars) /\ chain \in Seq(Chars)
      BY <2>2 DEF Prepend, Chained
    <3>2. chain' \in Seq(Chars)
      BY <3>1
    <3> QED BY <3>2 DEF Chained
  <2> QED BY <2>1, <2>2 DEF GuestNext
<1>3. Chained => StringsAreTexts
  BY ChainPromises
<1> QED BY <1>1, <1>2, <1>3, PTL DEF GuestSpec
=============================================================================
