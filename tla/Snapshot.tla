------------------------------ MODULE Snapshot ------------------------------
(***************************************************************************)
(* The host's startup gate (crates/guestlang-host/src/hostgen.rs): the     *)
(* committed universe.snapshot is parsed line by line, the parsed universe *)
(* is projected to a function surface, and the surface is checked against  *)
(* the host's contract.                                                    *)
(*                                                                         *)
(* A line is the sequence of its tokens, <<>> when blank.  A name is a     *)
(* sequence of letters.  An optional part is a sequence of at most one.    *)
(*                                                                         *)
(* The parser of type texts is a parameter: SnapshotTypes has the code's.  *)
(***************************************************************************)
EXTENDS Integers, FiniteSetsExt, SequencesExt

CONSTANTS ReadTy(_),     \* what a type text is parsed to, with `ok` or refused
          WriteTy(_),    \* the text of a type
          LegalText(_),  \* the type texts the format allows
          LowerOf,       \* [uppercase letters -> their lowercase letters]
          Contract,      \* EXPECTED_DEMO_SURFACE: <<kebab name, arity>> pairs
          Lines,         \* lines a file can hold
          MaxLines       \* bound: lines of the file

OwnerOf == [field |-> "record", case |-> "variant", param |-> "func"]

\* The type texts of the lines.
Texts == {l[3] : l \in {k \in Lines : k[1] \in DOMAIN OwnerOf /\ Len(k) = 3}}
         \cup {l[2] : l \in {k \in Lines : k[1] = "ret" /\ Len(k) = 2}}

\* A line that is not blank has tokens; parsing a type takes the legal texts, loses nothing
\* and tells a reference, by its name, from the rest.
ASSUME GateAssumption ==
  /\ \A l \in Lines : l = [i \in 1..Len(l) |-> l[i]] /\ Len(l) \in Nat \ {0}
  /\ \A t \in Texts : /\ ReadTy(t).ok <=> LegalText(t)
                      /\ ReadTy(t).ok =>
                           /\ WriteTy(ReadTy(t).ty) = t
                           /\ IF t[1] = "ty" THEN ReadTy(t).ty = <<"ty", SubSeq(t, 3, Len(t) - 1)>>
                                              ELSE ReadTy(t).ty[1] # "ty"

VARIABLES
  lines,     \* the lines read
  done,      \* the items closed
  cur,       \* the open item, if any
  status,    \* "reading", "parsed"; refusals "parse", "surface", "skew"; "valid"
  line,      \* the line a ParseError names, 0 if there is none
  covered    \* ContractCoverage's covered

gate == <<lines, done, cur, status, line, covered>>

-----------------------------------------------------------------------------
(* The lines.                                                              *)

Headers == {"record", "variant", "func", "resource"}

\* An item as it opens; members are <<line kind, name, type>>, sem the line's other tokens.
Item(kind, name) ==
  [kind |-> kind, name |-> name, members |-> <<>>, ret |-> <<>>, sem |-> <<>>]

Open(kind) == cur # <<>> /\ cur[1].kind = kind

\* Open::close succeeds: only a function without `ret` is malformed.
Closes == Open("func") => cur[1].ret # <<>>

\* Mutant of Member: `param` is taken after `ret` too.
MemberAnywhere(l) ==
  /\ l[1] \in DOMAIN OwnerOf
  /\ Len(l) = 3 \/ (l[1] = "case" /\ Len(l) = 2)
  /\ Open(OwnerOf[l[1]])
  /\ Len(l) = 3 => ReadTy(l[3]).ok

Member(l) ==
  /\ l[1] \in DOMAIN OwnerOf
  /\ Len(l) = 3 \/ (l[1] = "case" /\ Len(l) = 2)
  /\ Open(OwnerOf[l[1]])
  /\ l[1] = "param" => cur[1].ret = <<>>
  /\ Len(l) = 3 => ReadTy(l[3]).ok

MemberOf(l) == <<l[1], l[2], IF Len(l) = 3 THEN <<ReadTy(l[3]).ty>> ELSE <<>> >>

Ret(l) ==
  /\ l[1] = "ret" /\ Len(l) = 2
  /\ Open("func") /\ cur[1].ret = <<>>
  /\ ReadTy(l[2]).ok

\* null_sem, determinism, and "stream" when the line has it.
FuncSem(l) == Tail(l)

Sem(l) ==
  /\ l[1] = "sem" /\ (Len(l) = 3 \/ (Len(l) = 4 /\ l[4] = "stream"))
  /\ Open("func") /\ cur[1].ret # <<>> /\ cur[1].sem = <<>>
  /\ l[2] \in {"strict", "propagate", "custom"}
  /\ l[3] \in {"pure", "stable", "volatile"}

Header(l) == l[1] \in Headers /\ Len(l) = 2 /\ Closes

GateInit ==
  /\ lines = <<>> /\ done = <<>> /\ cur = <<>>
  /\ status = "reading" /\ line = 0 /\ covered = <<>>

Reading(l) ==
  /\ status = "reading"
  /\ Len(lines) < MaxLines
  /\ lines' = Append(lines, l)
  /\ UNCHANGED covered

Blank == Reading(<<>>) /\ UNCHANGED <<done, cur, status, line>>

\* restart: close the open item and open the new one.
Restart(l) ==
  /\ Reading(l) /\ Header(l)
  /\ done' = done \o cur
  /\ cur' = <<Item(l[1], l[2])>>
  /\ UNCHANGED <<status, line>>

AddMember(l) ==
  /\ Reading(l) /\ Member(l)
  /\ cur' = [cur EXCEPT ![1].members = Append(@, MemberOf(l))]
  /\ UNCHANGED <<done, status, line>>

SetRet(l) ==
  /\ Reading(l) /\ Ret(l)
  /\ cur' = [cur EXCEPT ![1].ret = <<ReadTy(l[2]).ty>>]
  /\ UNCHANGED <<done, status, line>>

SetSem(l) ==
  /\ Reading(l) /\ Sem(l)
  /\ cur' = [cur EXCEPT ![1].sem = <<FuncSem(l)>>]
  /\ UNCHANGED <<done, status, line>>

RefuseLine(l) ==
  /\ Reading(l)
  /\ ~(Header(l) \/ Member(l) \/ Ret(l) \/ Sem(l))
  /\ status' = "parse"
  /\ line' = Len(lines) + 1
  /\ UNCHANGED <<done, cur>>

\* The end of the file closes the open item; the error names the last line that is not blank.
EndOfFile ==
  /\ status = "reading"
  /\ IF Closes THEN /\ done' = done \o cur /\ cur' = <<>>
                    /\ status' = "parsed" /\ UNCHANGED line
     ELSE /\ status' = "parse" /\ UNCHANGED <<done, cur>>
          /\ line' = SelectLastInSeq(lines, LAMBDA l : l # <<>>)
  /\ UNCHANGED <<lines, covered>>

-----------------------------------------------------------------------------
(* The surface and the contract.                                           *)

Kebab(name) ==
  FlattenSeq([i \in DOMAIN name |->
    IF name[i] \in DOMAIN LowerOf
    THEN (IF i > 1 THEN <<"-">> ELSE <<>>) \o <<LowerOf[name[i]]>>
    ELSE <<name[i]>>])

\* Universe::find: the first item of that name, 0 if there is none.
Find(name) == SelectInSeq(done, LAMBDA it : it.name = name)

\* Mutant of FlatArity: a variant takes one slot.
FlatArityVariantOne(ty) ==
  IF ty[1] = "ty" /\ done[Find(ty[2])].kind = "record" THEN Len(done[Find(ty[2])].members)
  ELSE 1

\* A record argument rides as its fields, a variant as discriminant and payload.
FlatArity(ty) ==
  IF ty[1] # "ty" THEN 1
  ELSE CASE done[Find(ty[2])].kind = "record" -> Len(done[Find(ty[2])].members)
         [] done[Find(ty[2])].kind = "variant" -> 2
         [] OTHER -> 1

Funcs == {k \in DOMAIN done : done[k].kind = "func"}
Resolved ==
  \A k \in Funcs : \A j \in DOMAIN done[k].members :
    LET ty == done[k].members[j][3][1] IN ty[1] = "ty" => Find(ty[2]) # 0

Total(numbers) == FoldSeq(LAMBDA x, y : x + y, 0, numbers)
Arity(params) == Total([j \in DOMAIN params |-> FlatArity(params[j][3][1])])

\* The surface entry of the k-th item, a function.
SurfaceEntry(k) == <<Kebab(done[k].name), Arity(done[k].members)>>

\* The contract's first entry of that name, 0 if there is none.
InContract(name) == SelectInSeq(Contract, LAMBDA c : c[1] = name)
Named == {k \in Funcs : InContract(Kebab(done[k].name)) # 0}
Covered == FlattenSeq([k \in DOMAIN done |-> IF k \in Named THEN <<SurfaceEntry(k)>> ELSE <<>>])

UnresolvedRef ==
  /\ status = "parsed" /\ ~Resolved
  /\ status' = "surface"
  /\ UNCHANGED <<lines, done, cur, line, covered>>

\* check_contract: a different arity, or nothing covered, is a skew.
CheckContract ==
  /\ status = "parsed" /\ Resolved
  /\ IF Named # {} /\ \A k \in Named :
          Contract[InContract(SurfaceEntry(k)[1])][2] = SurfaceEntry(k)[2]
     THEN status' = "valid" /\ covered' = Covered
     ELSE status' = "skew" /\ UNCHANGED covered
  /\ UNCHANGED <<lines, done, cur, line>>

GateNext ==
  \/ Blank
  \/ \E l \in Lines : \/ Restart(l) \/ AddMember(l) \/ SetRet(l) \/ SetSem(l)
                      \/ RefuseLine(l)
  \/ EndOfFile \/ UnresolvedRef \/ CheckContract

GateSpec == GateInit /\ [][GateNext]_gate

-----------------------------------------------------------------------------
(* What a file says, without the parser.                                   *)

MemberLine(m) == IF m[3] = <<>> THEN <<m[1], m[2]>> ELSE <<m[1], m[2], WriteTy(m[3][1])>>

ItemLines(it) ==
  <<<<it.kind, it.name>>>>
  \o [i \in DOMAIN it.members |-> MemberLine(it.members[i])]
  \o [i \in DOMAIN it.ret |-> <<"ret", WriteTy(it.ret[i])>>]
  \o [i \in DOMAIN it.sem |-> <<"sem">> \o it.sem[i]]

\* The lines that are not blank.
TextLines(ls) == FlattenSeq([i \in DOMAIN ls |-> IF ls[i] = <<>> THEN <<>> ELSE <<ls[i]>>])
Upto(n) == TextLines(SubSeq(lines, 1, n))

LinesOf(items) == FlattenSeq([i \in DOMAIN items |-> ItemLines(items[i])])

\* "Never a silent skip": at every moment of the parse, what was understood, written out
\* again, is what was read; the same of every file that was not refused.
NothingSkipped == status # "parse" => LinesOf(done \o cur) = TextLines(lines)

\* The format as an adjacency: which line may follow which.
MayFollow(before, l) ==
  CASE l[1] \in Headers -> before \notin {"func", "param"}
    [] l[1] = "field" -> before \in {"record", "field"}
    [] l[1] = "case" -> before \in {"variant", "case"}
    [] l[1] \in {"param", "ret"} -> before \in {"func", "param"}
    [] l[1] = "sem" -> before = "ret"
    [] OTHER -> FALSE

LegalLine(l) ==
  \/ l[1] \in Headers \cup {"case"} /\ Len(l) = 2
  \/ l[1] \in {"field", "case", "param"} /\ Len(l) = 3 /\ LegalText(l[3])
  \/ l[1] = "ret" /\ Len(l) = 2 /\ LegalText(l[2])
  \/ /\ l[1] = "sem" /\ (Len(l) = 3 \/ (Len(l) = 4 /\ l[4] = "stream"))
     /\ l[2] \in {"strict", "propagate", "custom"}
     /\ l[3] \in {"pure", "stable", "volatile"}

WellFormed(ls) ==
  \A i \in DOMAIN ls : /\ LegalLine(ls[i])
                       /\ MayFollow(IF i = 1 THEN "start" ELSE ls[i - 1][1], ls[i])
WholeItems(ls) == ls # <<>> => Last(ls)[1] \notin {"func", "param"}

\* "ANY malformed input", and nothing else, is refused, at its first line that breaks the
\* format, or at the last line when that leaves a function without its `ret`.
RefusedAtTheFirstError ==
  LET text == TextLines(lines)
  IN IF status # "parse" THEN WellFormed(text) /\ (status # "reading" => WholeItems(text))
     ELSE \/ WellFormed(Upto(line - 1)) /\ ~WellFormed(Upto(line))
          \/ WellFormed(text) /\ ~WholeItems(text)
             /\ Upto(line) = text /\ Upto(line - 1) # text

\* parse_snapshot skips nothing, refuses every malformed file at its first error, and
\* refuses no other.  A type text is legal as the printer and the tests write it, which
\* for a tensor without dimensions is not what three comments say (SnapshotTypes).
SnapshotReadWhole == NothingSkipped /\ RefusedAtTheFirstError

\* The slots an argument of this type text takes, read off the lines themselves: a record
\* as many as the field lines behind its header, a variant two, anything else one.
SlotsIn(ls, text) ==
  LET header == SelectInSeq(ls, LAMBDA l : l[1] \in Headers /\ l[2] = SubSeq(text, 3, Len(text) - 1))
      fields == {i \in DOMAIN ls : i > header /\ \A j \in (header + 1)..i : ls[j][1] = "field"}
  IN IF text[1] # "ty" THEN 1
     ELSE CASE ls[header][1] = "record" -> Cardinality(fields)
            [] ls[header][1] = "variant" -> 2
            [] OTHER -> 1

\* The headers of the functions the contract names, and the slots of the params behind one.
NamedIn(ls) == {i \in DOMAIN ls : ls[i][1] = "func" /\ InContract(Kebab(ls[i][2])) # 0}
SlotsAt(ls, i) ==
  LET params == {j \in DOMAIN ls : j > i /\ \A k \in (i + 1)..j : ls[k][1] = "param"}
  IN Total([j \in 1..Cardinality(params) |-> SlotsIn(ls, ls[i + j][3])])

Callable(ls, reported) ==
  LET named == NamedIn(ls)
  IN /\ named # {} /\ Len(reported) = Cardinality(named)
     /\ \A i \in named :
          LET slots == SlotsAt(ls, i)
          IN /\ Contract[InContract(Kebab(ls[i][2]))][2] = slots
             /\ Contains(reported, <<Kebab(ls[i][2]), slots>>)

\* What passes the gate can be called: every function of the file the contract names takes
\* as many values as the contract says and is reported as covered, and at least one does.
ValidMeansCallable == status = "valid" => Callable(TextLines(lines), covered)
=============================================================================
