---------------------------- MODULE Forge_proofs -----------------------------
(***************************************************************************)
(* The driver's verdicts are right and its store heals, for every set of   *)
(* jobs, artifacts, definitions and stamps, and with no bound on the runs  *)
(* and edits.                                                              *)
(*                                                                         *)
(* The invariant says what a run has established half way: of the jobs     *)
(* done so far, what gen wrote, what a check compared, and which blobs a   *)
(* store has written (GenSoFar, CheckSoFar, StoreSoFar).  The verdicts of  *)
(* a run that exits follow from these.                                     *)
(***************************************************************************)
EXTENDS Forge, SequenceTheorems, TLAPS

\* Maps from some of D to files.
FileMaps(D) == UNION {[S -> Files] : S \in SUBSET D}

Runs ==
  [pc: {"idle", "jobs", "store", "index"}, mode: {"none", "gen", "store", "check"},
   exit: {"none", "0", "1", "killed"}, todo: Seq(Range(Jobs)), jobs: SUBSET Range(Jobs),
   stamp: Stamps \cup {"none"}, stage: {"idle", "reflecting", "checked", "emitted", "tied"},
   failed: BOOLEAN, drifted: SUBSET Outputs, tags: FileMaps(Outputs), pairs: SUBSET Outputs]

Types ==
  /\ source \in [Range(Jobs) -> Versions]
  /\ tree \in [Outputs -> Files] /\ start \in SUBSET Outputs
  /\ blobs \in FileMaps(Files) /\ index \in FileMaps(Outputs)
  /\ run \in Runs

Tied(o) == tree[o].body = Body(o)

Shape ==
  /\ run.pc # "idle" => run.exit = "none"
  /\ run.pc = "jobs" => run.mode # "none" /\ Range(run.todo) \subseteq run.jobs
  /\ run.pc = "jobs" /\ run.mode # "check" => run.stage = "reflecting"
  /\ run.pc \in {"store", "index"} => run.mode = "store"

\* What gen has done, as long as no job failed.
GenSoFar ==
  run.pc = "jobs" /\ run.mode # "check" /\ ~run.failed =>
    \A o \in Checked : Owner[o] \in Range(run.todo) \/ Tied(o)

\* An artifact whose job is still to run is as the check found it; the verdict on one
\* whose job has run is the right one.
CheckSoFar ==
  run.pc = "jobs" /\ run.mode = "check" =>
    /\ run.tags = index /\ run.drifted \subseteq Checked
    /\ \A o \in Checked :
         \/ Owner[o] \in Range(run.todo) /\ (Tied(o) <=> o \in start) /\ o \notin run.drifted
         \/ Tied(o) /\ (o \in run.drifted <=> o \notin start \/ StoredOther(o))

\* Of the pairs, those that are not left to store have their blob.
StoreSoFar ==
  run.pc \in {"store", "index"} =>
    /\ ~run.failed => \A o \in Checked : Tied(o)
    /\ \A o \in Checked : tree[o] # Missing /\ o \notin run.pairs => Blob(tree[o]) = tree[o]
    /\ run.pc = "index" => run.pairs = {}

IInv ==
  /\ Types /\ Shape
  /\ GenSoFar /\ CheckSoFar /\ StoreSoFar
  /\ CleanMeansTied /\ NoFalseDrift /\ StoreHeals

-----------------------------------------------------------------------------
(* Files, maps and jobs.                                                   *)

\* A generated file is neither missing nor torn.
LEMMA FileFacts ==
  /\ Missing \in Files /\ EmptyFile \in Files /\ CutFiles \subseteq Files
  /\ \A o, s : Fresh(o, s) # Missing /\ Fresh(o, s).body = Body(o)
<1>1. Missing \in Files /\ EmptyFile \in Files /\ CutFiles \subseteq Files
  BY DEF Files, CutFiles
<1>2. ASSUME NEW o, NEW s PROVE Fresh(o, s) # Missing /\ Fresh(o, s).body = Body(o)
  BY DEF Fresh, Missing, Body
<1> QED BY <1>1, <1>2

LEMMA FreshType ==
  ASSUME Types, NEW o \in Outputs, NEW s \in Stamps \cup {"none"}
  PROVE  Fresh(o, s) \in Files
<1>1. source[Owner[o]] \in Versions
  BY ForgeAssumption DEF Types
<1>2. Body(o) \in Outputs \X Versions
  BY <1>1 DEF Body
<1> QED BY <1>2 DEF Fresh, Files

LEMMA EditedType ==
  ASSUME Types, NEW o \in Outputs
  PROVE  Edited(o) \in Files
<1> DEFINE f == tree[o]
           Rest == [stamp : Stamps \cup {"none"}, body : {<<"edited">>} \cup (Outputs \X Versions)]
<1>1. f \in Files
  BY DEF Types
<1>2. f = [stamp |-> "none", body |-> <<"missing">>] \/ f = [stamp |-> "none", body |-> <<"empty">>]
      \/ f = [stamp |-> "none", body |-> <<"torn">>] \/ f \in Rest
  BY <1>1 DEF Files, CutFiles, Missing, EmptyFile
<1> HIDE DEF f
<1>3. [f EXCEPT !.body = <<"edited">>] \in Rest
  BY <1>2
<1> QED BY <1>3 DEF Edited, Files, f

LEMMA PutType ==
  ASSUME NEW D, NEW f \in FileMaps(D), NEW d \in D, NEW e \in Files
  PROVE  Put(f, d, e) \in FileMaps(D)
<1>1. PICK S \in SUBSET D : f \in [S -> Files]
  BY DEF FileMaps
<1>2. Put(f, d, e) \in [S \cup {d} -> Files] /\ S \cup {d} \in SUBSET D
  BY <1>1 DEF Put
<1> QED BY <1>2 DEF FileMaps

LEMMA NoTagsType == \A D : NoTags \in FileMaps(D)
<1> SUFFICES ASSUME NEW D PROVE NoTags \in FileMaps(D)
  OBVIOUS
<1>1. NoTags \in [{} -> Files] /\ {} \in SUBSET D
  BY DEF NoTags
<1> QED BY <1>1 DEF FileMaps

\* Of the blobs, setting one leaves the others.
LEMMA BlobPut ==
  ASSUME Types, NEW d \in Files, NEW e \in Files, blobs' = Put(blobs, d, e)
  PROVE  /\ blobs' \in FileMaps(Files)
         /\ \A x : Blob(x)' = IF x = d THEN e ELSE Blob(x)
<1>1. blobs' \in FileMaps(Files)
  BY PutType DEF Types
<1>2. ASSUME NEW x PROVE Blob(x)' = IF x = d THEN e ELSE Blob(x)
  <2>1. CASE x = d
    BY <2>1 DEF Blob, Put
  <2>2. CASE x # d
    BY <2>2 DEF Blob, Put
  <2> QED BY <2>1, <2>2
<1> QED BY <1>1, <1>2

\* A queue is its head and the rest.
LEMMA QueueFacts ==
  ASSUME NEW S, NEW q \in Seq(S), q # <<>>
  PROVE  /\ Head(q) \in S /\ Tail(q) \in Seq(S)
         /\ Range(q) = {Head(q)} \cup Range(Tail(q))
<1>1. /\ Head(q) \in S /\ Tail(q) \in Seq(S) /\ Head(q) = q[1]
      /\ Len(q) \in Nat /\ Len(q) > 0 /\ Len(Tail(q)) = Len(q) - 1
      /\ DOMAIN q = 1..Len(q) /\ DOMAIN Tail(q) = 1..(Len(q) - 1)
      /\ \A i \in 1..(Len(q) - 1) : Tail(q)[i] = q[i + 1]
  BY HeadTailProperties, LenProperties, EmptySeq
<1>2. ASSUME NEW x \in Range(q) PROVE x \in {Head(q)} \cup Range(Tail(q))
  <2>1. PICK i \in 1..Len(q) : x = q[i]
    BY <1>1 DEF Range
  <2>2. CASE i = 1
    BY <1>1, <2>1, <2>2
  <2>3. CASE i # 1
    <3>1. i - 1 \in 1..(Len(q) - 1) /\ (i - 1) + 1 = i
      BY <1>1, <2>3
    <3>2. Tail(q)[i - 1] = q[i]
      BY <1>1, <3>1
    <3> QED BY <1>1, <2>1, <3>1, <3>2 DEF Range
  <2> QED BY <2>2, <2>3
<1>3. ASSUME NEW x \in Range(Tail(q)) PROVE x \in Range(q)
  <2>1. PICK i \in 1..(Len(q) - 1) : x = q[i + 1]
    BY <1>1 DEF Range
  <2>2. i + 1 \in 1..Len(q)
    BY <1>1
  <2> QED BY <1>1, <2>1, <2>2 DEF Range
<1>4. Head(q) \in Range(q)
  <2>1. 1 \in 1..Len(q)
    BY <1>1
  <2> QED BY <1>1, <2>1 DEF Range
<1> QED BY <1>1, <1>2, <1>3, <1>4

LEMMA EmptyQueue == Range(<<>>) = {}
BY DEF Range

LEMMA QueueRange ==
  ASSUME NEW S, NEW q \in Seq(S)
  PROVE  Range(q) \in SUBSET S
BY LenProperties, ElementOfSeq DEF Range

\* The jobs a run loads are jobs.
LEMMA JobFacts ==
  /\ Jobs \in Seq(Range(Jobs)) /\ JobsListed \in Seq(Range(Jobs))
  /\ Range(JobsListed) \in SUBSET Range(Jobs)
<1> DEFINE A == Range(Listed)
           B == Range(Unlisted)
<1>1. Listed \in Seq(A) /\ Unlisted \in Seq(B)
  BY ForgeAssumption
<1>2. /\ Len(Listed) \in Nat /\ DOMAIN Listed = 1..Len(Listed)
      /\ Len(Unlisted) \in Nat /\ DOMAIN Unlisted = 1..Len(Unlisted)
  BY <1>1, LenProperties
<1>3. Listed \in Seq(A \cup B) /\ Unlisted \in Seq(A \cup B)
  BY <1>1
<1> HIDE DEF A, B
<1>4. /\ Jobs \in Seq(A \cup B) /\ Len(Jobs) = Len(Listed) + Len(Unlisted)
      /\ \A i \in 1..Len(Jobs) : Jobs[i] = IF i <= Len(Listed) THEN Listed[i]
                                                             ELSE Unlisted[i - Len(Listed)]
  BY <1>3, ConcatProperties DEF Jobs
<1>5. DOMAIN Jobs = 1..Len(Jobs) /\ Len(Jobs) \in Nat
  BY <1>4, LenProperties
<1>6. Jobs \in Seq(Range(Jobs))
  <2>1. \A i \in 1..Len(Jobs) : Jobs[i] \in Range(Jobs)
    BY <1>5 DEF Range
  <2> QED BY <1>4, <1>5, <2>1
<1>7. Unlisted \in Seq(Range(Jobs))
  <2>1. ASSUME NEW i \in 1..Len(Unlisted) PROVE Unlisted[i] \in Range(Jobs)
    <3>1. /\ Len(Listed) + i \in 1..Len(Jobs) /\ ~(Len(Listed) + i <= Len(Listed))
          /\ (Len(Listed) + i) - Len(Listed) = i
      BY <1>2, <1>4
    <3>2. Jobs[Len(Listed) + i] = Unlisted[i]
      BY <1>4, <3>1
    <3> QED BY <1>5, <3>1, <3>2 DEF Range
  <2> QED BY <1>2, <1>3, <2>1
<1>8. JobsListed \in Seq(Range(Jobs))
  BY <1>6, <1>7 DEF JobsListed
<1> QED BY <1>6, <1>8, QueueRange

-----------------------------------------------------------------------------
(* The phases of a run.                                                    *)

\* The stages the driver asks for are the ones its machine goes through.
LEMMA StepFacts ==
  /\ Step("idle", "reflect") = "reflecting" /\ Step("reflecting", "check") = "checked"
  /\ Step("checked", "emit") = "emitted" /\ Step("emitted", "tie") = "tied"
BY DEF Step

LEMMA IdleInv ==
  ASSUME Types', run' = NoRun
  PROVE  IInv'
<1>1. run'.pc = "idle" /\ run'.mode = "none" /\ run'.exit = "none"
  BY DEF NoRun
<1> QED BY <1>1 DEF IInv, Shape, GenSoFar, CheckSoFar, StoreSoFar, CleanMeansTied, NoFalseDrift,
                    StoreHeals, Stored, Ran

LEMMA JobsInv ==
  ASSUME Types', run'.pc = "jobs", run'.exit = "none", run'.mode # "none",
         Range(run'.todo) \subseteq run'.jobs,
         run'.mode # "check" => run'.stage = "reflecting",
         GenSoFar', CheckSoFar'
  PROVE  IInv'
BY DEF IInv, Shape, StoreSoFar, CleanMeansTied, NoFalseDrift, StoreHeals, Stored, Ran

LEMMA StoreInv ==
  ASSUME Types', run'.pc \in {"store", "index"}, run'.exit = "none", run'.mode = "store",
         StoreSoFar'
  PROVE  IInv'
<1>1. StoreHeals'
  BY DEF StoreHeals, Stored, StoreSoFar, Ran
<1> QED BY <1>1 DEF IInv, Shape, GenSoFar, CheckSoFar, CleanMeansTied, NoFalseDrift, Ran

LEMMA ExitInv ==
  ASSUME Types', run'.pc = "idle", CleanMeansTied', NoFalseDrift', StoreHeals'
  PROVE  IInv'
BY DEF IInv, Shape, GenSoFar, CheckSoFar, StoreSoFar

\* A run that exits without a verdict.
LEMMA GaveUpInv ==
  ASSUME Types', run'.pc = "idle", run'.exit \in {"1", "killed"},
         run'.exit = "1" /\ run'.mode = "check" => run'.failed \/ run'.jobs = {}
  PROVE  IInv'
<1>1. CleanMeansTied' /\ StoreHeals'
  BY DEF CleanMeansTied, StoreHeals, Stored, Ran
<1>2. NoFalseDrift'
  BY DEF NoFalseDrift, Ran, Checked
<1> QED BY <1>1, <1>2, ExitInv

LEMMA NoRunType == NoRun \in Runs
<1>1. NoTags \in FileMaps(Outputs) /\ <<>> \in Seq(Range(Jobs))
  BY NoTagsType
<1> QED BY <1>1 DEF NoRun, Runs

LEMMA ExitFacts ==
  ASSUME Types, NEW code \in {"0", "1", "killed"}
  PROVE  /\ Exit(code) \in Runs /\ Exit(code).pc = "idle" /\ Exit(code).exit = code
         /\ Exit(code).mode = run.mode /\ Exit(code).jobs = run.jobs
         /\ Exit(code).failed = run.failed
<1>1. NoTags \in FileMaps(Outputs) /\ <<>> \in Seq(Range(Jobs))
  BY NoTagsType
<1> QED BY ZenonT(60), <1>1 DEF Exit, NoRun, Runs, Types

\* What a job writes.
LEMMA GeneratedFacts ==
  ASSUME Types, NEW j
  PROVE  /\ Generated(j) \in [Outputs -> Files]
         /\ \A o \in Outputs :
              Generated(j)[o] = IF Owner[o] = j THEN Fresh(o, run.stamp) ELSE tree[o]
<1>1. run.stamp \in Stamps \cup {"none"} /\ tree \in [Outputs -> Files]
  BY DEF Types, Runs
<1>2. \A o \in Outputs : Fresh(o, run.stamp) \in Files
  BY <1>1, FreshType
<1> QED BY <1>1, <1>2 DEF Generated, OutputsOf

LEMMA HalfGeneratedType ==
  ASSUME Types, NEW j, NEW files \in HalfGenerated(j)
  PROVE  files \in [Outputs -> Files]
<1>1. run.stamp \in Stamps \cup {"none"} /\ tree \in [Outputs -> Files]
  BY DEF Types, Runs
<1>2. \A o \in Outputs : Fresh(o, run.stamp) \in Files /\ tree[o] \in Files
  BY <1>1, FreshType
<1> DEFINE Left(written, cut, c) ==
             [o \in Outputs |-> IF o \in cut THEN c
                                ELSE IF o \in written THEN Fresh(o, run.stamp) ELSE tree[o]]
           Cuts == {{}} \cup {{o} : o \in OutputsOf(j)}
<1>3. HalfGenerated(j) =
        {Left(written, cut, c) : written \in SUBSET OutputsOf(j), cut \in Cuts, c \in CutFiles}
  BY DEF HalfGenerated
<1>4. \A written, cut, c : c \in Files => Left(written, cut, c) \in [Outputs -> Files]
  BY <1>2
<1> HIDE DEF Left, Cuts
<1>5. PICK written \in SUBSET OutputsOf(j), cut \in Cuts, c \in CutFiles : files = Left(written, cut, c)
  BY <1>3
<1> QED BY <1>4, <1>5, FileFacts

\* A verdict depends on what it is about.
LEMMA SameVerdicts ==
  ASSUME UNCHANGED <<source, index, blobs>>
  PROVE  \A o : Body(o)' = Body(o) /\ (StoredOther(o)' <=> StoredOther(o))
BY DEF Body, StoredOther, Blob, StripHeader

-----------------------------------------------------------------------------
(* Between runs, and the beginning of one.                                 *)

LEMMA InitIInv == Init => IInv
<1> SUFFICES ASSUME Init PROVE IInv
  OBVIOUS
<1>1. PICK s \in Stamps : tree = [o \in Outputs |-> Fresh(o, s)]
  BY DEF Init
<1>2. source \in [Range(Jobs) -> Versions] /\ run = NoRun /\ start = {} /\ blobs = NoTags /\ index = NoTags
  BY DEF Init
<1>3. ASSUME NEW o \in Outputs PROVE Fresh(o, s) \in Files
  <2>1. source[Owner[o]] \in Versions
    BY <1>2, ForgeAssumption
  <2>2. Body(o) \in Outputs \X Versions
    BY <2>1 DEF Body
  <2> QED BY <2>2 DEF Fresh, Files
<1>4. Types
  BY <1>1, <1>2, <1>3, NoRunType, NoTagsType DEF Types
<1>5. run.pc = "idle" /\ run.mode = "none" /\ run.exit = "none"
  BY <1>2 DEF NoRun
<1> QED BY <1>4, <1>5 DEF IInv, Shape, GenSoFar, CheckSoFar, StoreSoFar, CleanMeansTied, NoFalseDrift,
                         StoreHeals, Stored, Ran

LEMMA EditKeeps ==
  ASSUME IInv,
         \/ \E j \in Range(Jobs), v \in Versions : ChangeSource(j, v)
         \/ \E o \in Outputs : EditArtifact(o)
         \/ \E d \in DOMAIN blobs : DamageBlob(d)
  PROVE  IInv'
<1>1. Types
  BY DEF IInv
<1>2. run' = NoRun /\ start' = {}
  BY DEF ChangeSource, EditArtifact, DamageBlob, Edit
<1>3. ASSUME NEW j \in Range(Jobs), NEW v \in Versions, ChangeSource(j, v) PROVE Types'
  <2>1. source' = [source EXCEPT ![j] = v] /\ UNCHANGED <<tree, blobs, index>>
    BY <1>3 DEF ChangeSource
  <2> QED BY <1>1, <1>2, <2>1, NoRunType DEF Types
<1>4. ASSUME NEW o \in Outputs, EditArtifact(o) PROVE Types'
  <2>1. PICK c \in {Edited(o), Missing} : tree' = [tree EXCEPT ![o] = c]
    BY <1>4 DEF EditArtifact
  <2>2. c \in Files
    BY <1>1, <2>1, EditedType, FileFacts
  <2>3. UNCHANGED <<source, blobs, index>>
    BY <1>4 DEF EditArtifact
  <2> QED BY <1>1, <1>2, <2>1, <2>2, <2>3, NoRunType DEF Types
<1>5. ASSUME NEW d \in DOMAIN blobs, DamageBlob(d) PROVE Types'
  <2>1. blobs' = [blobs EXCEPT ![d] = EmptyFile] /\ UNCHANGED <<source, tree, index>>
    BY <1>5 DEF DamageBlob
  <2>2. PICK S \in SUBSET Files : blobs \in [S -> Files]
    BY <1>1 DEF Types, FileMaps
  <2>3. blobs' \in [S -> Files]
    BY <2>1, <2>2, FileFacts
  <2>4. blobs' \in FileMaps(Files)
    BY <2>3 DEF FileMaps
  <2> QED BY <1>1, <1>2, <2>1, <2>4, NoRunType DEF Types
<1> QED BY <1>2, <1>3, <1>4, <1>5, IdleInv

LEMMA BeginKeeps ==
  ASSUME IInv, NEW mode \in {"gen", "store", "check"}, NEW s \in Stamps, Begin(mode, s)
  PROVE  IInv'
<1> DEFINE refused == [NoRun EXCEPT !.mode = mode, !.exit = "1"]
           begun == [NoRun EXCEPT !.pc = "jobs", !.mode = mode, !.todo = JobsListed,
                       !.jobs = Range(JobsListed), !.stamp = s, !.tags = index,
                       !.stage = IF mode = "check" THEN "tied" ELSE "reflecting"]
<1>1. Types
  BY DEF IInv
<1>2. /\ start' = {o \in Outputs : Tied(o)} /\ UNCHANGED <<source, tree, blobs, index>>
      /\ run' = refused \/ run' = begun
  BY StepFacts DEF Begin, Tied
<1>3. CASE run' = refused
  <2>1. refused \in Runs /\ refused.pc = "idle" /\ refused.exit = "1" /\ refused.jobs = {}
    <3>1. NoTags \in FileMaps(Outputs) /\ <<>> \in Seq(Range(Jobs))
      BY NoTagsType
    <3> QED BY <3>1 DEF NoRun, Runs
  <2>2. Types'
    BY <1>1, <1>2, <1>3, <2>1 DEF Types
  <2> QED BY <1>3, <2>1, <2>2, GaveUpInv
<1>4. CASE run' = begun
  <2>1. /\ begun.pc = "jobs" /\ begun.exit = "none" /\ begun.mode = mode /\ begun.todo = JobsListed
        /\ begun.jobs = Range(JobsListed) /\ begun.tags = index /\ begun.drifted = {}
        /\ begun.stage = IF mode = "check" THEN "tied" ELSE "reflecting"
    BY DEF NoRun
  <2>2. begun \in Runs
    <3>1. index \in FileMaps(Outputs)
      BY <1>1 DEF Types
    <3> QED BY <3>1, JobFacts DEF NoRun, Runs
  <2> HIDE DEF begun
  <2>3. Types'
    BY <1>1, <1>2, <1>4, <2>2 DEF Types
  <2>4. /\ \A o \in Checked' : Owner[o] \in Range(run'.todo)
        /\ Range(run'.todo) \subseteq run'.jobs
    BY <1>4, <2>1 DEF Checked
  <2>5. GenSoFar'
    BY <2>4 DEF GenSoFar
  <2>6. \A o \in Outputs : Tied(o)' <=> o \in start'
    BY <1>2 DEF Tied, Body
  <2>7. CheckSoFar'
    BY <1>2, <1>4, <2>1, <2>4, <2>6 DEF CheckSoFar, Checked
  <2> QED BY <1>4, <2>1, <2>3, <2>4, <2>5, <2>7, JobsInv
<1> QED BY <1>2, <1>3, <1>4

-----------------------------------------------------------------------------
(* The jobs.                                                               *)

\* What a run is while it has jobs to do.
LEMMA JobFacts2 ==
  ASSUME IInv, run.pc = "jobs", run.todo # <<>>
  PROVE  /\ Types /\ run \in Runs /\ run.exit = "none" /\ run.mode # "none"
         /\ Head(run.todo) \in Range(Jobs) /\ Tail(run.todo) \in Seq(Range(Jobs))
         /\ Range(run.todo) = {Head(run.todo)} \cup Range(Tail(run.todo))
<1>1. Types /\ run \in Runs /\ run.todo \in Seq(Range(Jobs))
  BY DEF IInv, Types, Runs
<1>2. run.exit = "none" /\ run.mode # "none"
  BY DEF IInv, Shape
<1> QED BY <1>1, <1>2, QueueFacts

LEMMA GenJobKeeps ==
  ASSUME IInv, GenJob
  PROVE  IInv'
<1> DEFINE j == Head(run.todo)
<1>1. /\ run.pc = "jobs" /\ run.mode # "check" /\ run.todo # <<>>
      /\ UNCHANGED <<source, blobs, index, start>>
      /\ \/ tree' = Generated(j) /\ run' = [run EXCEPT !.todo = Tail(run.todo)]
         \/ /\ tree' \in HalfGenerated(j)
            /\ run' = [run EXCEPT !.todo = Tail(run.todo), !.failed = TRUE]
  BY DEF GenJob, GenFails
<1>2. /\ Types /\ run \in Runs /\ run.exit = "none" /\ run.mode # "none"
      /\ Tail(run.todo) \in Seq(Range(Jobs))
      /\ Range(run.todo) = {j} \cup Range(Tail(run.todo))
  BY <1>1, JobFacts2
<1>3. run.stage = "reflecting" /\ Range(run.todo) \subseteq run.jobs
  BY <1>1 DEF IInv, Shape
<1> HIDE DEF j
<1>4. /\ run' \in Runs /\ run'.pc = "jobs" /\ run'.exit = "none" /\ run'.mode = run.mode
      /\ run'.stage = run.stage /\ run'.todo = Tail(run.todo) /\ run'.jobs = run.jobs
  BY ZenonT(60), <1>1, <1>2 DEF Runs
<1>5. tree' \in [Outputs -> Files]
  BY <1>1, <1>2, GeneratedFacts, HalfGeneratedType
<1>6. Types'
  BY <1>1, <1>2, <1>4, <1>5 DEF Types
<1>7. GenSoFar'
  <2>1. CASE tree' = Generated(j) /\ run' = [run EXCEPT !.todo = Tail(run.todo)]
    <3>1. run'.failed = run.failed
      BY <1>2, <2>1 DEF Runs
    <3> SUFFICES ASSUME ~run.failed, NEW o \in Checked
                 PROVE  Owner[o] \in Range(run'.todo) \/ Tied(o)'
      BY <1>4, <3>1 DEF GenSoFar, Checked
    <3>2. o \in Outputs /\ (Owner[o] \in Range(run.todo) \/ Tied(o))
      BY <1>1 DEF IInv, GenSoFar, Checked
    <3>3. tree'[o] = IF Owner[o] = j THEN Fresh(o, run.stamp) ELSE tree[o]
      BY <1>2, <2>1, <3>2, GeneratedFacts
    <3>4. Body(o)' = Body(o)
      BY <1>1 DEF Body
    <3>5. CASE Owner[o] = j
      BY <3>3, <3>4, <3>5, FileFacts DEF Tied
    <3>6. CASE Owner[o] # j
      BY <1>2, <1>4, <3>2, <3>3, <3>4, <3>6 DEF Tied
    <3> QED BY <3>5, <3>6
  <2>2. CASE run' = [run EXCEPT !.todo = Tail(run.todo), !.failed = TRUE]
    <3>1. run'.failed
      BY <1>2, <2>2 DEF Runs
    <3> QED BY <3>1 DEF GenSoFar
  <2> QED BY <1>1, <2>1, <2>2
<1>8. CheckSoFar'
  BY <1>1, <1>4 DEF CheckSoFar
<1> QED BY <1>2, <1>3, <1>4, <1>6, <1>7, <1>8, JobsInv

\* A job of a check: the verdict on its artifacts is the right one.
LEMMA CheckJobKeeps ==
  ASSUME IInv, CheckJob
  PROVE  IInv'
<1> DEFINE j == Head(run.todo)
           found == {o \in OutputsOf(j) : Differs(o) \/ Verify(o, tree'[o]) = "mismatch"}
<1>1. /\ run.pc = "jobs" /\ run.mode = "check" /\ run.todo # <<>>
      /\ tree' = Generated(j) /\ UNCHANGED <<source, blobs, index, start>>
      /\ run' = [run EXCEPT !.todo = Tail(run.todo), !.drifted = run.drifted \cup found]
  BY DEF CheckJob
<1>2. /\ Types /\ run \in Runs /\ run.exit = "none"
      /\ Tail(run.todo) \in Seq(Range(Jobs)) /\ j \in Range(Jobs)
      /\ Range(run.todo) = {j} \cup Range(Tail(run.todo))
  BY <1>1, JobFacts2
<1>3. found \subseteq Outputs /\ \A o \in found : Owner[o] = j
  BY DEF OutputsOf
<1>4. \A o \in Outputs : o \in found <=> Owner[o] = j /\ (Differs(o) \/ Verify(o, tree'[o]) = "mismatch")
  BY DEF OutputsOf
<1> HIDE DEF j, found
<1>5. /\ run' \in Runs /\ run'.pc = "jobs" /\ run'.exit = "none" /\ run'.mode = "check"
      /\ run'.todo = Tail(run.todo) /\ run'.jobs = run.jobs /\ run'.tags = run.tags
      /\ run'.drifted = run.drifted \cup found
  BY <1>1, <1>2, <1>3 DEF Runs
<1>6. tree' \in [Outputs -> Files]
  BY <1>1, <1>2, GeneratedFacts
<1>7. Types'
  BY <1>1, <1>2, <1>5, <1>6 DEF Types
<1>8. /\ run.tags = index /\ run.drifted \subseteq Checked
      /\ \A o \in Checked :
           \/ Owner[o] \in Range(run.todo) /\ (Tied(o) <=> o \in start) /\ o \notin run.drifted
           \/ Tied(o) /\ (o \in run.drifted <=> o \notin start \/ StoredOther(o))
  BY <1>1 DEF IInv, CheckSoFar
<1>9. Checked' = Checked
  BY <1>5 DEF Checked
<1>10. run'.drifted \subseteq Checked
  <2>1. j \in run.jobs \/ found = {}
    BY <1>1, <1>2 DEF IInv, Shape
  <2> QED BY <1>3, <1>5, <1>8, <2>1 DEF Checked
<1>11. ASSUME NEW o \in Checked
       PROVE  \/ Owner[o] \in Range(run'.todo) /\ (Tied(o)' <=> o \in start') /\ o \notin run'.drifted
              \/ Tied(o)' /\ (o \in run'.drifted <=> o \notin start' \/ StoredOther(o)')
  <2>1. o \in Outputs /\ tree'[o] = IF Owner[o] = j THEN Fresh(o, run.stamp) ELSE tree[o]
    BY <1>1, <1>2, GeneratedFacts DEF Checked
  <2>2. Body(o)' = Body(o) /\ (StoredOther(o)' <=> StoredOther(o)) /\ start' = start
    BY <1>1, SameVerdicts
  <2>3. CASE Owner[o] # j
    <3>1. (Tied(o)' <=> Tied(o)) /\ (o \in run'.drifted <=> o \in run.drifted)
      BY <1>3, <1>5, <2>1, <2>2, <2>3 DEF Tied
    <3>2. Owner[o] \in Range(run.todo) => Owner[o] \in Range(run'.todo)
      BY <1>2, <1>5, <2>3
    <3> QED BY <1>8, <2>2, <3>1, <3>2
  <2>4. CASE Owner[o] = j
    <3>1. tree'[o].body = Body(o) /\ tree'[o] # Missing
      BY <2>1, <2>4, FileFacts
    <3>2. Tied(o)'
      BY <2>2, <3>1 DEF Tied
    <3>3. Differs(o) <=> ~Tied(o)
      BY <3>1 DEF Differs, StripHeader, Tied
    <3>4. Verify(o, tree'[o]) = "mismatch" <=> StoredOther(o)
      BY <1>8, <3>1 DEF Verify, StoredOther, StripHeader
    <3>5. o \in run'.drifted <=> o \in run.drifted \/ ~Tied(o) \/ StoredOther(o)
      BY <1>4, <1>5, <2>1, <2>4, <3>3, <3>4
    <3> QED BY <1>8, <2>2, <3>2, <3>5
  <2> QED BY <2>3, <2>4
<1>12. CheckSoFar'
  BY <1>1, <1>5, <1>8, <1>9, <1>10, <1>11 DEF CheckSoFar
<1>13. GenSoFar' /\ Range(run'.todo) \subseteq run'.jobs
  BY <1>1, <1>2, <1>5 DEF GenSoFar, IInv, Shape
<1> QED BY <1>5, <1>7, <1>12, <1>13, JobsInv

\* A job of a check that fails ends it.
LEMMA CheckFailsKeeps ==
  ASSUME IInv, CheckFails
  PROVE  IInv'
<1>1. /\ run.pc = "jobs" /\ UNCHANGED <<source, blobs, index, start>>
      /\ tree' \in HalfGenerated(Head(run.todo)) /\ run' = [Exit("1") EXCEPT !.failed = TRUE]
  BY DEF CheckFails
<1>2. Types
  BY DEF IInv
<1>3. Exit("1") \in Runs /\ Exit("1").pc = "idle" /\ Exit("1").exit = "1"
  BY <1>2, ExitFacts
<1>4. run' \in Runs /\ run'.pc = "idle" /\ run'.exit = "1" /\ run'.failed
  BY <1>1, <1>3 DEF Runs
<1>5. Types'
  BY <1>1, <1>2, <1>4, HalfGeneratedType DEF Types
<1> QED BY <1>4, <1>5, GaveUpInv

\* A check whose jobs all ran: what it found is what it says.
LEMMA CheckEndsKeeps ==
  ASSUME IInv, CheckEnds
  PROVE  IInv'
<1> DEFINE code == IF run.drifted = {} THEN "0" ELSE "1"
<1>1. /\ run.pc = "jobs" /\ run.mode = "check" /\ run.todo = <<>> /\ run' = Exit(code)
      /\ UNCHANGED <<source, tree, blobs, index, start>>
  BY DEF CheckEnds
<1>2. Types
  BY DEF IInv
<1>3. code \in {"0", "1"} /\ (code = "0" <=> run.drifted = {}) /\ code # "killed"
  OBVIOUS
<1> HIDE DEF code
<1>4. /\ run' \in Runs /\ run'.pc = "idle" /\ run'.exit = code /\ run'.mode = "check"
      /\ run'.jobs = run.jobs
  BY <1>1, <1>2, <1>3, ExitFacts
<1>5. Types'
  BY <1>1, <1>2, <1>4 DEF Types
<1>6. Checked' = Checked
  BY <1>4 DEF Checked
<1>7. /\ run.drifted \subseteq Checked
      /\ \A o \in Checked : o \in run.drifted <=> o \notin start \/ StoredOther(o)
  <2>1. \A o : Owner[o] \notin Range(run.todo)
    BY <1>1, EmptyQueue
  <2> QED BY <1>1, <2>1 DEF IInv, CheckSoFar
<1>8. \A o : StoredOther(o)' <=> StoredOther(o)
  BY <1>1, SameVerdicts
<1>9. CleanMeansTied'
  <2>1. run'.exit = "0" => \A o \in Checked : o \in start /\ ~StoredOther(o)
    BY <1>3, <1>4, <1>7
  <2> QED BY <1>1, <1>4, <1>6, <1>8, <2>1 DEF CleanMeansTied, Ran
<1>10. NoFalseDrift'
  <2>1. run'.exit = "1" => \E o \in Checked : o \notin start \/ StoredOther(o)
    BY <1>3, <1>4, <1>7
  <2> QED BY <1>1, <1>6, <1>8, <2>1 DEF NoFalseDrift, Ran
<1>11. StoreHeals'
  BY <1>4 DEF StoreHeals, Stored, Ran
<1> QED BY <1>4, <1>5, <1>9, <1>10, <1>11, ExitInv

\* A gen whose jobs have all been run.
LEMMA GenEndsKeeps ==
  ASSUME IInv, GenEnds
  PROVE  IInv'
<1>1. /\ run.pc = "jobs" /\ run.mode = "gen" /\ run.todo = <<>>
      /\ run' = [Exit(GenExit) EXCEPT !.stage = Step(Step(run.stage, "check"), "emit")]
      /\ UNCHANGED <<source, tree, blobs, index, start>>
  BY DEF GenEnds
<1>2. Types /\ run.stage = "reflecting"
  BY <1>1 DEF IInv, Shape
<1>3. GenExit \in {"0", "1", "killed"} /\ (GenExit = "0" <=> ~run.failed)
  BY DEF GenExit
<1>4. /\ Exit(GenExit) \in Runs /\ Exit(GenExit).pc = "idle" /\ Exit(GenExit).exit = GenExit
      /\ Exit(GenExit).mode = "gen" /\ Exit(GenExit).jobs = run.jobs
  BY <1>1, <1>2, <1>3, ExitFacts
<1>5. run' = [Exit(GenExit) EXCEPT !.stage = "emitted"]
  BY <1>1, <1>2, StepFacts
<1>6. /\ run' \in Runs /\ run'.pc = "idle" /\ run'.exit = GenExit /\ run'.mode = "gen"
      /\ run'.jobs = run.jobs
  BY <1>4, <1>5 DEF Runs
<1>7. Types'
  BY <1>1, <1>2, <1>6 DEF Types
<1>8. ~run.failed => \A o \in Checked : Tied(o)
  BY <1>1, EmptyQueue DEF IInv, GenSoFar
<1>9. CleanMeansTied'
  <2>1. ~run.failed => \A o \in Checked' : Tied(o)'
    BY <1>1, <1>6, <1>8 DEF Checked, Tied, Body
  <2> QED BY <1>3, <1>6, <2>1 DEF CleanMeansTied, Ran, Tied
<1>10. NoFalseDrift' /\ StoreHeals'
  BY <1>6 DEF NoFalseDrift, StoreHeals, Stored, Ran
<1> QED BY <1>6, <1>7, <1>9, <1>10, ExitInv

-----------------------------------------------------------------------------
(* The store.                                                              *)

LEMMA StoreBeginsKeeps ==
  ASSUME IInv, StoreBegins
  PROVE  IInv'
<1> DEFINE pairs == {o \in Outputs : Owner[o] \in run.jobs /\ tree[o] # Missing}
<1>1. /\ run.pc = "jobs" /\ run.mode = "store" /\ run.todo = <<>>
      /\ run' = [run EXCEPT !.pc = "store", !.stage = Step(Step(run.stage, "check"), "emit"),
                            !.pairs = pairs]
      /\ UNCHANGED <<source, tree, blobs, index, start>>
  BY DEF StoreBegins
<1>2. /\ Types /\ run \in Runs /\ run.stage = "reflecting" /\ run.exit = "none"
  BY <1>1 DEF IInv, Shape, Types
<1>3. run' = [run EXCEPT !.pc = "store", !.stage = "emitted", !.pairs = pairs]
  BY ZenonT(60), <1>1, <1>2, StepFacts
<1>4. pairs \in SUBSET Outputs /\ \A o \in Checked : tree[o] # Missing => o \in pairs
  BY DEF Checked
<1> HIDE DEF pairs
<1>5. /\ run' \in Runs /\ run'.pc = "store" /\ run'.exit = "none" /\ run'.mode = "store"
      /\ run'.jobs = run.jobs /\ run'.failed = run.failed /\ run'.pairs = pairs
  BY <1>1, <1>2, <1>3, <1>4 DEF Runs
<1>6. Types'
  BY <1>1, <1>2, <1>5 DEF Types
<1>7. ~run.failed => \A o \in Checked : Tied(o)
  BY <1>1, EmptyQueue DEF IInv, GenSoFar
<1>8. Checked' = Checked /\ \A o : Tied(o)' <=> Tied(o)
  BY <1>1, <1>5 DEF Checked, Tied, Body
<1>9. StoreSoFar'
  BY <1>1, <1>4, <1>5, <1>7, <1>8 DEF StoreSoFar
<1> QED BY <1>5, <1>6, <1>9, StoreInv

\* What a run is while it stores.
LEMMA StoreFacts ==
  ASSUME IInv, run.pc \in {"store", "index"}
  PROVE  /\ Types /\ run \in Runs /\ run.exit = "none" /\ run.mode = "store"
         /\ run.pairs \in SUBSET Outputs
         /\ ~run.failed => \A o \in Checked : Tied(o)
         /\ \A o \in Checked : tree[o] # Missing /\ o \notin run.pairs => Blob(tree[o]) = tree[o]
         /\ run.pc = "index" => run.pairs = {}
<1>1. Types /\ run \in Runs /\ run.pairs \in SUBSET Outputs
  BY DEF IInv, Types, Runs
<1>2. run.exit = "none" /\ run.mode = "store"
  BY DEF IInv, Shape
<1> QED BY <1>1, <1>2 DEF IInv, StoreSoFar

LEMMA StoreBlobKeeps ==
  ASSUME IInv, NEW p \in Outputs, StoreBlob(p)
  PROVE  IInv'
<1> DEFINE f == tree[p]
           tags == Put(run.tags, p, f)
<1>1. /\ run.pc = "store" /\ p \in run.pairs /\ blobs' = Put(blobs, f, f)
      /\ run' = [run EXCEPT !.tags = tags, !.pairs = run.pairs \ {p}]
      /\ UNCHANGED <<source, tree, index, start>>
  BY DEF StoreBlob, WriteBlob
<1>2. /\ Types /\ run \in Runs /\ run.exit = "none" /\ run.mode = "store"
      /\ run.pairs \in SUBSET Outputs
      /\ ~run.failed => \A o \in Checked : Tied(o)
      /\ \A o \in Checked : tree[o] # Missing /\ o \notin run.pairs => Blob(tree[o]) = tree[o]
  BY <1>1, StoreFacts
<1>3. f \in Files
  BY <1>2 DEF Types
<1>4. tags \in FileMaps(Outputs)
  <2>1. run.tags \in FileMaps(Outputs)
    BY <1>2 DEF Runs
  <2> QED BY <1>3, <2>1, PutType
<1>5. blobs' \in FileMaps(Files) /\ \A x : Blob(x)' = IF x = f THEN f ELSE Blob(x)
  BY <1>1, <1>2, <1>3, BlobPut
<1> HIDE DEF tags
<1>6. /\ run' \in Runs /\ run'.pc = "store" /\ run'.exit = "none" /\ run'.mode = "store"
      /\ run'.jobs = run.jobs /\ run'.failed = run.failed /\ run'.pairs = run.pairs \ {p}
  BY <1>1, <1>2, <1>4 DEF Runs
<1>7. Types'
  BY <1>1, <1>2, <1>5, <1>6 DEF Types
<1>8. Checked' = Checked /\ \A o : Tied(o)' <=> Tied(o)
  BY <1>1, <1>6 DEF Checked, Tied, Body
<1>9. ASSUME NEW o \in Checked, tree[o] # Missing, o \notin run'.pairs
      PROVE  Blob(tree[o])' = tree[o]
  <2>1. Blob(tree[o])' = IF tree[o] = f THEN f ELSE Blob(tree[o])
    <3>1. Blob(tree[o])' = IF tree'[o] = f THEN f ELSE Blob(tree'[o])
      BY <1>5 DEF Blob
    <3> QED BY <1>1, <3>1
  <2>2. CASE o = p
    BY <2>1, <2>2
  <2>3. CASE o # p
    BY <1>2, <1>6, <1>9, <2>1, <2>3
  <2> QED BY <2>2, <2>3
<1>10. StoreSoFar'
  BY <1>1, <1>2, <1>6, <1>8, <1>9 DEF StoreSoFar
<1> QED BY <1>6, <1>7, <1>10, StoreInv

LEMMA StoreFailsKeeps ==
  ASSUME IInv, NEW p \in Outputs, StoreFails(p)
  PROVE  IInv'
<1>1. /\ run.pc = "store" /\ run' = Exit("1") /\ UNCHANGED <<source, tree, index, start>>
  BY DEF StoreFails
<1>2. blobs' = blobs \/ \E c \in CutFiles : blobs' = Put(blobs, tree[p], c)
  BY DEF StoreFails
<1>3. Types /\ run.mode = "store" /\ tree[p] \in Files /\ CutFiles \subseteq Files
  BY <1>1, StoreFacts, FileFacts DEF Types
<1>4. blobs' \in FileMaps(Files)
  <2>1. CASE blobs' = blobs
    BY <1>3, <2>1 DEF Types
  <2>2. ASSUME NEW c \in CutFiles, blobs' = Put(blobs, tree[p], c) PROVE blobs' \in FileMaps(Files)
    BY <1>3, <2>2, BlobPut
  <2> QED BY <1>2, <2>1, <2>2
<1>5. run' \in Runs /\ run'.pc = "idle" /\ run'.exit = "1" /\ run'.mode = "store"
  BY <1>1, <1>3, ExitFacts
<1>6. Types'
  BY <1>1, <1>3, <1>4, <1>5 DEF Types
<1> QED BY <1>5, <1>6, GaveUpInv

LEMMA VerifyAllKeeps ==
  ASSUME IInv, VerifyAll
  PROVE  IInv'
<1>1. /\ run.pc = "store" /\ run.pairs = {} /\ UNCHANGED <<source, tree, blobs, index, start>>
      /\ run' = [run EXCEPT !.pc = "index"] \/ run' = Exit("1")
  BY DEF VerifyAll
<1>2. /\ Types /\ run \in Runs /\ run.exit = "none" /\ run.mode = "store"
      /\ ~run.failed => \A o \in Checked : Tied(o)
      /\ \A o \in Checked : tree[o] # Missing /\ o \notin run.pairs => Blob(tree[o]) = tree[o]
  BY <1>1, StoreFacts
<1>3. CASE run' = [run EXCEPT !.pc = "index"]
  <2>1. /\ run' \in Runs /\ run'.pc = "index" /\ run'.exit = "none" /\ run'.mode = "store"
        /\ run'.jobs = run.jobs /\ run'.failed = run.failed /\ run'.pairs = {}
    BY <1>1, <1>2, <1>3 DEF Runs
  <2>2. Types'
    BY <1>1, <1>2, <2>1 DEF Types
  <2>3. /\ Checked' = Checked
        /\ \A o : (Tied(o)' <=> Tied(o)) /\ Blob(tree[o])' = Blob(tree[o])
    BY <1>1, <2>1 DEF Checked, Tied, Body, Blob
  <2>4. StoreSoFar'
    BY <1>1, <1>2, <2>1, <2>3 DEF StoreSoFar
  <2> QED BY <2>1, <2>2, <2>4, StoreInv
<1>4. CASE run' = Exit("1")
  <2>1. run' \in Runs /\ run'.pc = "idle" /\ run'.exit = "1" /\ run'.mode = "store"
    BY <1>2, <1>4, ExitFacts
  <2>2. Types'
    BY <1>1, <1>2, <2>1 DEF Types
  <2> QED BY <2>1, <2>2, GaveUpInv
<1> QED BY <1>1, <1>3, <1>4

LEMMA WriteIndexKeeps ==
  ASSUME IInv, WriteIndex
  PROVE  IInv'
<1>1. /\ run.pc = "index" /\ index' \in {run.tags, index, NoTags} /\ run' = Exit(GenExit)
      /\ UNCHANGED <<source, tree, blobs, start>>
  BY DEF WriteIndex
<1>2. /\ Types /\ run \in Runs /\ run.mode = "store" /\ run.pairs = {}
      /\ ~run.failed => \A o \in Checked : Tied(o)
      /\ \A o \in Checked : tree[o] # Missing /\ o \notin run.pairs => Blob(tree[o]) = tree[o]
  BY <1>1, StoreFacts
<1>3. GenExit \in {"0", "1", "killed"} /\ (GenExit = "0" <=> ~run.failed)
  BY DEF GenExit
<1>4. /\ run' \in Runs /\ run'.pc = "idle" /\ run'.exit = GenExit /\ run'.mode = "store"
      /\ run'.jobs = run.jobs
  BY <1>1, <1>2, <1>3, ExitFacts
<1>5. index' \in FileMaps(Outputs)
  <2>1. run.tags \in FileMaps(Outputs) /\ index \in FileMaps(Outputs)
    BY <1>2 DEF Runs, Types
  <2> QED BY <1>1, <2>1, NoTagsType
<1>6. Types'
  BY <1>1, <1>2, <1>4, <1>5 DEF Types
<1>7. /\ Checked' = Checked
      /\ \A o : (Tied(o)' <=> Tied(o)) /\ Blob(tree[o])' = Blob(tree[o])
  BY <1>1, <1>4 DEF Checked, Tied, Body, Blob
<1>8. CleanMeansTied'
  BY <1>2, <1>3, <1>4, <1>7 DEF CleanMeansTied, Ran, Tied
<1>9. StoreHeals'
  BY <1>1, <1>2, <1>7 DEF StoreHeals
<1>10. NoFalseDrift'
  BY <1>4 DEF NoFalseDrift, Ran
<1> QED BY <1>4, <1>6, <1>8, <1>9, <1>10, ExitInv

LEMMA KilledKeeps ==
  ASSUME IInv, Killed
  PROVE  IInv'
<1>1. /\ tree' = tree \/ tree' \in HalfGenerated(Head(run.todo))
      /\ blobs' \in {blobs} \cup {Put(blobs, tree[o], c) : o \in run.pairs, c \in CutFiles}
      /\ index' \in {index, NoTags} /\ run' = Exit("killed") /\ UNCHANGED <<source, start>>
  BY DEF Killed
<1>2. Types /\ run \in Runs /\ run.pairs \in SUBSET Outputs
  BY DEF IInv, Types, Runs
<1>3. run' \in Runs /\ run'.pc = "idle" /\ run'.exit = "killed"
  BY <1>1, <1>2, ExitFacts
<1>4. tree' \in [Outputs -> Files]
  <2>1. tree \in [Outputs -> Files]
    BY <1>2 DEF Types
  <2> QED BY <1>1, <1>2, <2>1, HalfGeneratedType
<1>5. blobs' \in FileMaps(Files)
  <2>1. CASE blobs' = blobs
    BY <1>2, <2>1 DEF Types
  <2>2. ASSUME NEW o \in run.pairs, NEW c \in CutFiles, blobs' = Put(blobs, tree[o], c)
        PROVE  blobs' \in FileMaps(Files)
    <3>1. tree[o] \in Files /\ c \in Files
      BY <1>2, FileFacts DEF Types
    <3> QED BY <1>2, <2>2, <3>1, BlobPut
  <2> QED BY <1>1, <2>1, <2>2
<1>6. index' \in FileMaps(Outputs)
  BY <1>1, <1>2, NoTagsType DEF Types
<1>7. Types'
  BY <1>1, <1>2, <1>3, <1>4, <1>5, <1>6 DEF Types
<1> QED BY <1>3, <1>7, GaveUpInv

-----------------------------------------------------------------------------

LEMMA StutterKeeps ==
  ASSUME IInv, UNCHANGED vars
  PROVE  IInv'
BY DEF vars, IInv, Types, Shape, GenSoFar, CheckSoFar, StoreSoFar, CleanMeansTied, NoFalseDrift,
       StoreHeals, Tied, Checked, StoredOther, Stored, Ran, StripHeader, Blob, Body

LEMMA StepIInv == IInv /\ [Next]_vars => IInv'
<1> SUFFICES ASSUME IInv, [Next]_vars PROVE IInv'
  OBVIOUS
<1>1. CASE \/ \E j \in Range(Jobs), v \in Versions : ChangeSource(j, v)
           \/ \E o \in Outputs : EditArtifact(o)
           \/ \E d \in DOMAIN blobs : DamageBlob(d)
  BY <1>1, EditKeeps
<1>2. ASSUME NEW mode \in {"gen", "store", "check"}, NEW s \in Stamps, Begin(mode, s) PROVE IInv'
  BY <1>2, BeginKeeps
<1>3. CASE GenJob \/ CheckJob \/ CheckFails \/ CheckEnds \/ GenEnds
  BY <1>3, GenJobKeeps, CheckJobKeeps, CheckFailsKeeps, CheckEndsKeeps, GenEndsKeeps
<1>4. CASE StoreBegins \/ VerifyAll \/ WriteIndex \/ Killed
  BY <1>4, StoreBeginsKeeps, VerifyAllKeeps, WriteIndexKeeps, KilledKeeps
<1>5. ASSUME NEW o \in Outputs, StoreBlob(o) \/ StoreFails(o) PROVE IInv'
  BY <1>5, StoreBlobKeeps, StoreFailsKeeps
<1>6. CASE UNCHANGED vars
  BY <1>6, StutterKeeps
<1> QED BY <1>1, <1>2, <1>3, <1>4, <1>5, <1>6 DEF Next

\* What a run has established half way stays true: the inductive invariant.
THEOREM DriverInvariant == Spec => []IInv
BY InitIInv, StepIInv, PTL DEF Spec

\* What is read of the store and of its index are files; and the stages of a run are those
\* of the pipeline's machine: it never refuses one.
THEOREM DriverTypes == Spec => []TypeOK
<1>1. IInv => TypeOK
  <2> SUFFICES ASSUME IInv PROVE TypeOK
    OBVIOUS
  <2>1. Types /\ run \in Runs
    BY DEF IInv, Types
  <2>2. ASSUME NEW D, NEW f \in FileMaps(D) PROVE DOMAIN f \subseteq D /\ Range(f) \subseteq Files
    <3>1. PICK S \in SUBSET D : f \in [S -> Files]
      BY DEF FileMaps
    <3> QED BY <3>1 DEF Range
  <2>3. run.tags \in FileMaps(Outputs)
    BY <2>1 DEF Runs
  <2>4. /\ DOMAIN blobs \subseteq Files /\ Range(blobs) \subseteq Files
        /\ DOMAIN index \subseteq Outputs /\ Range(index) \subseteq Files
        /\ DOMAIN run.tags \subseteq Outputs /\ Range(run.tags) \subseteq Files
    BY <2>1, <2>2, <2>3 DEF Types
  <2> QED BY <2>1, <2>4 DEF TypeOK, Types, Runs
<1> QED BY <1>1, DriverInvariant, PTL

\* A check that exits with 0 found every artifact with the body its generator produces, and
\* so does every blob the index names; after a gen or a store that exits with 0 the tree is
\* regenerated.  Whatever failed, was cut off or damaged before.
THEOREM VerdictsRight == Spec => []CleanMeansTied
<1>1. IInv => CleanMeansTied
  BY DEF IInv
<1> QED BY <1>1, DriverInvariant, PTL

\* A check whose jobs all ran and that exits with 1 names an artifact, or a blob of the
\* index, that really is not tied.
THEOREM DriftIsReal == Spec => []NoFalseDrift
<1>1. IInv => NoFalseDrift
  BY DEF IInv
<1> QED BY <1>1, DriverInvariant, PTL

\* A store that has stored its pairs has a whole blob for every artifact that is there,
\* whatever was cut or damaged under its digest before.
THEOREM StoreIsHealed == Spec => []StoreHeals
<1>1. IInv => StoreHeals
  BY DEF IInv
<1> QED BY <1>1, DriverInvariant, PTL
=============================================================================
