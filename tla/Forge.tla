------------------------------- MODULE Forge --------------------------------
(***************************************************************************)
(* The code generation driver (crates/forge/src/main.rs) and its artifact  *)
(* store (oci.rs): gen, gen --store and gen --check, with generator jobs   *)
(* that fail half way, writes that are cut off (fs::write truncates the    *)
(* file first), a damaged store, hand edits and a driver killed anywhere.  *)
(*                                                                         *)
(* A file is a header stamp, which changes from run to run, and a body;    *)
(* its digest is the file itself (sha256 without collisions).  The         *)
(* generators are external: a job that succeeds writes all its outputs,    *)
(* one that fails any of them, from none to all, with at most one cut.     *)
(* One driver runs at a time, and nobody edits while it runs.              *)
(***************************************************************************)
EXTENDS Naturals, Sequences, FiniteSets, Functions

CONSTANTS
  Listed,      \* the jobs of the manifest that is an artifact, in their order
  Unlisted,    \* the jobs of the other manifest
  Outputs,     \* artifacts
  Owner,       \* [Outputs -> Range(Jobs)]: one writer per artifact
  Manifest,    \* the artifact that is itself a manifest of jobs
  Versions,    \* what the definitions behind a job can be
  Stamps,      \* header stamps
  MaxRuns,     \* bound: runs of the driver
  MaxEdits     \* bound: changes made between runs

\* The jobs of the manifests.
Jobs == Listed \o Unlisted

ASSUME ForgeAssumption ==
  /\ Listed \in Seq(Range(Listed)) /\ Unlisted \in Seq(Range(Unlisted))
  /\ Owner \in [Outputs -> Range(Jobs)]
  /\ Manifest \in Outputs

VARIABLES
  source,    \* the definitions behind each job
  tree,      \* the artifacts in the tree
  blobs,     \* the store's blobs: digest to file
  index,     \* the store's index.json: artifact to digest
  run,       \* the driver
  start,     \* the artifacts the run found tied (history)
  bound      \* runs and edits so far

vars == <<source, tree, blobs, index, run, start, bound>>

Missing == [stamp |-> "none", body |-> <<"missing">>]
EmptyFile == [stamp |-> "none", body |-> <<"empty">>]
Edited(o) == [tree[o] EXCEPT !.body = <<"edited">>]
Body(o) == <<o, source[Owner[o]]>>
Fresh(o, s) == [stamp |-> s, body |-> Body(o)]

\* What a cut-off write leaves of any file: nothing, or a torn body.
CutFiles == {EmptyFile, [stamp |-> "none", body |-> <<"torn">>]}
NoTags == [o \in {} |-> Missing]

\* A map with one entry set: of the store's blobs, of the index's tags.
Put(f, d, e) == [x \in DOMAIN f \cup {d} |-> IF x = d THEN e ELSE f[x]]

\* Mutant of Step: the row from emitted is missing.
StepUntied(stage, event) ==
  CASE stage = "idle" /\ event = "reflect" -> "reflecting"
    [] stage = "reflecting" /\ event = "check" -> "checked"
    [] stage = "checked" /\ event = "emit" -> "emitted"
    [] event = "reset" -> "idle"
    [] OTHER -> "illegal"

\* pipeline_generated::step: the driver's own stages; "illegal" is None, on which
\* advance gives up.
Step(stage, event) ==
  CASE stage = "idle" /\ event = "reflect" -> "reflecting"
    [] stage = "reflecting" /\ event = "check" -> "checked"
    [] stage = "checked" /\ event = "emit" -> "emitted"
    [] stage = "emitted" /\ event = "tie" -> "tied"
    [] event = "reset" -> "idle"
    [] OTHER -> "illegal"

NoRun == [pc |-> "idle", mode |-> "none", exit |-> "none", todo |-> <<>>, jobs |-> {},
          stamp |-> "none", stage |-> "idle", failed |-> FALSE, drifted |-> {},
          tags |-> NoTags, pairs |-> {}]

Init ==
  /\ source \in [Range(Jobs) -> Versions] /\ Cardinality(Range(source)) = 1
  /\ \E s \in Stamps : tree = [o \in Outputs |-> Fresh(o, s)]
  /\ blobs = NoTags /\ index = NoTags
  /\ run = NoRun /\ start = {}
  /\ bound = [runs |-> 0, edits |-> 0]

-----------------------------------------------------------------------------
(* Between runs: the definitions change, files are edited or removed by    *)
(* hand, the cache is damaged.                                             *)

Idle == run.pc = "idle" /\ bound.edits < MaxEdits
Edit == /\ bound' = [bound EXCEPT !.edits = @ + 1]
        /\ run' = NoRun /\ start' = {}

ChangeSource(j, v) ==
  /\ Idle /\ Edit
  /\ source[j] # v
  /\ source' = [source EXCEPT ![j] = v]
  /\ UNCHANGED <<tree, blobs, index>>

EditArtifact(o) ==
  /\ Idle /\ Edit
  /\ tree[o] # Missing
  /\ tree' \in {[tree EXCEPT ![o] = c] : c \in {Edited(o), Missing}}
  /\ UNCHANGED <<source, blobs, index>>

DamageBlob(d) ==
  /\ Idle /\ Edit
  /\ blobs' = [blobs EXCEPT ![d] = EmptyFile]
  /\ UNCHANGED <<source, tree, index>>

-----------------------------------------------------------------------------
(* The store.                                                              *)

\* get(..).unwrap_or_default(): a blob that is not there reads as an empty file.
Blob(d) == IF d \in DOMAIN blobs THEN blobs[d] ELSE EmptyFile

\* Mutant of StripHeader: headers are compared too.
WithHeader(file) == file

\* OciStore::strip_header
StripHeader(file) == file.body

\* Mutant of Verify: the digest stands for the blob, which is not read again.
VerifyDigestOnly(o, file) ==
  IF o \notin DOMAIN run.tags THEN "not stored"
  ELSE IF file = Missing THEN "error"
  ELSE IF StripHeader(file) = StripHeader(run.tags[o]) THEN "match" ELSE "mismatch"

Verify(o, file) ==
  IF o \notin DOMAIN run.tags THEN "not stored"
  ELSE IF file = Missing THEN "error"
  ELSE IF StripHeader(file) = StripHeader(Blob(run.tags[o])) THEN "match" ELSE "mismatch"

\* Mutant of WriteBlob: a digest the store has is not written again.
WriteBlobOnce(file) == IF file \in DOMAIN blobs THEN blobs ELSE Put(blobs, file, file)

\* put writes unconditionally.
WriteBlob(file) == Put(blobs, file, file)

-----------------------------------------------------------------------------
(* A run of the driver.                                                    *)

\* load_jobs: what is cut inside its text is refused; an empty file just lists no jobs.
Unreadable == tree[Manifest].body \in {<<"missing">>, <<"torn">>}
JobsListed == IF tree[Manifest] = EmptyFile THEN Unlisted ELSE Jobs

Begin(mode, s) ==
  /\ run.pc = "idle" /\ bound.runs < MaxRuns
  /\ bound' = [bound EXCEPT !.runs = @ + 1]
  /\ start' = {o \in Outputs : tree[o].body = Body(o)}
  /\ run' = IF Unreadable \/ JobsListed = <<>>
            THEN [NoRun EXCEPT !.mode = mode, !.exit = "1"]
            ELSE [NoRun EXCEPT !.pc = "jobs", !.mode = mode, !.todo = JobsListed,
                               !.jobs = Range(JobsListed), !.stamp = s, !.tags = index,
                               !.stage = IF mode = "check"
                                 THEN Step(Step(Step(Step("idle", "reflect"), "check"), "emit"), "tie")
                                 ELSE Step("idle", "reflect")]
  /\ UNCHANGED <<source, tree, blobs, index>>

OutputsOf(j) == {o \in Outputs : Owner[o] = j}
Exit(code) == [NoRun EXCEPT !.mode = run.mode, !.exit = code, !.jobs = run.jobs,
                            !.failed = run.failed]

\* run_job: the tree after a job that succeeds, and the trees a job that fails, or is
\* killed, can leave.
Generated(j) ==
  [o \in Outputs |-> IF o \in OutputsOf(j) THEN Fresh(o, run.stamp) ELSE tree[o]]
HalfGenerated(j) ==
  {[o \in Outputs |-> IF o \in cut THEN c ELSE IF o \in written THEN Fresh(o, run.stamp) ELSE tree[o]] :
     written \in SUBSET OutputsOf(j), cut \in {{}} \cup {{o} : o \in OutputsOf(j)}, c \in CutFiles}

\* The loop of gen goes on after a job that failed.
GenFails(files) ==
  /\ run' = [run EXCEPT !.todo = Tail(@), !.failed = TRUE]
  /\ tree' = files

GenJob ==
  /\ run.pc = "jobs" /\ run.mode # "check" /\ run.todo # <<>>
  /\ \/ /\ tree' = Generated(Head(run.todo))
        /\ run' = [run EXCEPT !.todo = Tail(@)]
     \/ \E files \in HalfGenerated(Head(run.todo)) : GenFails(files)
  /\ UNCHANGED <<source, blobs, index, start, bound>>

\* The snapshot of the check, taken before its job runs, against what the job left.
Differs(o) == StripHeader(tree[o]) # StripHeader(tree'[o])

\* An error of verify is printed, not counted.
CheckJob ==
  /\ run.pc = "jobs" /\ run.mode = "check" /\ run.todo # <<>>
  /\ tree' = Generated(Head(run.todo))
  /\ run' = [run EXCEPT !.todo = Tail(@),
       !.drifted = @ \cup {o \in OutputsOf(Head(run.todo)) :
                             Differs(o) \/ Verify(o, tree'[o]) = "mismatch"}]
  /\ UNCHANGED <<source, blobs, index, start, bound>>

CheckFails ==
  /\ run.pc = "jobs" /\ run.mode = "check" /\ run.todo # <<>>
  /\ tree' \in HalfGenerated(Head(run.todo))
  /\ run' = [Exit("1") EXCEPT !.failed = TRUE]
  /\ UNCHANGED <<source, blobs, index, start, bound>>

CheckEnds ==
  /\ run.pc = "jobs" /\ run.mode = "check" /\ run.todo = <<>>
  /\ run' = Exit(IF run.drifted = {} THEN "0" ELSE "1")
  /\ UNCHANGED <<source, tree, blobs, index, start, bound>>

GenExit == IF run.failed THEN "1" ELSE "0"

GenEnds ==
  /\ run.pc = "jobs" /\ run.mode = "gen" /\ run.todo = <<>>
  /\ run' = [Exit(GenExit) EXCEPT !.stage = Step(Step(run.stage, "check"), "emit")]
  /\ UNCHANGED <<source, tree, blobs, index, start, bound>>

\* The pairs: what is there of the jobs' outputs, whichever job failed.
StoreBegins ==
  /\ run.pc = "jobs" /\ run.mode = "store" /\ run.todo = <<>>
  /\ run' = [run EXCEPT !.pc = "store", !.stage = Step(Step(@, "check"), "emit"),
       !.pairs = {o \in Outputs : Owner[o] \in run.jobs /\ tree[o] # Missing}]
  /\ UNCHANGED <<source, tree, blobs, index, start, bound>>

\* store_artifacts, a blob at a time; the tags are written to disk by WriteIndex.
StoreBlob(o) ==
  /\ run.pc = "store" /\ o \in run.pairs
  /\ blobs' = WriteBlob(tree[o])
  /\ run' = [run EXCEPT !.tags = Put(@, o, tree[o]), !.pairs = @ \ {o}]
  /\ UNCHANGED <<source, tree, index, start, bound>>

\* The write of a blob fails: before it opened the file, or leaving it cut.
StoreFails(o) ==
  /\ run.pc = "store" /\ o \in run.pairs
  /\ blobs' \in {blobs} \cup {Put(blobs, tree[o], c) : c \in CutFiles}
  /\ run' = Exit("1")
  /\ UNCHANGED <<source, tree, index, start, bound>>

\* Every stored pair is verified against its file; the store is the driver's alone, so
\* none can have changed since.
VerifyAll ==
  /\ run.pc = "store" /\ run.pairs = {}
  /\ run' = IF \A o \in Outputs : Owner[o] \in run.jobs /\ tree[o] # Missing
                                    => Verify(o, tree[o]) = "match"
            THEN [run EXCEPT !.pc = "index"] ELSE Exit("1")
  /\ UNCHANGED <<source, tree, blobs, index, start, bound>>

\* write_index: a failure is printed and the exit code does not tell; the file is left
\* as it was, or cut, which load_tags reads as no tags.
WriteIndex ==
  /\ run.pc = "index"
  /\ index' \in {run.tags, index, NoTags}
  /\ run' = Exit(GenExit)
  /\ UNCHANGED <<source, tree, blobs, start, bound>>

\* The driver is killed: the write under way is cut.
Killed ==
  /\ run.pc # "idle"
  /\ tree' \in IF run.pc = "jobs" /\ run.todo # <<>> THEN HalfGenerated(Head(run.todo)) ELSE {tree}
  /\ blobs' \in {blobs} \cup {Put(blobs, tree[o], c) : o \in run.pairs, c \in CutFiles}
  /\ index' \in IF run.pc = "index" THEN {index, NoTags} ELSE {index}
  /\ run' = Exit("killed")
  /\ UNCHANGED <<source, start, bound>>

Next ==
  \/ \E j \in Range(Jobs), v \in Versions : ChangeSource(j, v)
  \/ \E o \in Outputs : EditArtifact(o) \/ StoreBlob(o) \/ StoreFails(o)
  \/ \E d \in DOMAIN blobs : DamageBlob(d)
  \/ \E mode \in {"gen", "store", "check"}, s \in Stamps : Begin(mode, s)
  \/ GenJob \/ CheckJob \/ CheckFails \/ CheckEnds \/ GenEnds
  \/ StoreBegins \/ VerifyAll \/ WriteIndex \/ Killed

Spec == Init /\ [][Next]_vars

-----------------------------------------------------------------------------

Files == {Missing} \cup CutFiles \cup
  [stamp : Stamps \cup {"none"}, body : {<<"edited">>} \cup (Outputs \X Versions)]

\* Types; the driver never asks its stage machine for a step it refuses ("this abort is
\* unreachable by construction").
TypeOK ==
  /\ source \in [Range(Jobs) -> Versions]
  /\ tree \in [Outputs -> Files] /\ start \subseteq Outputs
  /\ DOMAIN blobs \subseteq Files /\ Range(blobs) \subseteq Files
  /\ DOMAIN index \subseteq Outputs /\ Range(index) \subseteq Files
  /\ DOMAIN run.tags \subseteq Outputs /\ Range(run.tags) \subseteq Files
  /\ run.pc \in {"idle", "jobs", "store", "index"}
  /\ run.exit \in {"none", "0", "1", "killed"}
  /\ run.stage \in {"idle", "reflecting", "checked", "emitted", "tied"}
  /\ run.jobs \subseteq Range(Jobs) /\ run.pairs \subseteq Outputs

Ran(mode, code) == run.mode = mode /\ run.exit = code
Checked == {o \in Outputs : Owner[o] \in run.jobs}
StoredOther(o) == o \in DOMAIN index /\ StripHeader(Blob(index[o])) # Body(o)

\* "Byte-tie clean": what the check found, before it regenerated anything, had the bodies
\* the generators produce, and so has every blob the index names, also after jobs and
\* writes that failed and damage to the store.  The exit code 0 of another run hides no
\* failed job: the tree is regenerated.
CleanMeansTied ==
  /\ Ran("check", "0") => \A o \in Checked : o \in start /\ ~StoredOther(o)
  /\ Ran("gen", "0") \/ Ran("store", "0") => \A o \in Checked : tree[o].body = Body(o)

\* "A mismatch is drift", and the header "may differ freely": a check whose jobs all ran
\* refuses nothing that is tied.
NoFalseDrift ==
  Ran("check", "1") /\ Checked # {} /\ ~run.failed =>
    \E o \in Checked : o \notin start \/ StoredOther(o)

\* "A corrupted cache blob self-heals on the next --store": once every pair is stored,
\* and after a run that says so, every artifact's blob is whole, whatever an earlier run
\* or accident left under its digest.
Stored == (run.pc = "store" /\ run.pairs = {}) \/ run.pc = "index" \/ Ran("store", "0")
StoreHeals ==
  Stored => \A o \in Checked : tree[o] # Missing => Blob(tree[o]) = tree[o]
=============================================================================

