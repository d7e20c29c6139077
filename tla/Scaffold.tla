------------------------------ MODULE Scaffold ------------------------------
(***************************************************************************)
(* go-mk scaffold: create or repair the files through which a repository   *)
(* uses go-makefile, one after the other.  Files that the repository's     *)
(* owner wrote are left alone, generated ones are replaced, and callers of *)
(* the reusable workflows are repaired line by line.  The owner edits the  *)
(* files at any time, and every write truncates its file first.            *)
(* A workflow is modelled by its reusable jobs.                            *)
(***************************************************************************)
EXTENDS Naturals, FiniteSets

CONSTANTS
    ReleaseJobs, CIJobs, \* the jobs a release.yml and a ci.yml call reusable workflows in
    Canonical,     \* the job of each that the embedded workflow has
    DirOf,         \* DirOf[j]: its working_directory
    Names,         \* names of commands
    OwnJobs,       \* the jobs that an owner writes
    MaxOwnerEdits, MaxTorn \* bounds: edits of the owner, runs that fail or are killed

NoName == "none"     \* no command, no BINARY line, no name told
Unsafe == "$(APP)"   \* a value that a workflow is not told
Blank == "blank"     \* a BINARY line without a value
Values == Names \cup {NoName, Unsafe, Blank}
Form == {"absent", "block", "inline"}  \* of a job's with
Literals == {"true", "false"}
JobRecords == [with : Form, cgo : {"absent", "expression"} \cup Literals,
               binary : Names \cup {NoName}, grants : {"short", "full", "own form"}]

ASSUME ScaffoldAssumption ==
    /\ IsFiniteSet(ReleaseJobs \cup CIJobs) /\ ReleaseJobs \cap CIJobs = {}
    /\ Canonical \in SUBSET (ReleaseJobs \cup CIJobs) /\ OwnJobs \subseteq JobRecords
    /\ {MaxOwnerEdits, MaxTorn} \subseteq Nat /\ Names \cap {NoName, Unsafe, Blank} = {}

VARIABLES
    main_command,  \* the command the sources build, NoName for a library
    makefile,      \* its form, and its BINARY
    release, ci_file, \* the two workflow files: their form and jobs
    others,        \* the other files that are not as they should be
    reached,       \* the file the run is at
    plan_for,      \* what the run found: the command, and the binary for the release
    changed,       \* it has changed a file
    renamed,       \* history: it gave a generated Makefile another BINARY
    undisturbed,   \* history: nobody has edited a file since it began
    settled,       \* history: the run before was such a one too, and ended well
    owner_edits, torn

scaffoldVars == <<main_command, makefile, release, ci_file, others, reached, plan_for, changed, renamed,
                  undisturbed, settled, owner_edits, torn>>

ScaffoldFiles == {"Makefile", "bootstrap.mk", "release.yml", "ci.yml", ".gitignore", "go.mod"}
Others == {"bootstrap.mk", ".gitignore", "go.mod"}
\* "older": what an earlier template rendered, possibly changed; "template": what this one does.
Makefiles == [form : {"absent", "empty", "owner's", "older", "template"}, binary : Values]
IsWorkflow(file, jobs) ==
    /\ file = [form |-> file.form, jobs |-> file.jobs]
    /\ file.form \in {"absent", "empty", "owner's", "caller"}
    /\ DOMAIN file.jobs \subseteq jobs /\ file.jobs \in [DOMAIN file.jobs -> JobRecords]
NoWorkflow == [form |-> "absent", jobs |-> <<>>]

ScaffoldTypeOK ==
    /\ main_command \in Values /\ makefile \in Makefiles
    /\ IsWorkflow(release, ReleaseJobs) /\ IsWorkflow(ci_file, CIJobs)
    /\ others \subseteq Others
    /\ reached \in ScaffoldFiles \cup {"idle", "done", "failed"}
    /\ plan_for \in [command : Values, binary : Names \cup {NoName}]
    /\ {changed, renamed, undisturbed, settled} \subseteq BOOLEAN
    /\ owner_edits \in 0..MaxOwnerEdits /\ torn \in 0..MaxTorn

OwnerFiles(jobs) ==
    {NoWorkflow, [form |-> "owner's", jobs |-> <<>>]} \cup
        [form : {"caller"}, jobs : [jobs -> OwnJobs]]
OwnerMakefiles == {m \in Makefiles : m.form # "empty" /\ (m.form = "absent" => m.binary = NoName)}

ScaffoldInit ==
    /\ main_command \in Values \ {Blank} /\ makefile \in OwnerMakefiles
    /\ release \in OwnerFiles(ReleaseJobs) /\ ci_file \in OwnerFiles(CIJobs)
    /\ others = Others /\ reached = "idle" /\ plan_for = [command |-> NoName, binary |-> NoName]
    /\ changed = FALSE /\ renamed = FALSE /\ undisturbed = TRUE /\ settled = FALSE
    /\ owner_edits = 0 /\ torn = 0

-----------------------------------------------------------------------------
(* The owner: another command or none, a Makefile of their own, a workflow changed or removed, a *)
(* line of another file removed.                                                                *)
OwnerEdits ==
    /\ owner_edits < MaxOwnerEdits /\ owner_edits' = owner_edits + 1
    /\ \/ main_command' \in Values \ {Blank, main_command} /\ UNCHANGED <<makefile, release, ci_file, others>>
       \/ /\ \E n \in Values \ {NoName} : makefile' = [makefile EXCEPT !.form = "owner's", !.binary = n]
          /\ UNCHANGED <<main_command, release, ci_file, others>>
       \/ /\ release.form = "caller"
          /\ \/ release' = NoWorkflow
             \/ \E j \in DOMAIN release.jobs, v \in Literals :
                    release.jobs[j].with = "block" /\ release' = [release EXCEPT !.jobs[j].cgo = v]
          /\ UNCHANGED <<main_command, makefile, ci_file, others>>
       \/ /\ \E f \in Others : others' = others \cup {f}
          /\ UNCHANGED <<main_command, makefile, release, ci_file>>
    /\ undisturbed' = FALSE
    /\ UNCHANGED <<reached, plan_for, changed, renamed, settled, torn>>

-----------------------------------------------------------------------------
(* A run. *)

\* The Makefile's own BINARY line comes first, though it be blank; an unsafe name is warned about
\* and not told.
ReleaseBinary(m) ==
    LET named == IF m.binary # NoName THEN m.binary ELSE main_command
    IN  IF named \in Names THEN named ELSE NoName

\* The layout, the command and the name of the binary.
Detected == [command |-> main_command, binary |-> ReleaseBinary(makefile)]

\* go mod init where there is no go.mod.
BeginScaffold ==
    /\ reached \in {"idle", "done", "failed"}
    /\ settled' = (reached = "done" /\ undisturbed /\ ~renamed)
    /\ reached' = "Makefile" /\ changed' = FALSE /\ renamed' = FALSE /\ undisturbed' = TRUE
    /\ plan_for' = Detected
    /\ UNCHANGED <<main_command, makefile, release, ci_file, others, owner_edits, torn>>

FileDone(f, next) == reached = f /\ reached' = next
Writes(differs) == changed' = (changed \/ differs)

\* The current template sets a default goal that isClearlyGeneratedMakefile does not know.
ClearlyGenerated(m) == m.form = "older"

ReconcileMakefile ==
    LET rendered == [form |-> "template", binary |-> plan_for.command]
        renders == makefile.form = "absent" \/ ClearlyGenerated(makefile)
    IN  /\ FileDone("Makefile", "bootstrap.mk")
        /\ makefile' = IF renders THEN rendered ELSE makefile
        /\ renamed' = (makefile'.binary # makefile.binary /\ plan_for.binary # ReleaseBinary(makefile'))
        /\ Writes(makefile' # makefile)
        /\ UNCHANGED <<main_command, release, ci_file, others, plan_for, undisturbed, settled, owner_edits, torn>>

\* The shim, the ignored paths and the tool directives are set whatever they were.
ReconcileOther(f, next) ==
    /\ FileDone(f, next)
    /\ others' = others \ {f}
    /\ Writes(f \in others)
    /\ UNCHANGED <<main_command, makefile, release, ci_file, plan_for, renamed, undisturbed, settled, owner_edits, torn>>

\* upsertJobWithEntryAt: another form of with than the block is left alone.
Upsert(job, told) == IF job.with = "inline" THEN job ELSE [told EXCEPT !.with = "block"]

\* repairCallerPermissions and ensureSecretsInherit: what is missing, unless the job has a form
\* of its own.
Granted(grants) == IF grants = "short" THEN "full" ELSE grants
Repaired(job) == [job EXCEPT !.grants = Granted(@)]
CanonicalJob == [with |-> "absent", cgo |-> "absent", binary |-> NoName, grants |-> "full"]
\* The caller to repair, or the embedded one; a file that calls nothing reusable stays.
Caller(file, jobs) ==
    IF file.form = "absent" THEN [form |-> "caller", jobs |-> [j \in jobs \cap Canonical |-> CanonicalJob]] ELSE file

\* repairReleaseBinaryInput.
Named(job) ==
    IF plan_for.binary = NoName THEN job ELSE Upsert(job, [job EXCEPT !.binary = plan_for.binary])

ReconcileRelease ==
    LET old == Caller(release, ReleaseJobs)
    IN  /\ FileDone("release.yml", "ci.yml")
        /\ release' = [old EXCEPT !.jobs = [j \in DOMAIN old.jobs |-> Named(Repaired(old.jobs[j]))]]
        /\ Writes(release' # release)
        /\ UNCHANGED <<main_command, makefile, ci_file, others, plan_for, renamed, undisturbed, settled, owner_edits, torn>>

Readable(file, d) == {j \in DOMAIN file.jobs : DirOf[j] = d /\ file.jobs[j].with # "inline"}
CgoOf(job) == IF job.cgo = "absent" THEN "false" ELSE job.cgo

\* releaseCgoByWorkingDirectory: what the readable jobs of a directory agree on, if they do.
ReleaseCgo(d) ==
    LET values == {CgoOf(release.jobs[j]) : j \in Readable(release, d)}
    IN  {v \in Literals : values = {v}}

\* syncCallerCgo.
Synced(j, job) ==
    IF job.with # "inline" /\ ReleaseCgo(DirOf[j]) \notin {{}, {CgoOf(job)}}
    THEN Upsert(job, [job EXCEPT !.cgo = CHOOSE v \in ReleaseCgo(DirOf[j]) : TRUE]) ELSE job

ReconcileCIOnce ==
    /\ FileDone("ci.yml", ".gitignore")
    /\ ci_file' = IF ci_file.form = "absent" THEN Caller(ci_file, CIJobs) ELSE ci_file
    /\ Writes(ci_file' # ci_file)
    /\ UNCHANGED <<main_command, makefile, release, others, plan_for, renamed, undisturbed, settled, owner_edits, torn>>

ReconcileCI ==
    LET old == Caller(ci_file, CIJobs)
    IN  /\ FileDone("ci.yml", ".gitignore")
        /\ ci_file' = [old EXCEPT !.jobs = [j \in DOMAIN old.jobs |-> Synced(j, Repaired(old.jobs[j]))]]
        /\ Writes(ci_file' # ci_file)
        /\ UNCHANGED <<main_command, makefile, release, others, plan_for, renamed, undisturbed, settled, owner_edits, torn>>

\* A read, a write, git or go fails, or the run is killed; then the file it wrote may be empty.
RunFails ==
    /\ reached \in ScaffoldFiles /\ torn < MaxTorn /\ torn' = torn + 1
    /\ reached' = "failed"
    /\ \/ UNCHANGED <<makefile, release, ci_file, others>>
       \/ /\ reached = "Makefile" /\ (makefile.form = "absent" \/ ClearlyGenerated(makefile))
          /\ makefile' = [form |-> "empty", binary |-> NoName] /\ UNCHANGED <<release, ci_file, others>>
       \/ /\ reached = "release.yml" /\ release.form \in {"absent", "caller"}
          /\ release' = [form |-> "empty", jobs |-> <<>>] /\ UNCHANGED <<makefile, ci_file, others>>
       \/ /\ reached = "ci.yml" /\ ci_file.form \in {"absent", "caller"}
          /\ ci_file' = [form |-> "empty", jobs |-> <<>>] /\ UNCHANGED <<makefile, release, others>>
    /\ UNCHANGED <<main_command, plan_for, changed, renamed, undisturbed, settled, owner_edits>>

ScaffoldNext ==
    \/ OwnerEdits \/ BeginScaffold \/ ReconcileMakefile \/ ReconcileRelease \/ ReconcileCI \/ RunFails
    \/ ReconcileOther("bootstrap.mk", "release.yml") \/ ReconcileOther(".gitignore", "go.mod")
    \/ ReconcileOther("go.mod", "done")

ScaffoldSpec == ScaffoldInit /\ [][ScaffoldNext]_scaffoldVars

-----------------------------------------------------------------------------
(* A run that ends well under which nobody edits leaves the files in agreement, whatever the    *)
(* owner wrote and whichever runs failed before: every job that scaffold can read has its grants *)
(* and the release of a directory decides the cgo of its CI; the release is told the Makefile's *)
(* BINARY, if that can be a name, unless this run gave the Makefile another one, and is never   *)
(* told what cannot.  The run after such a one changes nothing.                                 *)
ScaffoldSettles ==
    reached = "done" /\ undisturbed =>
        /\ \A file \in {release, ci_file} : \A j \in DOMAIN file.jobs : file.jobs[j].grants # "short"
        /\ \A j \in DOMAIN ci_file.jobs :
            ci_file.jobs[j].with # "inline" => ReleaseCgo(DirOf[j]) \in {{}, {CgoOf(ci_file.jobs[j])}}
        /\ ~renamed /\ makefile.binary \in Names =>
            \A j \in DOMAIN release.jobs :
                release.jobs[j].with # "inline" => release.jobs[j].binary = makefile.binary
        /\ \A j \in DOMAIN release.jobs : release.jobs[j].binary \notin {Unsafe, Blank}
        /\ settled => ~changed
=============================================================================
