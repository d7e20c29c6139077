--------------------------------- MODULE CI ---------------------------------
(***************************************************************************)
(* The reusable CI workflow's decision to run the gates (go-mk ci-changed) *)
(* over the pushes to a default branch and a topic branch of a repository. *)
(* A commit is modelled by its parents and the version of each file.       *)
(* GitHub is outside: it runs one workflow run of a branch at a time; a    *)
(* newer push replaces the run that waits and, off the default branch,     *)
(* cancels the run in progress.                                            *)
(***************************************************************************)
EXTENDS Naturals, Sequences, FiniteSets

CONSTANTS
    ByName,   \* files relevant by suffix, basename or directory: Go and cgo sources, build files
    Payloads, \* embedded files, which only go list knows
    Codegen,  \* files below GO_MK_GENERATE_INPUTS
    Documents,\* all others
    MaxVersion, MaxCommits, MaxPushes \* bounds: versions of a file, commits, pushes

CIFiles == ByName \cup Payloads \cup Codegen \cup Documents
CIBranches == {"default", "topic"}
Trees == [CIFiles -> 0..MaxVersion]  \* 0: the file is absent

ASSUME CIAssumption == IsFiniteSet(CIFiles) /\ {MaxVersion, MaxCommits, MaxPushes} \subseteq Nat \ {0}

VARIABLES
    pushes,   \* pushes so far
    commits,  \* every commit: its parents and its tree
    remote,   \* the tips of the branches, 0 before the first push
    waiting,  \* the push whose run waits, by branch
    ci        \* the latest run of each branch, at its prepare job

ciVars == <<pushes, commits, remote, waiting, ci>>

CommitIds == 1..MaxCommits
NoPush == [before |-> 0, head |-> 0]
NoRun == [before |-> 0, head |-> 0, origin |-> 0, base |-> 0, whole |-> FALSE, state |-> "none"]

CITypeOK ==
    /\ commits \in Seq([parents : SUBSET CommitIds, tree : Trees]) /\ Len(commits) \in CommitIds
    /\ pushes \in 0..MaxPushes
    /\ \A i \in 1..Len(commits) : commits[i].parents \subseteq 1..(i - 1)
    /\ remote \in [CIBranches -> 0..Len(commits)]
    /\ waiting \in [CIBranches -> [before : 0..Len(commits), head : 0..Len(commits)]]
    /\ ci \in [CIBranches -> [before : 0..Len(commits), head : 0..Len(commits), origin : 0..Len(commits),
                              base : 0..Len(commits), whole : BOOLEAN, state : {"none", "started", "skipped", "gating"}]]

CIInit ==
    /\ pushes = 0
    /\ commits = <<[parents |-> {}, tree |-> [f \in CIFiles |-> 1]]>>
    /\ remote = [b \in CIBranches |-> 0]
    /\ waiting = [b \in CIBranches |-> NoPush] /\ ci = [b \in CIBranches |-> NoRun]

\* A commit and all before it: what every history that holds it holds.
IsHistory(S) == \A n \in S : commits[n].parents \subseteq S
Ancestry(c) == {n \in 1..c : \A S \in SUBSET (1..c) : c \in S /\ IsHistory(S) => n \in S}

AddCommit(parents, tree) ==
    /\ Len(commits) < MaxCommits
    /\ commits' = Append(commits, [parents |-> parents, tree |-> tree])
    /\ UNCHANGED <<pushes, remote, waiting, ci>>

\* A commit on top of any other changes, adds or deletes a file, or renames one: deletes it and
\* adds another.
Commit(parent, f, version) ==
    LET tree == commits[parent].tree IN
    /\ tree[f] # version
    /\ \/ AddCommit({parent}, [tree EXCEPT ![f] = version])
       \/ /\ version = 0
          /\ \E g \in CIFiles :
                tree[g] = 0 /\ \E v \in 1..MaxVersion : AddCommit({parent}, [tree EXCEPT ![f] = 0, ![g] = v])

\* A merge of one commit into another that does not have it takes each file from either.
MergeCommits(into, other) ==
    /\ other \notin Ancestry(into)
    /\ \E theirs \in SUBSET CIFiles :
        AddCommit({into, other}, [f \in CIFiles |-> commits[IF f \in theirs THEN other ELSE into].tree[f]])

\* A push of one or more commits or merges, or a forced reset.  The commit
\* before it only matters on the default branch.
PushBranch(b, head) ==
    /\ head # remote[b] /\ pushes < MaxPushes /\ pushes' = pushes + 1
    /\ remote' = [remote EXCEPT ![b] = head]
    /\ waiting' = [waiting EXCEPT ![b] =
                    [before |-> IF b = "default" THEN remote[b] ELSE 0, head |-> head]]
    /\ UNCHANGED <<commits, ci>>

-----------------------------------------------------------------------------
Gating == [NoRun EXCEPT !.state = "gating"]
RunIs(b, r) == ci' = [ci EXCEPT ![b] = r]

\* The checkout brings origin's default branch with it, as far as it is fetched.
StartRun(b) ==
    /\ waiting[b] # NoPush /\ (b = "default" => ci[b].state # "started")
    /\ \E origin \in {0} \cup (IF b = "default" THEN {} ELSE {remote["default"]}) :
        RunIs(b, [before |-> waiting[b].before, head |-> waiting[b].head, origin |-> origin,
                  base |-> 0, whole |-> FALSE, state |-> "started"])
    /\ waiting' = [waiting EXCEPT ![b] = NoPush]
    /\ UNCHANGED <<pushes, commits, remote>>

\* git merge-base prints one of the best common ancestors, if there is any.
MergeBases(c, d) ==
    LET common == Ancestry(c) \cap Ancestry(d)
    IN  {n \in common : \A m \in common \ {n} : n \notin Ancestry(m)}

\* runCIChangedWith: the commit to compare with, none when it cannot be told: on the default branch
\* the commit before the push, if it was fetched for the comparison or precedes the head; on
\* another the merge base with the default branch, after one fetch if the first try fails.
BasesOf(b, exact) ==
    LET r == ci[b] IN
    IF b = "default" THEN {n \in {r.before} \ {0} : exact \/ n \in Ancestry(r.head)}
    ELSE IF MergeBases(r.origin, r.head) # {} THEN MergeBases(r.origin, r.head)
    ELSE MergeBases(remote["default"], r.head)

\* A source suffix, a build file's name, a directory of the workspace or of generate inputs.
Telling(f) == f \in ByName \cup Codegen

\* go list -e lists the embedded files of the head, without those of a package that does not load.
Listings(tree) == SUBSET {f \in Payloads : tree[f] # 0}
IsWhole(listed, tree) == \A f \in Payloads : tree[f] # 0 => f \in listed

\* git diff --name-only detects renames: the old name of a deleted file that is paired with an
\* added one is not listed.
Deleted(base, head) == {f \in CIFiles : commits[base].tree[f] # 0 /\ commits[head].tree[f] = 0}
Added(base, head) == Deleted(head, base)
Paired(base, head) ==
    {R \in SUBSET Deleted(base, head) : Cardinality(R) <= Cardinality(Added(base, head))}
DiffNames(base, head, paired) ==
    {f \in CIFiles \ paired : commits[base].tree[f] # commits[head].tree[f]}

RelevantByName(listed, f) == Telling(f)

\* decideChanged, for the paths of the diff.
Relevant(listed, f) == Telling(f) \/ f \in listed
Changed(names, listed) == \E f \in names : Relevant(listed, f)

\* Any doubt, a git or go list call that fails, or a lost answer runs every gate.
DetectInDoubt(b) ==
    /\ ci[b].state = "started"
    /\ RunIs(b, Gating)
    /\ UNCHANGED <<pushes, commits, remote, waiting>>

DetectFrom(b, base) ==
    \E paired \in Paired(base, ci[b].head), listed \in Listings(commits[ci[b].head].tree) :
        RunIs(b, IF Changed(DiffNames(base, ci[b].head, paired), listed) THEN Gating
                 ELSE [ci[b] EXCEPT !.base = base, !.origin = 0, !.state = "skipped",
                                    !.whole = IsWhole(listed, commits[ci[b].head].tree)])
Detect(b) ==
    /\ ci[b].state = "started"
    /\ \E exact \in BOOLEAN : \E base \in BasesOf(b, exact) : DetectFrom(b, base)
    /\ UNCHANGED <<pushes, commits, remote, waiting>>

CINext ==
    \/ \E p \in 1..Len(commits), f \in CIFiles, version \in 0..MaxVersion : Commit(p, f, version)
    \/ \E p, q \in 1..Len(commits) : MergeCommits(p, q)
    \/ \E b \in CIBranches :
        \/ StartRun(b) \/ DetectInDoubt(b) \/ Detect(b)
        \/ \E head \in 1..Len(commits) : PushBranch(b, head)

CISpec == CIInit /\ [][CINext]_ciVars

-----------------------------------------------------------------------------
(* A run that skips its gates has nothing to gate: every Go, build, embedded or codegen file of  *)
(* its head is as in the commit it is compared with, and none was deleted that a name gives      *)
(* away.  That commit is the one before the push, or one that the topic branch shares with the   *)
(* default branch, however the branches were reset, merged, forced or superseded.  Two changes   *)
(* go unseen: of an embedded file whose package go list could not load, and the deletion of a    *)
(* file that git takes for a rename to another kind of name.                                     *)
SkippedRunHasNothingToGate ==
    \A b \in CIBranches :
        LET r == ci[b] IN
        r.state = "skipped" =>
            /\ r.base \in 1..Len(commits)
            /\ \A f \in CIFiles \ Documents :
                \/ commits[r.head].tree[f] = commits[r.base].tree[f]
                \/ f \in Payloads /\ (commits[r.head].tree[f] = 0 \/ ~r.whole)
                \/ f \in Deleted(r.base, r.head) /\ Added(r.base, r.head) # {}
            /\ IF b = "default" THEN r.base = r.before ELSE r.base \in Ancestry(r.head)
=============================================================================
