--------------------------- MODULE WorkflowProofs ---------------------------
(***************************************************************************)
(* What holds of what the workflows and a consumer rely on: the outputs    *)
(* that jobs restore from the cache, the runs that skip their gates, and   *)
(* the files that scaffold generates or repairs.                           *)
(***************************************************************************)
EXTENDS OutputCache, CI, Scaffold, FiniteSetTheorems, TLAPS

-----------------------------------------------------------------------------
(***************************************************************************)
(* Why restored outputs are current, for any jobs, versions and failures:  *)
(* an entry's outputs agree with all that its key hashes, the key of a job *)
(* whose calls answered hashes everything it must tell apart, and outputs  *)
(* are made from at least that.  What a failed call leaves out of a key is *)
(* 0 there, which only an input that is not there is in another key.       *)
(***************************************************************************)

(* There is a first version of everything. *)
LEMMA VersionBound == MaxChanges \in Nat \ {0}
  BY CacheAssumption DEF CacheAssumption

Keyed == {"keyed", "restored", "made", "saved"}

CacheTypes ==
    /\ world \in [Things -> 1..MaxChanges]
    /\ at_job \in [CacheJobs -> {"idle", "started", "keyed", "restored", "made", "saved", "failed"}]
    /\ kind \in [CacheJobs -> CacheKinds]
    /\ seen \in [CacheJobs -> Worlds] /\ key \in [CacheJobs -> Worlds]
    /\ outputs \in [CacheJobs -> Worlds]
    /\ entries \subseteq [kind : CacheKinds, key : Worlds, outputs : Worlds] /\ blind \subseteq CacheJobs

\* A job sees no go-mk that is newer than the newest.
SeenExists == \A j \in CacheJobs : seen[j]["engine"] <= world["engine"]

\* What a manifest hashes of what its job saw.
KeysAreOfSeen ==
    \A j \in CacheJobs :
        at_job[j] \in Keyed =>
            /\ \A t \in Hashed(kind[j]) : key[j][t] \in {0, seen[j][t]}
            /\ j \notin blind => \A t \in Hashed(kind[j]) : key[j][t] = seen[j][t]

\* Outputs of kind k agree with what the key w hashes, their go-mk apart, which may be newer.
Agree(k, w, made) ==
    \A t \in Hashed(k) : IF t = "engine" THEN made[t] >= w[t] ELSE w[t] \in {0, made[t]}

OutputsAgree ==
    /\ \A e \in entries : Agree(e.kind, e.key, e.outputs)
    /\ \A j \in CacheJobs :
        at_job[j] \in {"restored", "made"} => Agree(kind[j], key[j], outputs[j])

CacheInv == CacheTypes /\ SeenExists /\ KeysAreOfSeen /\ OutputsAgree

(* The kinds hash things, and a restriction of a version is one. *)
LEMMA KindFacts ==
    /\ \A k \in CacheKinds : Hashed(k) \subseteq Things /\ Covered(k) \subseteq Hashed(k) /\ Hashed(k) \subseteq ReadBy(k)
    /\ Unknown \in Worlds
    /\ \A w \in Worlds : \A s : Only(w, s) \in Worlds
    /\ \A w, s, t : t \in Things => Only(w, s)[t] = IF t \in s THEN w[t] ELSE 0
    /\ "engine" \in Things /\ "sources" \in Things
  BY VersionBound DEF CacheKinds, Hashed, GeneratedInputs, CgoInputs, Things, Only, Worlds, Covered, ReadBy, Unknown

(* All of it holds throughout. *)
LEMMA CacheInvariant == CacheSpec => []CacheInv
  <1> USE VersionBound
  <1>1. CacheInit => CacheInv
    <2> SUFFICES ASSUME CacheInit PROVE CacheInv
      OBVIOUS
    <2>1. world \in [Things -> 1..MaxChanges]
      BY DEF CacheInit
    <2>2. Unknown \in Worlds
      BY DEF Unknown, Worlds
    <2>3. /\ at_job \in [CacheJobs -> {"idle", "started", "keyed", "restored", "made", "saved",
                                      "failed"}]
          /\ kind \in [CacheJobs -> CacheKinds]
          /\ seen \in [CacheJobs -> Worlds] /\ key = seen /\ outputs = seen /\ entries = {}
      BY <2>2 DEF CacheInit, CacheKinds
    <2>4. SeenExists
      BY <2>1, KindFacts DEF CacheInit, SeenExists, Unknown
    <2> QED
      BY <2>1, <2>3, <2>4 DEF CacheInit, CacheInv, CacheTypes, KeysAreOfSeen,
                       OutputsAgree, Keyed
  <1>2. CacheInv /\ [CacheNext]_cacheVars => CacheInv'
    <2> SUFFICES ASSUME CacheInv, [CacheNext]_cacheVars PROVE CacheInv'
      OBVIOUS
    <2>0. CacheTypes /\ SeenExists /\ KeysAreOfSeen /\ OutputsAgree
      BY DEF CacheInv
    <2> SUFFICES CacheTypes' /\ SeenExists' /\ KeysAreOfSeen' /\ OutputsAgree'
      BY DEF CacheInv
    <2>1. ASSUME NEW t \in Things, Change(t)
          PROVE  CacheTypes' /\ SeenExists' /\ KeysAreOfSeen' /\ OutputsAgree'
      <3>1. world' \in [Things -> 1..MaxChanges] /\ world'["engine"] >= world["engine"]
        BY <2>0, <2>1, KindFacts DEF Change, CacheTypes
      <3>2. UNCHANGED <<at_job, kind, seen, key, outputs, entries, blind>>
        BY <2>1 DEF Change
      <3>3. CacheTypes'
        BY <2>0, <3>1, <3>2 DEF CacheTypes
      <3>4. SeenExists'
        <4> SUFFICES ASSUME NEW j \in CacheJobs PROVE seen[j]["engine"] <= world'["engine"]
          BY <3>2 DEF SeenExists
        <4>1. seen[j]["engine"] <= world["engine"]
          BY <2>0 DEF SeenExists
        <4>2. seen[j]["engine"] \in Nat /\ world["engine"] \in Nat /\ world'["engine"] \in Nat
          BY <2>0, <3>1, KindFacts DEF CacheTypes, Worlds
        <4> QED
          BY <3>1, <4>1, <4>2
      <3> QED
        BY <2>0, <3>2, <3>3, <3>4 DEF KeysAreOfSeen, OutputsAgree
    <2>2. ASSUME NEW j \in CacheJobs, StartJob(j)
          PROVE  CacheTypes' /\ SeenExists' /\ KeysAreOfSeen' /\ OutputsAgree'
      <3> PICK k \in CacheKinds, s \in 1..world["sources"], i \in 0..world["inputs"] :
              /\ kind' = [kind EXCEPT ![j] = k]
              /\ seen' = [seen EXCEPT ![j] = Only([world EXCEPT !["sources"] = s, !["inputs"] = i], ReadBy(k))]
        BY <2>2 DEF StartJob
      <3> DEFINE there == [world EXCEPT !["sources"] = s, !["inputs"] = i]
                 saw == Only(there, ReadBy(k))
      <3>1. there \in Worlds /\ there["engine"] = world["engine"]
        BY <2>0 DEF CacheTypes, Things, Worlds
      <3>2. saw \in Worlds /\ saw["engine"] = world["engine"]
        <4>1. "engine" \in ReadBy(k)
          BY DEF ReadBy
        <4> HIDE DEF there
        <4> QED
          BY <3>1, <4>1, KindFacts
      <3> HIDE DEF saw
      <3>3. /\ at_job[j] = "idle" /\ at_job' = [at_job EXCEPT ![j] = "started"]
            /\ seen' = [seen EXCEPT ![j] = saw] /\ kind' \in [CacheJobs -> CacheKinds]
            /\ \A l \in CacheJobs \ {j} : kind'[l] = kind[l]
            /\ UNCHANGED <<world, key, outputs, entries, blind>>
        BY <2>0, <2>2 DEF StartJob, JobStep, saw, there, CacheTypes
      <3>4. CacheTypes'
        BY <2>0, <3>2, <3>3 DEF CacheTypes
      <3>5. SeenExists'
        <4>1. world["engine"] <= world["engine"]
          BY <2>0, KindFacts DEF CacheTypes
        <4> QED
          BY <2>0, <3>1, <3>2, <3>3, <4>1 DEF SeenExists, CacheTypes
      <3>6. KeysAreOfSeen' /\ OutputsAgree'
        BY <2>0, <3>3 DEF KeysAreOfSeen, OutputsAgree, CacheTypes, Keyed
      <3> QED
        BY <3>4, <3>5, <3>6
    <2>3. ASSUME NEW j \in CacheJobs, Manifest(j)
          PROVE  CacheTypes' /\ SeenExists' /\ KeysAreOfSeen' /\ OutputsAgree'
      <3>1. /\ at_job[j] = "started" /\ at_job' = [at_job EXCEPT ![j] = "keyed"]
            /\ UNCHANGED <<world, kind, seen, outputs, entries>>
            /\ blind \subseteq blind' /\ blind' \subseteq blind \cup {j}
        BY <2>3 DEF Manifest, JobStep
      <3>2. PICK hashed \in SUBSET Hashed(kind[j]) :
              /\ key' = [key EXCEPT ![j] = Only(seen[j], hashed)]
              /\ hashed = Hashed(kind[j]) \/ j \in blind'
        BY <2>3 DEF Manifest
      <3>3. Only(seen[j], hashed) \in Worlds
        BY <2>0, KindFacts DEF CacheTypes
      <3>4. CacheTypes'
        BY <2>0, <3>1, <3>2, <3>3 DEF CacheTypes
      <3>5. KeysAreOfSeen'
        <4> SUFFICES ASSUME NEW i \in CacheJobs, at_job'[i] \in Keyed
                     PROVE  /\ \A t \in Hashed(kind[i]) : key'[i][t] \in {0, seen[i][t]}
                            /\ i \notin blind' => \A t \in Hashed(kind[i]) : key'[i][t] = seen[i][t]
          BY <3>1 DEF KeysAreOfSeen
        <4>1. CASE i = j
          <5>1. key'[i] = Only(seen[i], hashed)
            BY <2>0, <3>2, <4>1 DEF CacheTypes
          <5>2. Hashed(kind[i]) \subseteq Things
            BY <2>0, KindFacts DEF CacheTypes
          <5> QED
            BY <3>2, <4>1, <5>1, <5>2, KindFacts
        <4>2. CASE i # j
          BY <2>0, <3>1, <3>2, <4>2 DEF KeysAreOfSeen, CacheTypes
        <4> QED
          BY <4>1, <4>2
      <3>6. SeenExists' /\ OutputsAgree'
        BY <2>0, <3>1, <3>2 DEF SeenExists, OutputsAgree, CacheTypes, Keyed
      <3> QED
        BY <3>4, <3>5, <3>6
    <2>4. ASSUME NEW j \in CacheJobs, RestoreOutputs(j)
          PROVE  CacheTypes' /\ SeenExists' /\ KeysAreOfSeen' /\ OutputsAgree'
      <3>1. PICK e \in Hits(j) : outputs' = [outputs EXCEPT ![j] = e.outputs]
        BY <2>4 DEF RestoreOutputs
      <3>2. e \in entries /\ e.kind = kind[j] /\ e.key = key[j] /\ e.outputs \in Worlds
        BY <2>0 DEF Hits, CacheTypes
      <3>3. Agree(kind[j], key[j], e.outputs)
        BY <2>0, <3>2 DEF OutputsAgree
      <3>4. /\ at_job[j] = "keyed" /\ at_job' = [at_job EXCEPT ![j] = "restored"]
            /\ UNCHANGED <<world, kind, seen, key, entries, blind>>
        BY <2>4 DEF RestoreOutputs, JobStep
      <3>5. CacheTypes'
        BY <2>0, <3>1, <3>2, <3>4 DEF CacheTypes
      <3>6. SeenExists' /\ KeysAreOfSeen'
        BY <2>0, <3>4 DEF SeenExists, KeysAreOfSeen, CacheTypes, Keyed
      <3>7. OutputsAgree'
        BY <2>0, <3>1, <3>3, <3>4 DEF OutputsAgree, CacheTypes
      <3> QED
        BY <3>5, <3>6, <3>7
    <2>5. ASSUME NEW j \in CacheJobs, MakeOutputs(j)
          PROVE  CacheTypes' /\ SeenExists' /\ KeysAreOfSeen' /\ OutputsAgree'
      <3> DEFINE made == [seen[j] EXCEPT !["engine"] = world["engine"]]
      <3>1. /\ at_job[j] = "keyed" /\ at_job' = [at_job EXCEPT ![j] = "made"]
            /\ outputs' = [outputs EXCEPT ![j] = made]
            /\ UNCHANGED <<world, kind, seen, key, entries, blind>>
        BY <2>5 DEF MakeOutputs, JobStep
      <3>2. made \in Worlds /\ made["engine"] = world["engine"]
            /\ \A t \in Things \ {"engine"} : made[t] = seen[j][t]
        BY <2>0, KindFacts DEF CacheTypes, Worlds
      <3>4. Agree(kind[j], key[j], made)
        <4> SUFFICES ASSUME NEW t \in Hashed(kind[j])
                     PROVE  IF t = "engine" THEN made[t] >= key[j][t]
                                            ELSE key[j][t] \in {0, made[t]}
          BY DEF Agree
        <4>1. t \in Things
          BY <2>0, KindFacts DEF CacheTypes
        <4>3. key[j][t] \in {0, seen[j][t]}
          BY <2>0, <3>1 DEF KeysAreOfSeen, Keyed
        <4>4. CASE t = "engine"
          <5>1. seen[j][t] \in Nat /\ world["engine"] \in Nat /\ seen[j][t] <= world["engine"]
            BY <2>0, <4>4, KindFacts DEF CacheTypes, Worlds, SeenExists
          <5> QED
            BY <3>2, <4>3, <4>4, <5>1
        <4>5. CASE t # "engine"
          BY <3>2, <4>1, <4>3, <4>5
        <4> QED
          BY <4>4, <4>5
      <3> HIDE DEF made
      <3>5. CacheTypes'
        BY <2>0, <3>1, <3>2 DEF CacheTypes
      <3>6. SeenExists' /\ KeysAreOfSeen'
        BY <2>0, <3>1 DEF SeenExists, KeysAreOfSeen, CacheTypes, Keyed
      <3>7. OutputsAgree'
        BY <2>0, <3>1, <3>4 DEF OutputsAgree, CacheTypes
      <3> QED
        BY <3>5, <3>6, <3>7
    <2>6. ASSUME NEW j \in CacheJobs, SaveOutputs(j)
          PROVE  CacheTypes' /\ SeenExists' /\ KeysAreOfSeen' /\ OutputsAgree'
      <3> DEFINE entry == [kind |-> kind[j], key |-> key[j], outputs |-> outputs[j]]
      <3>1. /\ at_job[j] = "made" /\ at_job' = [at_job EXCEPT ![j] = "saved"]
            /\ UNCHANGED <<world, kind, seen, key, outputs, blind>>
            /\ entries' \subseteq entries \cup {entry}
        BY <2>6 DEF SaveOutputs, JobStep
      <3>2. entry \in [kind : CacheKinds, key : Worlds, outputs : Worlds]
        BY <2>0 DEF CacheTypes
      <3>3. Agree(entry.kind, entry.key, entry.outputs)
        BY <2>0, <3>1 DEF OutputsAgree
      <3> HIDE DEF entry
      <3>4. CacheTypes'
        BY <2>0, <3>1, <3>2 DEF CacheTypes
      <3>5. SeenExists' /\ KeysAreOfSeen'
        BY <2>0, <3>1 DEF SeenExists, KeysAreOfSeen, CacheTypes, Keyed
      <3>6. OutputsAgree'
        BY <2>0, <3>1, <3>3 DEF OutputsAgree, CacheTypes
      <3> QED
        BY <3>4, <3>5, <3>6
    <2>7. ASSUME NEW j \in CacheJobs, JobFails(j)
          PROVE  CacheTypes' /\ SeenExists' /\ KeysAreOfSeen' /\ OutputsAgree'
      <3>1. Unknown["engine"] <= world["engine"]
        BY <2>0, KindFacts DEF CacheTypes, Unknown
      <3>2. CacheTypes'
        BY <2>0, <2>7, KindFacts DEF JobFails, CacheTypes
      <3>3. SeenExists'
        BY <2>0, <2>7, <3>1 DEF JobFails, CacheTypes, SeenExists
      <3>4. KeysAreOfSeen' /\ OutputsAgree'
        BY <2>0, <2>7 DEF JobFails, CacheTypes, KeysAreOfSeen, OutputsAgree, Keyed
      <3> QED
        BY <3>2, <3>3, <3>4
    <2>8. CASE UNCHANGED cacheVars
      BY <2>0, <2>8 DEF cacheVars, CacheTypes, SeenExists, KeysAreOfSeen, OutputsAgree
    <2> QED
      BY <2>1, <2>2, <2>3, <2>4, <2>5, <2>6, <2>7, <2>8 DEF CacheNext
  <1> QED
    BY <1>1, <1>2, PTL DEF CacheSpec

(* The jobs, their keys and outputs, and the entries keep to their types. *)
THEOREM CacheTypeCorrect == CacheSpec => []CacheTypeOK
  <1>1. CacheInv => CacheTypeOK
    <2> SUFFICES ASSUME CacheTypes PROVE CacheTypeOK
      BY DEF CacheInv
    <2>1. world \in Worlds
      BY VersionBound DEF CacheTypes, Worlds
    <2> QED
      BY <2>1 DEF CacheTypes, CacheTypeOK
  <1> QED
    BY <1>1, CacheInvariant, PTL

(* Whichever job saved them, and whatever its listings, probes and reads left out of its key,    *)
(* the outputs a job restores by a whole key are those of its own sources and, for C, of its own *)
(* compiler and inputs, and generated ones are of no older go-mk: what buildCacheManifest and    *)
(* buildCgoCacheManifest hash is enough for these, though outputs are made from more.            *)
THEOREM RestoredStaysCurrent == CacheSpec => []RestoredOutputsAreCurrent
  <1>1. CacheInv => RestoredOutputsAreCurrent
    <2> SUFFICES ASSUME CacheInv, NEW j \in CacheJobs \ blind, at_job[j] = "restored", NEW t \in Covered(kind[j])
                 PROVE  IF t = "engine" THEN outputs[j][t] >= seen[j][t] ELSE seen[j][t] \in {0, outputs[j][t]}
      BY DEF RestoredOutputsAreCurrent
    <2>1. t \in Hashed(kind[j])
      BY KindFacts DEF CacheInv, CacheTypes
    <2>2. Agree(kind[j], key[j], outputs[j]) /\ key[j][t] = seen[j][t]
      BY <2>1 DEF CacheInv, OutputsAgree, KeysAreOfSeen, Keyed
    <2> QED
      BY <2>1, <2>2 DEF Agree
  <1> QED
    BY <1>1, CacheInvariant, PTL

-----------------------------------------------------------------------------
(***************************************************************************)
(* Why a CI run that skips its gates has nothing to gate, for any files,   *)
(* commits, pushes and resets.  A run and a push that waits are at commits *)
(* that exist, and what a commit holds and follows never changes, so what  *)
(* was true of a run when it skipped its gates stays true.                 *)
(***************************************************************************)

(* A merge base is a commit that both share. *)
LEMMA MergeBaseIsShared ==
    ASSUME NEW c, NEW d, NEW n \in MergeBases(c, d)
    PROVE  n \in Ancestry(c) \cap Ancestry(d)
  BY DEF MergeBases

(* The bounds are numbers; and what a run is. *)
LEMMA CIFacts ==
    /\ MaxVersion \in Nat \ {0} /\ MaxCommits \in Nat \ {0} /\ MaxPushes \in Nat \ {0}
  BY CIAssumption

CICommits == [parents : SUBSET CommitIds, tree : Trees]
CIRunsAt(n) == [before : 0..n, head : 0..n, origin : 0..n, base : 0..n, whole : BOOLEAN,
                state : {"none", "started", "skipped", "gating"}]

(* A run that has started, and a push that waits, are at a commit that exists. *)
HeadsExist ==
    \A b \in CIBranches :
        /\ waiting[b] # NoPush => waiting[b].head \in 1..Len(commits)
        /\ ci[b].state \in {"started", "skipped"} => ci[b].head \in 1..Len(commits)

CIInv == CITypeOK /\ HeadsExist /\ SkippedRunHasNothingToGate

(* A commit or merge adds one that follows some of those there were. *)
LEMMA CommitAdds ==
    ASSUME CITypeOK,
           \/ \E p \in 1..Len(commits), f \in CIFiles, version \in 0..MaxVersion : Commit(p, f, version)
           \/ \E p, q \in 1..Len(commits) : MergeCommits(p, q)
    PROVE  \E parents \in SUBSET (1..Len(commits)), tree \in Trees : AddCommit(parents, tree)
  <1>1. \A p \in 1..Len(commits) : commits[p].tree \in Trees
    <2>1. commits \in Seq(CICommits)
      BY DEF CITypeOK, CICommits
    <2>2. \A p \in 1..Len(commits) : commits[p] \in CICommits
      BY <2>1
    <2> QED
      BY <2>2 DEF CICommits
  <1>2. CASE \E p \in 1..Len(commits), f \in CIFiles, version \in 0..MaxVersion : Commit(p, f, version)
    <2> PICK p \in 1..Len(commits), f \in CIFiles, version \in 0..MaxVersion : Commit(p, f, version)
      BY <1>2
    <2> DEFINE tree == commits[p].tree
    <2>1. tree \in Trees
      BY <1>1
    <2>2. \A v \in 0..MaxVersion : [tree EXCEPT ![f] = v] \in Trees
      BY <2>1 DEF Trees
    <2>3. \A g \in CIFiles, v \in 1..MaxVersion : [tree EXCEPT ![f] = 0, ![g] = v] \in Trees
      BY <2>1, CIFacts DEF Trees
    <2> HIDE DEF tree
    <2>4. \/ AddCommit({p}, [tree EXCEPT ![f] = version])
          \/ \E g \in CIFiles, v \in 1..MaxVersion : AddCommit({p}, [tree EXCEPT ![f] = 0, ![g] = v])
      BY DEF Commit, tree
    <2> QED
      BY <2>2, <2>3, <2>4
  <1>3. CASE \E p, q \in 1..Len(commits) : MergeCommits(p, q)
    <2> PICK p \in 1..Len(commits), q \in 1..Len(commits) : MergeCommits(p, q)
      BY <1>3
    <2>1. \A theirs : [f \in CIFiles |-> commits[IF f \in theirs THEN q ELSE p].tree[f]] \in Trees
      BY <1>1 DEF Trees
    <2> QED
      BY <2>1 DEF MergeCommits
  <1> QED
    BY <1>2, <1>3

(* A further commit leaves those there were, and what each of them follows. *)
LEMMA CommitKeeps ==
    ASSUME CITypeOK, NEW parents \in SUBSET (1..Len(commits)), NEW tree \in Trees, AddCommit(parents, tree)
    PROVE  /\ commits' \in Seq(CICommits) /\ Len(commits') = Len(commits) + 1 /\ Len(commits') \in CommitIds
           /\ \A i \in 1..Len(commits) : commits'[i] = commits[i]
           /\ commits'[Len(commits')].parents = parents
           /\ \A c \in 1..Len(commits) : Ancestry(c)' = Ancestry(c)
  <1>1. commits \in Seq(CICommits) /\ Len(commits) \in CommitIds /\ Len(commits) < MaxCommits
    BY DEF AddCommit, CITypeOK, CICommits
  <1>2. parents \in SUBSET CommitIds
    BY <1>1, CIFacts DEF CommitIds
  <1>5. [parents |-> parents, tree |-> tree] \in CICommits
    BY <1>2 DEF CICommits
  <1>6. /\ commits' \in Seq(CICommits) /\ Len(commits') = Len(commits) + 1
        /\ \A i \in 1..Len(commits) : commits'[i] = commits[i]
        /\ commits'[Len(commits')].parents = parents
    BY <1>1, <1>5 DEF AddCommit
  <1>7. Len(commits') \in CommitIds
    BY <1>1, <1>6, CIFacts DEF CommitIds
  <1>8. ASSUME NEW c \in 1..Len(commits) PROVE Ancestry(c)' = Ancestry(c)
    <2>1. ASSUME NEW S \in SUBSET (1..c) PROVE IsHistory(S)' <=> IsHistory(S)
      <3>1. ASSUME NEW n \in S PROVE commits'[n] = commits[n]
        <4>1. n \in 1..Len(commits)
          BY <1>1
        <4> QED
          BY <1>6, <4>1
      <3> QED
        BY <3>1 DEF IsHistory
    <2> QED
      BY <2>1 DEF Ancestry
  <1> QED
    BY <1>6, <1>7, <1>8

(* What a started run compares with exists, is the commit before the push on the default branch, *)
(* and precedes the head of the run on another.                                                   *)
LEMMA BaseExists ==
    ASSUME CITypeOK, HeadsExist, NEW b \in CIBranches, ci[b].state = "started", NEW exact \in BOOLEAN,
           NEW base \in BasesOf(b, exact)
    PROVE  /\ base \in 1..Len(commits)
           /\ IF b = "default" THEN base = ci[b].before ELSE base \in Ancestry(ci[b].head)
  <1>1. ci[b] \in CIRunsAt(Len(commits)) /\ Len(commits) \in Nat
    <2>1. Len(commits) \in CommitIds
      BY DEF CITypeOK
    <2>2. ci[b] \in CIRunsAt(Len(commits))
      BY DEF CITypeOK, CIRunsAt
    <2> QED
      BY <2>1, <2>2, CIFacts DEF CommitIds
  <1>2. ci[b].head \in 1..Len(commits) /\ ci[b].before \in 0..Len(commits)
    BY <1>1 DEF HeadsExist, CIRunsAt
  <1>3. CASE b = "default"
    BY <1>1, <1>2, <1>3 DEF BasesOf
  <1>4. CASE b # "default"
    <2>1. \/ base \in MergeBases(ci[b].origin, ci[b].head)
          \/ base \in MergeBases(remote["default"], ci[b].head)
      BY <1>4 DEF BasesOf
    <2>2. base \in Ancestry(ci[b].head)
      BY <2>1, MergeBaseIsShared
    <2>3. Ancestry(ci[b].head) \subseteq 1..ci[b].head
      BY DEF Ancestry
    <2> QED
      BY <1>1, <1>2, <1>4, <2>2, <2>3
  <1> QED
    BY <1>3, <1>4

(* Every step keeps the types, and what exists. *)
LEMMA CITyped ==
    ASSUME CITypeOK, HeadsExist, [CINext]_ciVars
    PROVE  CITypeOK' /\ HeadsExist'
  <1> USE CIFacts
  <1>1. Len(commits) \in Nat /\ Len(commits) \in CommitIds
    BY DEF CITypeOK, CommitIds
  <1>2. ASSUME NEW parents \in SUBSET (1..Len(commits)), NEW tree \in Trees, AddCommit(parents, tree)
        PROVE  CITypeOK' /\ HeadsExist'
    <2>1. /\ commits' \in Seq(CICommits) /\ Len(commits') = Len(commits) + 1 /\ Len(commits') \in CommitIds
          /\ \A i \in 1..Len(commits) : commits'[i] = commits[i]
          /\ commits'[Len(commits')].parents = parents
      BY <1>2, CommitKeeps
    <2>2. UNCHANGED <<pushes, remote, waiting, ci>>
      BY <1>2 DEF AddCommit
    <2>3. 0..Len(commits) \subseteq 0..Len(commits') /\ 1..Len(commits) \subseteq 1..Len(commits')
      BY <1>1, <2>1
    <2>4. \A i \in 1..Len(commits') : commits'[i].parents \subseteq 1..(i - 1)
      <3>1. \A i \in 1..Len(commits) : commits[i].parents \subseteq 1..(i - 1)
        BY DEF CITypeOK
      <3>2. parents \subseteq 1..(Len(commits') - 1)
        BY <1>1, <2>1
      <3>3. \A i \in 1..Len(commits') : i = Len(commits') \/ i \in 1..Len(commits)
        BY <1>1, <2>1
      <3> QED
        BY <2>1, <3>1, <3>2, <3>3
    <2>5. remote' \in [CIBranches -> 0..Len(commits')]
      BY <2>2, <2>3 DEF CITypeOK
    <2>6. waiting' \in [CIBranches -> [before : 0..Len(commits'), head : 0..Len(commits')]]
      BY <2>2, <2>3 DEF CITypeOK
    <2>7. ci' \in [CIBranches -> CIRunsAt(Len(commits'))]
      <3>1. CIRunsAt(Len(commits)) \subseteq CIRunsAt(Len(commits'))
        BY <2>3 DEF CIRunsAt
      <3> QED
        BY <2>2, <3>1 DEF CITypeOK, CIRunsAt
    <2>8. CITypeOK'
      BY <2>1, <2>2, <2>4, <2>5, <2>6, <2>7 DEF CITypeOK, CICommits, CIRunsAt
    <2>9. HeadsExist'
      BY <2>2, <2>3 DEF HeadsExist
    <2> QED
      BY <2>8, <2>9
  <1>3. ASSUME NEW b \in CIBranches, NEW head \in 1..Len(commits), PushBranch(b, head)
        PROVE  CITypeOK' /\ HeadsExist'
    <2> DEFINE push == [before |-> IF b = "default" THEN remote[b] ELSE 0, head |-> head]
    <2>1. /\ UNCHANGED <<commits, ci>> /\ pushes' = pushes + 1 /\ pushes < MaxPushes
          /\ remote' = [remote EXCEPT ![b] = head] /\ waiting' = [waiting EXCEPT ![b] = push]
      BY <1>3 DEF PushBranch
    <2>2. push \in [before : 0..Len(commits), head : 0..Len(commits)] /\ push.head = head
      BY <1>1 DEF CITypeOK
    <2> HIDE DEF push
    <2>3. CITypeOK'
      <3>1. /\ remote' \in [CIBranches -> 0..Len(commits)] /\ pushes' \in 0..MaxPushes
            /\ waiting' \in [CIBranches -> [before : 0..Len(commits), head : 0..Len(commits)]]
        BY <1>1, <2>1, <2>2 DEF CITypeOK
      <3> QED
        BY <2>1, <3>1 DEF CITypeOK
    <2>4. HeadsExist'
      BY <2>1, <2>2 DEF HeadsExist, CITypeOK
    <2> QED
      BY <2>3, <2>4
  <1>4. ASSUME NEW b \in CIBranches, NEW r, RunIs(b, r), r \in CIRunsAt(Len(commits)),
               r.state \in {"started", "skipped"} => r.head \in 1..Len(commits),
               \/ UNCHANGED waiting
               \/ waiting' = [waiting EXCEPT ![b] = NoPush],
               UNCHANGED <<pushes, commits, remote>>
        PROVE  CITypeOK' /\ HeadsExist'
    <2>1. ci' \in [CIBranches -> CIRunsAt(Len(commits))]
      BY <1>4 DEF RunIs, CITypeOK, CIRunsAt
    <2>2. waiting' \in [CIBranches -> [before : 0..Len(commits), head : 0..Len(commits)]]
      <3>1. NoPush \in [before : 0..Len(commits), head : 0..Len(commits)]
        BY <1>1 DEF NoPush
      <3> QED
        BY <1>4, <3>1 DEF CITypeOK
    <2>3. CITypeOK'
      BY <1>4, <2>1, <2>2 DEF CITypeOK, CIRunsAt
    <2>4. ci'[b] = r /\ \A d \in CIBranches : d # b => ci'[d] = ci[d]
      BY <1>4 DEF RunIs, CITypeOK
    <2>5. \A d \in CIBranches : waiting'[d] \in {waiting[d], NoPush}
      BY <1>4 DEF CITypeOK
    <2>6. HeadsExist'
      BY <1>4, <2>4, <2>5 DEF HeadsExist
    <2> QED
      BY <2>3, <2>6
  <1>5. Gating \in CIRunsAt(Len(commits)) /\ Gating.state = "gating"
    BY <1>1, 0 \in 0..Len(commits) DEF Gating, NoRun, CIRunsAt
  <1>6. ASSUME NEW b \in CIBranches, StartRun(b) PROVE CITypeOK' /\ HeadsExist'
    <2>1. PICK origin \in 0..Len(commits) :
            RunIs(b, [before |-> waiting[b].before, head |-> waiting[b].head, origin |-> origin,
                      base |-> 0, whole |-> FALSE, state |-> "started"])
      <3>1. remote["default"] \in 0..Len(commits) /\ 0 \in 0..Len(commits)
        BY <1>1 DEF CITypeOK, CIBranches
      <3> QED
        BY <1>6, <3>1 DEF StartRun
    <2> DEFINE r == [before |-> waiting[b].before, head |-> waiting[b].head, origin |-> origin,
                     base |-> 0, whole |-> FALSE, state |-> "started"]
    <2>2. RunIs(b, r)
      BY <2>1
    <2>3. waiting[b] \in [before : 0..Len(commits), head : 0..Len(commits)]
      BY DEF CITypeOK
    <2>4. r \in CIRunsAt(Len(commits))
      BY <1>1, <2>3 DEF CIRunsAt
    <2>5. r.head \in 1..Len(commits)
      BY <1>6 DEF StartRun, HeadsExist
    <2>6. UNCHANGED <<pushes, commits, remote>> /\ waiting' = [waiting EXCEPT ![b] = NoPush]
      BY <1>6 DEF StartRun
    <2> HIDE DEF r
    <2> QED
      BY <1>4, <2>2, <2>4, <2>5, <2>6
  <1>7. ASSUME NEW b \in CIBranches, DetectInDoubt(b) PROVE CITypeOK' /\ HeadsExist'
    BY <1>4, <1>5, <1>7 DEF DetectInDoubt
  <1>8. ASSUME NEW b \in CIBranches, Detect(b) PROVE CITypeOK' /\ HeadsExist'
    <2>1. PICK exact \in BOOLEAN : \E base \in BasesOf(b, exact) :
            DetectFrom(b, base)
      BY <1>8 DEF Detect
    <2> PICK base \in BasesOf(b, exact) : DetectFrom(b, base)
      BY <2>1
    <2> PICK paired \in Paired(base, ci[b].head), listed \in Listings(commits[ci[b].head].tree) :
            RunIs(b, IF Changed(DiffNames(base, ci[b].head, paired), listed) THEN Gating
                     ELSE [ci[b] EXCEPT !.base = base, !.origin = 0, !.state = "skipped",
                                        !.whole = IsWhole(listed, commits[ci[b].head].tree)])
      BY DEF DetectFrom
    <2>2. UNCHANGED <<pushes, commits, remote, waiting>> /\ ci[b].state = "started"
      BY <1>8 DEF Detect
    <2>3. base \in 0..Len(commits)
      BY <1>1, <2>2, BaseExists
    <2> DEFINE r == [ci[b] EXCEPT !.base = base, !.origin = 0, !.state = "skipped",
                                   !.whole = IsWhole(listed, commits[ci[b].head].tree)]
    <2>4. ci[b] \in CIRunsAt(Len(commits))
      BY DEF CITypeOK, CIRunsAt
    <2>5. r \in CIRunsAt(Len(commits)) /\ r.head = ci[b].head
      <3>1. 0 \in 0..Len(commits) /\ IsWhole(listed, commits[ci[b].head].tree) \in BOOLEAN
        BY <1>1 DEF IsWhole
      <3> QED
        BY <2>3, <2>4, <3>1 DEF CIRunsAt
    <2>6. ci[b].head \in 1..Len(commits)
      BY <2>2 DEF HeadsExist
    <2> HIDE DEF r
    <2>7. CASE RunIs(b, Gating)
      BY <1>4, <1>5, <2>2, <2>7
    <2>8. CASE RunIs(b, r)
      BY <1>4, <2>2, <2>5, <2>6, <2>8
    <2> QED
      BY <2>1, <2>7, <2>8 DEF r
  <1>9. CASE UNCHANGED ciVars
    BY <1>9 DEF ciVars, CITypeOK, HeadsExist
  <1> QED
    BY <1>2, <1>3, <1>6, <1>7, <1>8, <1>9, CommitAdds DEF CINext

(* The runs, pushes and commits keep to their types. *)
THEOREM CITypeCorrect == CISpec => [](CITypeOK /\ HeadsExist)
  <1>1. CIInit => CITypeOK /\ HeadsExist
    <2> SUFFICES ASSUME CIInit PROVE CITypeOK /\ HeadsExist
      OBVIOUS
    <2>1. [parents |-> {}, tree |-> [f \in CIFiles |-> 1]] \in CICommits
      BY CIFacts DEF CICommits, Trees
    <2>2. commits \in Seq(CICommits) /\ Len(commits) = 1 /\ commits[1].parents = {}
      BY <2>1 DEF CIInit
    <2>3. NoRun \in CIRunsAt(1) /\ NoRun.state = "none" /\ NoPush \in [before : 0..1, head : 0..1]
      BY DEF NoRun, CIRunsAt, NoPush
    <2>4. CITypeOK
      BY <2>2, <2>3, CIFacts DEF CIInit, CITypeOK, CICommits, CIRunsAt, CommitIds
    <2> QED
      BY <2>3, <2>4 DEF CIInit, HeadsExist
  <1> QED
    BY <1>1, CITyped, PTL DEF CISpec

(* A run that skips its gates has nothing to gate, but for what go list or the detection of       *)
(* renames kept from ci-changed: for any files, histories with merges, pushes and resets.         *)
THEOREM SkippedRunsAreRight == CISpec => []SkippedRunHasNothingToGate
  <1>1. CIInit => SkippedRunHasNothingToGate
    BY DEF CIInit, SkippedRunHasNothingToGate, NoRun
  <1>2. ASSUME CITypeOK, HeadsExist, SkippedRunHasNothingToGate, [CINext]_ciVars
        PROVE  SkippedRunHasNothingToGate'
    <2>1. ASSUME NEW parents \in SUBSET (1..Len(commits)), NEW tree \in Trees, AddCommit(parents, tree)
          PROVE  SkippedRunHasNothingToGate'
      <3>1. /\ \A i \in 1..Len(commits) : commits'[i] = commits[i] /\ Ancestry(i)' = Ancestry(i)
            /\ Len(commits') = Len(commits) + 1 /\ Len(commits) \in Nat
        <4>1. Len(commits) \in CommitIds
          BY <1>2 DEF CITypeOK
        <4>2. Len(commits) \in Nat
          BY <4>1, CIFacts DEF CommitIds
        <4>3. CITypeOK
          BY <1>2
        <4>4. /\ Len(commits') = Len(commits) + 1
              /\ \A i \in 1..Len(commits) : commits'[i] = commits[i]
              /\ \A i \in 1..Len(commits) : Ancestry(i)' = Ancestry(i)
          BY <2>1, <4>3, CommitKeeps
        <4> QED
          BY <4>2, <4>4
      <3>2. UNCHANGED ci
        BY <2>1 DEF AddCommit
      <3>3. \A b \in CIBranches : ci[b].state = "skipped" => ci[b].head \in 1..Len(commits)
        BY <1>2 DEF HeadsExist
      <3> SUFFICES ASSUME NEW b \in CIBranches, ci[b].state = "skipped"
                   PROVE  /\ ci[b].base \in 1..Len(commits')
                          /\ \A g \in CIFiles \ Documents :
                                \/ commits'[ci[b].head].tree[g] = commits'[ci[b].base].tree[g]
                                \/ g \in Payloads /\ (commits'[ci[b].head].tree[g] = 0 \/ ~ci[b].whole)
                                \/ g \in Deleted(ci[b].base, ci[b].head)' /\ Added(ci[b].base, ci[b].head)' # {}
                          /\ IF b = "default" THEN ci[b].base = ci[b].before
                             ELSE ci[b].base \in Ancestry(ci[b].head)'
        BY <3>2 DEF SkippedRunHasNothingToGate
      <3>4. ci[b].base \in 1..Len(commits) /\ ci[b].head \in 1..Len(commits)
        BY <1>2, <3>3 DEF SkippedRunHasNothingToGate
      <3>5. /\ commits'[ci[b].head] = commits[ci[b].head] /\ commits'[ci[b].base] = commits[ci[b].base]
            /\ Ancestry(ci[b].head)' = Ancestry(ci[b].head)
        BY <3>1, <3>2, <3>4
      <3>6. ci[b].base \in 1..Len(commits')
        BY <3>1, <3>4
      <3>7. UNCHANGED <<Deleted(ci[b].base, ci[b].head), Added(ci[b].base, ci[b].head)>>
        BY <3>2, <3>5 DEF Deleted, Added
      <3> QED
        BY <1>2, <3>5, <3>6, <3>7 DEF SkippedRunHasNothingToGate
    <2>2. ASSUME NEW b \in CIBranches, NEW r, RunIs(b, r), UNCHANGED commits,
                 r.state = "skipped" =>
                    /\ r.base \in 1..Len(commits)
                    /\ \A f \in CIFiles \ Documents :
                        \/ commits[r.head].tree[f] = commits[r.base].tree[f]
                        \/ f \in Payloads /\ (commits[r.head].tree[f] = 0 \/ ~r.whole)
                        \/ f \in Deleted(r.base, r.head) /\ Added(r.base, r.head) # {}
                    /\ IF b = "default" THEN r.base = r.before ELSE r.base \in Ancestry(r.head)
          PROVE  SkippedRunHasNothingToGate'
      <3>1. ci'[b] = r /\ \A d \in CIBranches : d # b => ci'[d] = ci[d]
        BY <1>2, <2>2 DEF RunIs, CITypeOK
      <3>2. \A c : Ancestry(c)' = Ancestry(c)
        BY <2>2 DEF Ancestry, IsHistory
      <3>3. \A c, d : Deleted(c, d)' = Deleted(c, d) /\ Added(c, d)' = Added(c, d)
        BY <2>2 DEF Deleted, Added
      <3> QED
        BY <1>2, <2>2, <3>1, <3>2, <3>3 DEF SkippedRunHasNothingToGate
    <2>3. ASSUME NEW b \in CIBranches, StartRun(b) PROVE SkippedRunHasNothingToGate'
      BY <2>2, <2>3 DEF StartRun, NoRun
    <2>4. ASSUME NEW b \in CIBranches, DetectInDoubt(b) PROVE SkippedRunHasNothingToGate'
      BY <2>2, <2>4 DEF DetectInDoubt, Gating, NoRun
    <2>5. ASSUME NEW b \in CIBranches, Detect(b) PROVE SkippedRunHasNothingToGate'
      <3> DEFINE head == ci[b].head
      <3>1. PICK exact \in BOOLEAN : \E base \in BasesOf(b, exact) : DetectFrom(b, base)
        BY <2>5 DEF Detect
      <3> PICK base \in BasesOf(b, exact) : DetectFrom(b, base)
        BY <3>1
      <3>6. PICK paired \in Paired(base, head), listed \in Listings(commits[head].tree) :
              RunIs(b, IF Changed(DiffNames(base, head, paired), listed) THEN Gating
                       ELSE [ci[b] EXCEPT !.base = base, !.origin = 0, !.state = "skipped",
                                          !.whole = IsWhole(listed, commits[head].tree)])
        BY DEF DetectFrom
      <3>2. UNCHANGED commits /\ ci[b].state = "started"
        BY <2>5 DEF Detect
      <3>3. /\ base \in 1..Len(commits)
            /\ IF b = "default" THEN base = ci[b].before ELSE base \in Ancestry(head)
        BY <1>2, <3>2, BaseExists
      <3> DEFINE skip == [ci[b] EXCEPT !.base = base, !.origin = 0, !.state = "skipped",
                                       !.whole = IsWhole(listed, commits[head].tree)]
      <3>4. CASE RunIs(b, Gating)
        BY <2>2, <3>2, <3>4 DEF Gating, NoRun
      <3>5. CASE ~Changed(DiffNames(base, head, paired), listed) /\ RunIs(b, skip)
        <4>1. /\ skip.base = base /\ skip.head = head /\ skip.before = ci[b].before
              /\ skip.whole = IsWhole(listed, commits[head].tree)
          BY <1>2 DEF CITypeOK
        <4>2. ASSUME NEW f \in CIFiles \ Documents
              PROVE  \/ commits[head].tree[f] = commits[base].tree[f]
                     \/ f \in Payloads /\ (commits[head].tree[f] = 0 \/ ~skip.whole)
                     \/ f \in Deleted(base, head) /\ Added(base, head) # {}
          <5>1. CASE f \in paired
            <6>1. f \in Deleted(base, head) /\ Cardinality(paired) <= Cardinality(Added(base, head))
              BY <3>6, <5>1 DEF Paired
            <6>2. ASSUME Added(base, head) = {} PROVE FALSE
              <7>1. Cardinality(paired) <= 0
                BY <6>1, <6>2, FS_EmptySet
              <7>2. IsFiniteSet(paired)
                BY <3>6, CIAssumption, FS_Subset DEF Paired, Deleted
              <7> QED
                BY <5>1, <7>1, <7>2, FS_EmptySet, FS_CardinalityType
            <6> QED
              BY <6>1, <6>2
          <5>2. CASE f \notin paired /\ commits[head].tree[f] # commits[base].tree[f]
            <6>1. f \in DiffNames(base, head, paired)
              BY <5>2 DEF DiffNames
            <6>2. f \in Payloads /\ f \notin listed
              BY <3>5, <6>1 DEF Changed, Relevant, Telling, CIFiles
            <6> QED
              BY <4>1, <6>2 DEF IsWhole
          <5> QED
            BY <5>1, <5>2
        <4> HIDE DEF skip
        <4> QED
          BY <2>2, <3>2, <3>3, <3>5, <4>1, <4>2
      <3> QED
        BY <3>4, <3>5, <3>6
    <2>6. ASSUME UNCHANGED <<commits, ci>> PROVE SkippedRunHasNothingToGate'
      BY <1>2, <2>6 DEF SkippedRunHasNothingToGate, Ancestry, IsHistory, Deleted, Added
    <2> QED
      BY <1>2, <2>1, <2>3, <2>4, <2>5, <2>6, CommitAdds DEF CINext, PushBranch, ciVars
  <1> QED
    BY <1>1, <1>2, CITypeCorrect, PTL DEF CISpec

-----------------------------------------------------------------------------
(***************************************************************************)
(* Why a run of scaffold settles, for any jobs, names, owners and failures:  *)
(* each file that an undisturbed run has passed is as a further run would  *)
(* leave it, as long as that run finds the same binary.                    *)
(***************************************************************************)

(* The bounds are numbers, and a job is a record. *)
LEMMA ScaffoldFacts ==
    /\ MaxOwnerEdits \in Nat /\ MaxTorn \in Nat /\ OwnJobs \subseteq JobRecords
    /\ CanonicalJob \in JobRecords /\ Names \cap {NoName, Unsafe, Blank} = {}
  BY ScaffoldAssumption DEF CanonicalJob, JobRecords, Form, Literals

(* Adding what is missing leaves the other inputs, and a job that lacks nothing. *)
LEMMA RepairedJob ==
    ASSUME NEW job \in JobRecords
    PROVE  /\ Repaired(job) \in JobRecords /\ Repaired(job).grants # "short"
           /\ Repaired(job).with = job.with /\ Repaired(job).cgo = job.cgo /\ Repaired(job).binary = job.binary
           /\ job.grants # "short" => Repaired(job) = job
  BY DEF Repaired, Granted, JobRecords

(* A job told the binary has it, unless its inputs cannot be edited line by line. *)
LEMMA NamedJob ==
    ASSUME NEW job \in JobRecords, plan_for.binary \in Names \cup {NoName}
    PROVE  /\ Named(job) \in JobRecords /\ Named(job).grants = job.grants
           /\ Named(job).with # "inline" /\ plan_for.binary # NoName =>
                Named(job).with = "block" /\ Named(job).binary = plan_for.binary
           /\ job.with = "block" /\ job.binary = plan_for.binary => Named(job) = job
           /\ job.with = "inline" \/ plan_for.binary = NoName => Named(job) = job
  BY DEF Named, Upsert, JobRecords, Form

(* A CI job takes the cgo of its directory, if the releases of that agree on one.  *)
LEMMA SyncedJob ==
    ASSUME NEW j, NEW job \in JobRecords
    PROVE  /\ Synced(j, job) \in JobRecords /\ Synced(j, job).grants = job.grants
           /\ Synced(j, job).with # "inline" => ReleaseCgo(DirOf[j]) \in {{}, {CgoOf(Synced(j, job))}}
           /\ job.with = "inline" \/ ReleaseCgo(DirOf[j]) \in {{}, {CgoOf(job)}} => Synced(j, job) = job
  <1>1. CASE job.with # "inline" /\ ReleaseCgo(DirOf[j]) \notin {{}, {CgoOf(job)}}
    <2> DEFINE v == CHOOSE w \in ReleaseCgo(DirOf[j]) : TRUE
    <2>1. v \in ReleaseCgo(DirOf[j]) /\ v \in Literals /\ ReleaseCgo(DirOf[j]) = {v}
      <3>1. \E w : w \in ReleaseCgo(DirOf[j])
        BY <1>1
      <3>2. v \in ReleaseCgo(DirOf[j])
        BY <3>1
      <3>3. \A w, x \in ReleaseCgo(DirOf[j]) : w = x /\ w \in Literals
        BY DEF ReleaseCgo
      <3> QED
        BY <3>2, <3>3
    <2>2. Synced(j, job) = [[job EXCEPT !.cgo = v] EXCEPT !.with = "block"]
      BY <1>1 DEF Synced, Upsert
    <2> HIDE DEF v
    <2>3. [[job EXCEPT !.cgo = v] EXCEPT !.with = "block"] \in JobRecords
      BY <2>1 DEF JobRecords, Form
    <2>4. Synced(j, job).cgo = v /\ Synced(j, job).grants = job.grants
      BY <2>2 DEF JobRecords
    <2>5. CgoOf(Synced(j, job)) = v
      BY <2>1, <2>4 DEF CgoOf, Literals
    <2> QED
      BY <1>1, <2>1, <2>2, <2>3, <2>4, <2>5
  <1>2. CASE job.with = "inline" \/ ReleaseCgo(DirOf[j]) \in {{}, {CgoOf(job)}}
    BY <1>2 DEF Synced
  <1> QED
    BY <1>1, <1>2

(* A workflow whose every job is changed, or left as it is. *)
LEMMA WorkflowFacts ==
    ASSUME NEW jobs, NEW file, IsWorkflow(file, jobs)
    PROVE  /\ file = [form |-> file.form, jobs |-> file.jobs]
           /\ DOMAIN file.jobs \subseteq jobs /\ file.jobs \in [DOMAIN file.jobs -> JobRecords]
           /\ file.form \in {"absent", "empty", "owner's", "caller"}
  BY DEF IsWorkflow

(* A caller is a workflow. *)
LEMMA CallerFacts ==
    ASSUME NEW jobs, NEW file, IsWorkflow(file, jobs)
    PROVE  /\ IsWorkflow(Caller(file, jobs), jobs) /\ Caller(file, jobs).form # "absent"
           /\ file.form # "absent" => Caller(file, jobs) = file
  <1>1. CASE file.form # "absent"
    BY <1>1 DEF Caller
  <1>2. CASE file.form = "absent"
    <2>1. [j \in jobs \cap Canonical |-> CanonicalJob] \in [jobs \cap Canonical -> JobRecords]
      BY ScaffoldFacts
    <2>2. Caller(file, jobs) = [form |-> "caller", jobs |-> [j \in jobs \cap Canonical |-> CanonicalJob]]
      BY <1>2 DEF Caller
    <2> QED
      BY <1>2, <2>1, <2>2 DEF IsWorkflow
  <1> QED
    BY <1>1, <1>2

(* What the reconciled release file is. *)
LEMMA ReleaseIs ==
    ASSUME ScaffoldTypeOK, ReconcileRelease
    PROVE  /\ IsWorkflow(release', ReleaseJobs) /\ release'.form # "absent"
           /\ \A j \in DOMAIN release'.jobs : \E job \in JobRecords : release'.jobs[j] = Named(Repaired(job))
           /\ release.form # "absent" /\ (\A j \in DOMAIN release.jobs : Named(Repaired(release.jobs[j])) = release.jobs[j])
                => release' = release
  <1> DEFINE old == Caller(release, ReleaseJobs)
  <1>1. /\ IsWorkflow(old, ReleaseJobs) /\ old.form # "absent"
        /\ release.form # "absent" => old = release
    BY CallerFacts DEF ScaffoldTypeOK
  <1>2. /\ old = [form |-> old.form, jobs |-> old.jobs]
        /\ DOMAIN old.jobs \subseteq ReleaseJobs /\ old.jobs \in [DOMAIN old.jobs -> JobRecords]
        /\ old.form \in {"absent", "empty", "owner's", "caller"}
    BY <1>1, WorkflowFacts
  <1>3. release' = [old EXCEPT !.jobs = [j \in DOMAIN old.jobs |-> Named(Repaired(old.jobs[j]))]]
    BY DEF ReconcileRelease
  <1> HIDE DEF old
  <1> DEFINE new == [j \in DOMAIN old.jobs |-> Named(Repaired(old.jobs[j]))]
  <1>4. release' = [form |-> old.form, jobs |-> new]
    BY <1>2, <1>3
  <1>5. \A j \in DOMAIN old.jobs : Named(Repaired(old.jobs[j])) \in JobRecords
    BY <1>2, RepairedJob, NamedJob DEF ScaffoldTypeOK
  <1>6. new \in [DOMAIN old.jobs -> JobRecords]
    BY <1>5
  <1>7. IsWorkflow(release', ReleaseJobs) /\ release'.form # "absent"
    BY <1>1, <1>2, <1>4, <1>6 DEF IsWorkflow
  <1>8. \A j \in DOMAIN release'.jobs : \E job \in JobRecords : release'.jobs[j] = Named(Repaired(job))
    BY <1>2, <1>4
  <1>9. ASSUME release.form # "absent", \A j \in DOMAIN release.jobs : Named(Repaired(release.jobs[j])) = release.jobs[j]
        PROVE  release' = release
    <2>1. new = old.jobs
      BY <1>1, <1>2, <1>9
    <2> HIDE DEF new
    <2> QED
      BY <1>1, <1>2, <1>4, <1>9, <2>1
  <1> QED
    BY <1>7, <1>8, <1>9

(* What the reconciled CI file is. *)
LEMMA CIFileIs ==
    ASSUME ScaffoldTypeOK, ReconcileCI
    PROVE  /\ IsWorkflow(ci_file', CIJobs) /\ ci_file'.form # "absent"
           /\ \A j \in DOMAIN ci_file'.jobs : \E job \in JobRecords : ci_file'.jobs[j] = Synced(j, Repaired(job))
           /\ ci_file.form # "absent" /\ (\A j \in DOMAIN ci_file.jobs : Synced(j, Repaired(ci_file.jobs[j])) = ci_file.jobs[j])
                => ci_file' = ci_file
  <1> DEFINE old == Caller(ci_file, CIJobs)
  <1>1. /\ IsWorkflow(old, CIJobs) /\ old.form # "absent"
        /\ ci_file.form # "absent" => old = ci_file
    BY CallerFacts DEF ScaffoldTypeOK
  <1>2. /\ old = [form |-> old.form, jobs |-> old.jobs]
        /\ DOMAIN old.jobs \subseteq CIJobs /\ old.jobs \in [DOMAIN old.jobs -> JobRecords]
        /\ old.form \in {"absent", "empty", "owner's", "caller"}
    BY <1>1, WorkflowFacts
  <1>3. ci_file' = [old EXCEPT !.jobs = [j \in DOMAIN old.jobs |-> Synced(j, Repaired(old.jobs[j]))]]
    BY DEF ReconcileCI
  <1> HIDE DEF old
  <1> DEFINE new == [j \in DOMAIN old.jobs |-> Synced(j, Repaired(old.jobs[j]))]
  <1>4. ci_file' = [form |-> old.form, jobs |-> new]
    BY <1>2, <1>3
  <1>5. \A j \in DOMAIN old.jobs : Synced(j, Repaired(old.jobs[j])) \in JobRecords
    BY <1>2, RepairedJob, SyncedJob
  <1>6. new \in [DOMAIN old.jobs -> JobRecords]
    BY <1>5
  <1>7. IsWorkflow(ci_file', CIJobs) /\ ci_file'.form # "absent"
    BY <1>1, <1>2, <1>4, <1>6 DEF IsWorkflow
  <1>8. \A j \in DOMAIN ci_file'.jobs : \E job \in JobRecords : ci_file'.jobs[j] = Synced(j, Repaired(job))
    BY <1>2, <1>4
  <1>9. ASSUME ci_file.form # "absent", \A j \in DOMAIN ci_file.jobs : Synced(j, Repaired(ci_file.jobs[j])) = ci_file.jobs[j]
        PROVE  ci_file' = ci_file
    <2>1. new = old.jobs
      BY <1>1, <1>2, <1>9
    <2> HIDE DEF new
    <2> QED
      BY <1>1, <1>2, <1>4, <1>9, <2>1
  <1> QED
    BY <1>7, <1>8, <1>9

(* A file that calls nothing reusable is a workflow without jobs. *)
LEMMA EmptyWorkflow ==
    ASSUME NEW jobs, NEW form \in {"absent", "empty", "owner's", "caller"}
    PROVE  /\ IsWorkflow([form |-> form, jobs |-> <<>>], jobs)
           /\ IsWorkflow(NoWorkflow, jobs)
  <1>1. <<>> \in [{} -> JobRecords]
    OBVIOUS
  <1> QED
    BY <1>1 DEF IsWorkflow, NoWorkflow

(* Every step keeps the types. *)
LEMMA ScaffoldTyped ==
    ASSUME ScaffoldTypeOK, [ScaffoldNext]_scaffoldVars
    PROVE  ScaffoldTypeOK'
  <1>0. ASSUME OwnerEdits PROVE owner_edits' \in 0..MaxOwnerEdits
    <2>1. owner_edits \in 0..MaxOwnerEdits /\ MaxOwnerEdits \in Nat
      BY ScaffoldFacts DEF ScaffoldTypeOK
    <2>2. owner_edits < MaxOwnerEdits /\ owner_edits' = owner_edits + 1
      BY <1>0, Zenon DEF OwnerEdits
    <2> QED
      BY <2>1, <2>2
  <1> USE DEF ScaffoldTypeOK, FileDone, Writes
  <1>1. IsWorkflow(NoWorkflow, ReleaseJobs) /\ IsWorkflow(NoWorkflow, CIJobs)
    BY EmptyWorkflow
  <1>2. CASE OwnerEdits
    <2>1. owner_edits' \in 0..MaxOwnerEdits
      BY <1>0, <1>2
    <2>2. IsWorkflow(release', ReleaseJobs)
      <3>1. ASSUME NEW j \in DOMAIN release.jobs, NEW v \in Literals
            PROVE  IsWorkflow([release EXCEPT !.jobs[j].cgo = v], ReleaseJobs)
        <4>1. /\ release = [form |-> release.form, jobs |-> release.jobs]
              /\ DOMAIN release.jobs \subseteq ReleaseJobs /\ release.jobs \in [DOMAIN release.jobs -> JobRecords]
              /\ release.form \in {"absent", "empty", "owner's", "caller"}
          BY WorkflowFacts
        <4>2. [release.jobs[j] EXCEPT !.cgo = v] \in JobRecords
          BY <4>1 DEF JobRecords
        <4>3. [release.jobs EXCEPT ![j].cgo = v] \in [DOMAIN release.jobs -> JobRecords]
          BY <4>1, <4>2
        <4>4. [release EXCEPT !.jobs[j].cgo = v] = [form |-> release.form, jobs |-> [release.jobs EXCEPT ![j].cgo = v]]
          BY <4>1
        <4> QED
          BY <4>1, <4>3, <4>4 DEF IsWorkflow
      <3>2. \/ release' \in {release, NoWorkflow}
            \/ \E j \in DOMAIN release.jobs, v \in Literals : release' = [release EXCEPT !.jobs[j].cgo = v]
        BY <1>2 DEF OwnerEdits
      <3> QED
        BY <1>1, <3>1, <3>2
    <2>3. makefile' \in Makefiles
      <3>1. makefile' = makefile \/ \E n \in Values : makefile' = [makefile EXCEPT !.form = "owner's", !.binary = n]
        BY <1>2 DEF OwnerEdits
      <3> QED
        BY <3>1 DEF Makefiles
    <2>4. main_command' \in Values /\ others' \subseteq Others /\ UNCHANGED ci_file
      BY <1>2 DEF OwnerEdits
    <2>5. undisturbed' = FALSE /\ UNCHANGED <<reached, plan_for, changed, renamed, settled, torn>>
      BY <1>2 DEF OwnerEdits
    <2> QED
      BY <2>1, <2>2, <2>3, <2>4, <2>5
  <1>3. CASE BeginScaffold
    <2>1. plan_for' \in [command : Values, binary : Names \cup {NoName}]
      BY <1>3 DEF BeginScaffold, Detected, ReleaseBinary, Makefiles
    <2>2. /\ UNCHANGED <<main_command, makefile, release, ci_file, others, owner_edits, torn>>
          /\ reached' = "Makefile" /\ changed' = FALSE /\ renamed' = FALSE /\ undisturbed' = TRUE
          /\ settled' \in BOOLEAN
      BY <1>3 DEF BeginScaffold
    <2> QED
      BY <2>1, <2>2 DEF ScaffoldFiles
  <1>4. CASE ReconcileMakefile
    <2>1. makefile' \in Makefiles
      BY <1>4 DEF ReconcileMakefile, Makefiles
    <2> QED
      BY <1>4, <2>1 DEF ReconcileMakefile, ScaffoldFiles
  <1>5. ASSUME NEW f, NEW next \in ScaffoldFiles \cup {"done"}, ReconcileOther(f, next) PROVE ScaffoldTypeOK'
    BY <1>5 DEF ReconcileOther
  <1>6. CASE ReconcileRelease
    <2>1. IsWorkflow(release', ReleaseJobs)
      BY <1>6, ReleaseIs
    <2> QED
      BY <1>6, <2>1 DEF ReconcileRelease, ScaffoldFiles
  <1>7. CASE ReconcileCI
    <2>1. IsWorkflow(ci_file', CIJobs)
      BY <1>7, CIFileIs
    <2> QED
      BY <1>7, <2>1 DEF ReconcileCI, ScaffoldFiles
  <1>8. CASE RunFails
    <2>1. torn' \in 0..MaxTorn
      BY <1>8, ScaffoldFacts DEF RunFails
    <2>2. IsWorkflow(release', ReleaseJobs) /\ IsWorkflow(ci_file', CIJobs)
      BY <1>8, EmptyWorkflow DEF RunFails
    <2>3. makefile' \in Makefiles
      BY <1>8 DEF RunFails, Makefiles, Values
    <2> QED
      BY <1>8, <2>1, <2>2, <2>3 DEF RunFails
  <1>9. CASE UNCHANGED scaffoldVars
    BY <1>9 DEF scaffoldVars
  <1> QED
    BY <1>2, <1>3, <1>4, <1>5, <1>6, <1>7, <1>8, <1>9 DEF ScaffoldNext, ScaffoldFiles

(* The files, the run and its plan keep to their types. *)
THEOREM ScaffoldTypeCorrect == ScaffoldSpec => []ScaffoldTypeOK
  <1>1. ScaffoldInit => ScaffoldTypeOK
    <2> SUFFICES ASSUME ScaffoldInit PROVE ScaffoldTypeOK
      OBVIOUS
    <2>1. ASSUME NEW jobs PROVE \A file \in OwnerFiles(jobs) : IsWorkflow(file, jobs)
      <3>1. \A file \in [form : {"caller"}, jobs : [jobs -> OwnJobs]] : IsWorkflow(file, jobs)
        BY ScaffoldFacts DEF IsWorkflow
      <3> QED
        BY <3>1, EmptyWorkflow DEF OwnerFiles
    <2>2. IsWorkflow(release, ReleaseJobs) /\ IsWorkflow(ci_file, CIJobs)
      BY <2>1 DEF ScaffoldInit
    <2>3. makefile \in Makefiles
      BY DEF ScaffoldInit, OwnerMakefiles
    <2>4. main_command \in Values /\ others \subseteq Others /\ reached = "idle"
      BY DEF ScaffoldInit
    <2>5. plan_for \in [command : Values, binary : Names \cup {NoName}]
      BY DEF ScaffoldInit, Values
    <2>6. {changed, renamed, undisturbed, settled} \subseteq BOOLEAN
      BY DEF ScaffoldInit
    <2>7. owner_edits \in 0..MaxOwnerEdits /\ torn \in 0..MaxTorn
      BY ScaffoldFacts DEF ScaffoldInit
    <2> QED
      BY <2>2, <2>3, <2>4, <2>5, <2>6, <2>7 DEF ScaffoldTypeOK
  <1> QED
    BY <1>1, ScaffoldTyped, PTL DEF ScaffoldSpec

(* What a run leaves of the Makefile, the release callers and the CI callers. *)
MakefileIsRight ==
    /\ makefile.form \notin {"absent", "older"}
    /\ ~renamed => plan_for.binary = ReleaseBinary(makefile)
ReleaseIsRight ==
    /\ release.form # "absent"
    /\ \A j \in DOMAIN release.jobs :
        /\ release.jobs[j].grants # "short"
        /\ release.jobs[j].with # "inline" /\ plan_for.binary # NoName =>
            release.jobs[j].with = "block" /\ release.jobs[j].binary = plan_for.binary
CIIsRight ==
    /\ ci_file.form # "absent"
    /\ \A j \in DOMAIN ci_file.jobs :
        /\ ci_file.jobs[j].grants # "short"
        /\ ci_file.jobs[j].with # "inline" => ReleaseCgo(DirOf[j]) \in {{}, {CgoOf(ci_file.jobs[j])}}

(* The files a run has passed are right, and one after a run that ended well has changed nothing. *)
Passed ==
    /\ reached = "Makefile" => plan_for = Detected
    /\ reached \in {"bootstrap.mk", "release.yml", "ci.yml", ".gitignore", "go.mod", "done"} => MakefileIsRight
    /\ reached \in {"release.yml", "ci.yml", ".gitignore", "go.mod", "done"} => "bootstrap.mk" \notin others
    /\ reached \in {"ci.yml", ".gitignore", "go.mod", "done"} => ReleaseIsRight
    /\ reached \in {".gitignore", "go.mod", "done"} => CIIsRight
    /\ reached \in {"go.mod", "done"} => ".gitignore" \notin others
    /\ reached = "done" => "go.mod" \notin others
NothingLeft ==
    /\ makefile.form \notin {"absent", "older"} /\ ReleaseIsRight /\ CIIsRight
    /\ others = {} /\ ~changed
RunIsRight ==
    undisturbed =>
        /\ Passed
        /\ settled /\ reached \in ScaffoldFiles \cup {"done"} => NothingLeft

(* Every step keeps them so. *)
LEMMA RunStaysRight ==
    ASSUME ScaffoldTypeOK, RunIsRight, [ScaffoldNext]_scaffoldVars
    PROVE  RunIsRight'
  <1> USE DEF FileDone, Writes
  <1>1. CASE OwnerEdits
    BY <1>1 DEF OwnerEdits, RunIsRight
  <1>2. CASE BeginScaffold
    <2>1. /\ UNCHANGED <<main_command, makefile, release, ci_file, others>> /\ plan_for' = Detected
          /\ reached' = "Makefile" /\ ~changed' /\ settled' = (reached = "done" /\ undisturbed /\ ~renamed)
      BY <1>2 DEF BeginScaffold
    <2>2. Passed'
      BY <2>1 DEF Passed, Detected, ReleaseBinary
    <2>3. ASSUME settled' PROVE NothingLeft'
      <3>1. MakefileIsRight /\ ReleaseIsRight /\ CIIsRight /\ others = {} /\ ~renamed
        BY <2>1, <2>3 DEF RunIsRight, Passed, ScaffoldTypeOK, Others
      <3>2. plan_for'.binary = plan_for.binary
        BY <2>1, <3>1 DEF MakefileIsRight, Detected
      <3>3. ReleaseIsRight'
        BY <2>1, <3>1, <3>2 DEF ReleaseIsRight
      <3>4. CIIsRight'
        BY <2>1, <3>1 DEF CIIsRight, ReleaseCgo, Readable
      <3> QED
        BY <2>1, <3>1, <3>3, <3>4 DEF NothingLeft, MakefileIsRight
    <2> QED
      BY <2>2, <2>3 DEF RunIsRight
  <1>3. CASE ReconcileMakefile
    <2>1. /\ reached = "Makefile" /\ reached' = "bootstrap.mk"
          /\ UNCHANGED <<main_command, release, ci_file, others, plan_for, undisturbed, settled>>
          /\ renamed' = (makefile'.binary # makefile.binary /\ plan_for.binary # ReleaseBinary(makefile'))
          /\ changed' = (changed \/ makefile' # makefile)
      BY <1>3 DEF ReconcileMakefile
    <2>2. /\ makefile'.form \notin {"absent", "older"}
          /\ makefile.form \notin {"absent", "older"} => makefile' = makefile
      BY <1>3 DEF ReconcileMakefile, ClearlyGenerated
    <2>3. ASSUME undisturbed PROVE Passed'
      <3>1. plan_for = Detected
        BY <2>1, <2>3 DEF RunIsRight, Passed
      <3>2. ~renamed' => plan_for'.binary = ReleaseBinary(makefile)'
        BY <2>1, <3>1 DEF Detected, ReleaseBinary
      <3> QED
        BY <2>1, <2>2, <3>2 DEF Passed, MakefileIsRight
    <2>4. ASSUME undisturbed, settled PROVE NothingLeft'
      <3>1. NothingLeft
        BY <2>1, <2>4 DEF RunIsRight, ScaffoldFiles
      <3>2. makefile' = makefile
        BY <2>2, <3>1 DEF NothingLeft
      <3>3. UNCHANGED ReleaseIsRight
        BY <2>1 DEF ReleaseIsRight
      <3>4. UNCHANGED CIIsRight
        BY <2>1 DEF CIIsRight, ReleaseCgo, Readable
      <3> QED
        BY <2>1, <3>1, <3>2, <3>3, <3>4 DEF NothingLeft
    <2> QED
      BY <2>1, <2>3, <2>4 DEF RunIsRight
  <1>4. ASSUME ReconcileOther("bootstrap.mk", "release.yml") \/ ReconcileOther(".gitignore", "go.mod")
               \/ ReconcileOther("go.mod", "done")
        PROVE  RunIsRight'
    <2>1. /\ UNCHANGED <<main_command, makefile, release, ci_file, plan_for, renamed, undisturbed, settled>>
          /\ others' \subseteq others /\ (others = {} => changed' = changed)
          /\ \/ reached = "bootstrap.mk" /\ reached' = "release.yml" /\ "bootstrap.mk" \notin others'
             \/ reached = ".gitignore" /\ reached' = "go.mod" /\ ".gitignore" \notin others'
             \/ reached = "go.mod" /\ reached' = "done" /\ "go.mod" \notin others'
      BY <1>4 DEF ReconcileOther, ScaffoldTypeOK
    <2>2. UNCHANGED <<MakefileIsRight, ReleaseIsRight, CIIsRight>>
      BY <2>1 DEF MakefileIsRight, ReleaseIsRight, CIIsRight, ReleaseBinary, ReleaseCgo, Readable
    <2>3. ASSUME undisturbed PROVE Passed'
      BY <2>1, <2>2, <2>3 DEF RunIsRight, Passed
    <2>4. ASSUME undisturbed, settled PROVE NothingLeft'
      <3>1. NothingLeft
        BY <2>1, <2>4 DEF RunIsRight, ScaffoldFiles
      <3> QED
        BY <2>1, <2>2, <3>1 DEF NothingLeft
    <2> QED
      BY <2>1, <2>3, <2>4 DEF RunIsRight
  <1>5. CASE ReconcileRelease
    <2>1. /\ reached = "release.yml" /\ reached' = "ci.yml"
          /\ UNCHANGED <<main_command, makefile, ci_file, others, plan_for, renamed, undisturbed, settled>>
          /\ changed' = (changed \/ release' # release)
      BY <1>5 DEF ReconcileRelease
    <2>2. ReleaseIsRight'
      <3>1. ASSUME NEW j \in DOMAIN release'.jobs
            PROVE  /\ release'.jobs[j].grants # "short"
                   /\ release'.jobs[j].with # "inline" /\ plan_for.binary # NoName =>
                        release'.jobs[j].with = "block" /\ release'.jobs[j].binary = plan_for.binary
        <4>1. PICK job \in JobRecords : release'.jobs[j] = Named(Repaired(job))
          BY <1>5, ReleaseIs
        <4>2. Repaired(job) \in JobRecords /\ Repaired(job).grants # "short"
          BY RepairedJob
        <4> QED
          BY <4>1, <4>2, NamedJob DEF ScaffoldTypeOK
      <3> QED
        BY <1>5, <2>1, <3>1, ReleaseIs DEF ReleaseIsRight
    <2>3. ASSUME undisturbed PROVE Passed'
      BY <2>1, <2>2, <2>3 DEF RunIsRight, Passed, MakefileIsRight, ReleaseBinary
    <2>4. ASSUME undisturbed, settled PROVE NothingLeft'
      <3>1. NothingLeft
        BY <2>1, <2>4 DEF RunIsRight, ScaffoldFiles
      <3>2. \A j \in DOMAIN release.jobs : Named(Repaired(release.jobs[j])) = release.jobs[j]
        <4> SUFFICES ASSUME NEW j \in DOMAIN release.jobs PROVE Named(Repaired(release.jobs[j])) = release.jobs[j]
          OBVIOUS
        <4>1. release.jobs[j] \in JobRecords
          BY WorkflowFacts DEF ScaffoldTypeOK
        <4>2. Repaired(release.jobs[j]) = release.jobs[j]
          BY <3>1, <4>1, RepairedJob DEF NothingLeft, ReleaseIsRight
        <4> QED
          BY <3>1, <4>1, <4>2, NamedJob DEF NothingLeft, ReleaseIsRight, ScaffoldTypeOK
      <3>3. release' = release
        BY <1>5, <3>1, <3>2, ReleaseIs DEF NothingLeft, ReleaseIsRight
      <3>4. UNCHANGED CIIsRight
        BY <2>1, <3>3 DEF CIIsRight, ReleaseCgo, Readable
      <3> QED
        BY <2>1, <2>2, <3>1, <3>3, <3>4 DEF NothingLeft
    <2> QED
      BY <2>1, <2>3, <2>4 DEF RunIsRight
  <1>6. CASE ReconcileCI
    <2>1. /\ reached = "ci.yml" /\ reached' = ".gitignore"
          /\ UNCHANGED <<main_command, makefile, release, others, plan_for, renamed, undisturbed, settled>>
          /\ changed' = (changed \/ ci_file' # ci_file)
      BY <1>6 DEF ReconcileCI
    <2>2. \A d : ReleaseCgo(d)' = ReleaseCgo(d)
      BY <2>1 DEF ReleaseCgo, Readable
    <2>3. CIIsRight'
      <3>1. ASSUME NEW j \in DOMAIN ci_file'.jobs
            PROVE  /\ ci_file'.jobs[j].grants # "short"
                   /\ ci_file'.jobs[j].with # "inline" => ReleaseCgo(DirOf[j]) \in {{}, {CgoOf(ci_file'.jobs[j])}}
        <4>1. PICK job \in JobRecords : ci_file'.jobs[j] = Synced(j, Repaired(job))
          BY <1>6, CIFileIs
        <4>2. Repaired(job) \in JobRecords /\ Repaired(job).grants # "short"
          BY RepairedJob
        <4> QED
          BY <4>1, <4>2, SyncedJob
      <3>2. \A job : CgoOf(job)' = CgoOf(job)
        OBVIOUS
      <3> QED
        BY <1>6, <2>2, <3>1, CIFileIs DEF CIIsRight, CgoOf
    <2>4. UNCHANGED <<MakefileIsRight, ReleaseIsRight>>
      BY <2>1 DEF MakefileIsRight, ReleaseIsRight, ReleaseBinary
    <2>5. ASSUME undisturbed PROVE Passed'
      BY <2>1, <2>3, <2>4, <2>5 DEF RunIsRight, Passed
    <2>6. ASSUME undisturbed, settled PROVE NothingLeft'
      <3>1. NothingLeft
        BY <2>1, <2>6 DEF RunIsRight, ScaffoldFiles
      <3>2. \A j \in DOMAIN ci_file.jobs : Synced(j, Repaired(ci_file.jobs[j])) = ci_file.jobs[j]
        <4> SUFFICES ASSUME NEW j \in DOMAIN ci_file.jobs PROVE Synced(j, Repaired(ci_file.jobs[j])) = ci_file.jobs[j]
          OBVIOUS
        <4>1. ci_file.jobs[j] \in JobRecords
          BY WorkflowFacts DEF ScaffoldTypeOK
        <4>2. Repaired(ci_file.jobs[j]) = ci_file.jobs[j]
          BY <3>1, <4>1, RepairedJob DEF NothingLeft, CIIsRight
        <4> QED
          BY <3>1, <4>1, <4>2, SyncedJob DEF NothingLeft, CIIsRight
      <3>3. ci_file' = ci_file
        BY <1>6, <3>1, <3>2, CIFileIs DEF NothingLeft, CIIsRight
      <3> QED
        BY <2>1, <2>3, <2>4, <3>1, <3>3 DEF NothingLeft
    <2> QED
      BY <2>1, <2>5, <2>6 DEF RunIsRight
  <1>7. CASE RunFails
    BY <1>7 DEF RunFails, RunIsRight, Passed, ScaffoldFiles
  <1>8. CASE UNCHANGED scaffoldVars
    <2>1. UNCHANGED <<MakefileIsRight, ReleaseIsRight, CIIsRight, Detected>>
      BY <1>8 DEF scaffoldVars, MakefileIsRight, ReleaseIsRight, CIIsRight, Detected, ReleaseBinary, ReleaseCgo, Readable
    <2>2. UNCHANGED <<makefile, reached, plan_for, others, undisturbed, settled, changed>>
      BY <1>8 DEF scaffoldVars
    <2>3. Passed => Passed'
      BY <2>1, <2>2 DEF Passed
    <2>4. NothingLeft => NothingLeft'
      BY <2>1, <2>2 DEF NothingLeft
    <2> QED
      BY <2>2, <2>3, <2>4 DEF RunIsRight
  <1> QED
    BY <1>1, <1>2, <1>3, <1>4, <1>5, <1>6, <1>7, <1>8 DEF ScaffoldNext

(* A run of scaffold that ends well under which nobody edits leaves the files in agreement, and   *)
(* the next one changes nothing: for any jobs, names, owners, earlier templates and failed runs.  *)
THEOREM ScaffoldRunsSettle == ScaffoldSpec => []ScaffoldSettles
  <1>1. ScaffoldInit => RunIsRight
    BY DEF ScaffoldInit, RunIsRight, Passed, ScaffoldFiles
  <1>2. ScaffoldTypeOK /\ RunIsRight /\ [ScaffoldNext]_scaffoldVars => RunIsRight'
    BY RunStaysRight
  <1>3. ScaffoldTypeOK /\ RunIsRight => ScaffoldSettles
    <2> SUFFICES ASSUME ScaffoldTypeOK, RunIsRight, reached = "done", undisturbed
                 PROVE  /\ \A file \in {release, ci_file} : \A j \in DOMAIN file.jobs : file.jobs[j].grants # "short"
                        /\ \A j \in DOMAIN ci_file.jobs : ci_file.jobs[j].with # "inline" =>
                              ReleaseCgo(DirOf[j]) \in {{}, {CgoOf(ci_file.jobs[j])}}
                        /\ ~renamed /\ makefile.binary \in Names =>
                            \A j \in DOMAIN release.jobs :
                                release.jobs[j].with # "inline" => release.jobs[j].binary = makefile.binary
                        /\ \A j \in DOMAIN release.jobs : release.jobs[j].binary \notin {Unsafe, Blank}
                        /\ settled => ~changed
      BY DEF ScaffoldSettles
    <2>1. MakefileIsRight /\ ReleaseIsRight /\ CIIsRight /\ (settled => NothingLeft)
      BY DEF RunIsRight, Passed
    <2>2. ~renamed /\ makefile.binary \in Names => plan_for.binary = makefile.binary /\ plan_for.binary # NoName
      BY <2>1, ScaffoldFacts DEF MakefileIsRight, ReleaseBinary
    <2>3. \A j \in DOMAIN release.jobs : release.jobs[j].binary \notin {Unsafe, Blank}
      <3>1. Unsafe # NoName /\ Blank # NoName
        BY DEF Unsafe, Blank, NoName
      <3>2. release.jobs \in [DOMAIN release.jobs -> JobRecords]
        BY WorkflowFacts DEF ScaffoldTypeOK
      <3>3. \A job \in JobRecords : job.binary \in Names \cup {NoName}
        BY DEF JobRecords
      <3> QED
        BY <3>1, <3>2, <3>3, ScaffoldFacts
    <2> QED
      BY <2>1, <2>2, <2>3 DEF ReleaseIsRight, CIIsRight, NothingLeft
  <1> QED
    BY <1>1, <1>2, <1>3, ScaffoldTypeCorrect, PTL DEF ScaffoldSpec
=============================================================================
