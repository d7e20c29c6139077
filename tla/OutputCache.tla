---------------------------- MODULE OutputCache ----------------------------
(***************************************************************************)
(* The caches of generated outputs and of C dependencies that the          *)
(* workflows key by go-mk cache-manifest.  A job hashes some of what its   *)
(* outputs are made from, restores the entry of that key or makes the      *)
(* outputs and saves them.  The cache is outside: entries are immutable and shared by  *)
(* all branches, so a job may restore what any other saved.                *)
(***************************************************************************)
EXTENDS Naturals, FiniteSets

CONSTANTS
    CacheJobs,  \* jobs, of any run
    MaxChanges, \* bound: versions of each thing
    MaxBlind    \* bound: jobs in which a listing, a probe or the reading of an input fails

ASSUME CacheAssumption == IsFiniteSet(CacheJobs) /\ MaxChanges \in Nat \ {0} /\ MaxBlind \in Nat

\* The tracked files, the files that GO_MK_CGO_CACHE_INPUTS names, go-mk, and the runner's tools.
Things == {"sources", "inputs", "engine", "compiler"}
CacheKinds == {"generated", "cgo"}
Worlds == [Things -> 0..MaxChanges]
Unknown == [t \in Things |-> 0]

VARIABLES
    world,  \* the newest version of each
    at_job, \* where each job is
    kind,   \* the cache it uses
    seen,   \* the tools, the engine and what it checked out when it began; 0 for inputs that are not there
    key,    \* what its manifest hashes; 0 for what it lacks
    outputs,\* what its outputs were made from
    entries,\* the cache
    blind   \* the jobs in which a call failed

cacheVars == <<world, at_job, kind, seen, key, outputs, entries, blind>>

CacheTypeOK ==
    /\ {world} \cup {seen[j] : j \in CacheJobs} \cup {outputs[j] : j \in CacheJobs} \subseteq Worlds
    /\ at_job \in [CacheJobs -> {"idle", "started", "keyed", "restored", "made", "saved", "failed"}]
    /\ kind \in [CacheJobs -> CacheKinds] /\ key \in [CacheJobs -> Worlds]
    /\ entries \subseteq [kind : CacheKinds, key : Worlds, outputs : Worlds] /\ blind \subseteq CacheJobs

CacheInit ==
    /\ world = [t \in Things |-> 1] /\ at_job = [j \in CacheJobs |-> "idle"]
    /\ kind = [j \in CacheJobs |-> "generated"]
    /\ seen = [j \in CacheJobs |-> Unknown] /\ key = seen /\ outputs = seen
    /\ entries = {} /\ blind = {}

JobStep(j, from, to) == at_job[j] = from /\ at_job' = [at_job EXCEPT ![j] = to]

\* A commit, a new go-makefile, a new runner image.
Change(t) ==
    /\ world[t] < MaxChanges /\ world' = [world EXCEPT ![t] = @ + 1]
    /\ UNCHANGED <<at_job, kind, seen, key, outputs, entries, blind>>

Only(w, things) == [t \in Things |-> IF t \in things THEN w[t] ELSE 0]

\* What outputs are made from, which is more than a manifest hashes: a generator has its tools, a
\* C build the recipes of go-makefile.
ReadBy(k) == {"sources", "engine", "compiler"} \cup (IF k = "cgo" THEN {"inputs"} ELSE {})

\* A job checks out any branch.
StartJob(j) ==
    /\ JobStep(j, "idle", "started")
    /\ \E k \in CacheKinds, s \in 1..world["sources"], i \in 0..world["inputs"] :
        /\ kind' = [kind EXCEPT ![j] = k]
        /\ seen' = [seen EXCEPT ![j] = Only([world EXCEPT !["sources"] = s, !["inputs"] = i], ReadBy(k))]
    /\ UNCHANGED <<world, key, outputs, entries, blind>>

\* buildCacheManifest: the tracked inputs with go-mk's own hash.
GeneratedInputs == {"sources", "engine"}
\* buildCgoCacheManifest: the makefiles, the inputs and the compiler's fingerprint.
CgoInputs == {"sources", "inputs", "compiler"}
Hashed(k) == IF k = "generated" THEN GeneratedInputs ELSE CgoInputs

\* A listing that fails lists nothing, a compiler that does not answer is unavailable, and an
\* input that cannot be read is as one that is missing: the job goes on without them.
LeftOut(k) == IF k = "generated" THEN {"sources"} ELSE CgoInputs

ManifestOfSources(j) ==
    /\ JobStep(j, "started", "keyed")
    /\ key' = [key EXCEPT ![j] = Only(seen[j], {"sources"})]
    /\ UNCHANGED <<world, kind, seen, outputs, entries, blind>>

Manifest(j) ==
    /\ JobStep(j, "started", "keyed")
    /\ \E lost \in SUBSET LeftOut(kind[j]) :
        /\ key' = [key EXCEPT ![j] = Only(seen[j], Hashed(kind[j]) \ lost)]
        /\ blind' = IF lost = {} THEN blind ELSE blind \cup {j}
    /\ Cardinality(blind') <= MaxBlind
    /\ UNCHANGED <<world, kind, seen, outputs, entries>>

Hits(j) == {e \in entries : e.kind = kind[j] /\ e.key = key[j]}

\* An exact hit.
RestoreOutputs(j) ==
    /\ JobStep(j, "keyed", "restored")
    /\ \E e \in Hits(j) : outputs' = [outputs EXCEPT ![j] = e.outputs]
    /\ UNCHANGED <<world, kind, seen, key, entries, blind>>

\* make go-mk-generate, or the C build.  Its make fetches go-makefile again.
MakeOutputs(j) ==
    /\ Hits(j) = {} /\ JobStep(j, "keyed", "made")
    /\ outputs' = [outputs EXCEPT ![j] = [seen[j] EXCEPT !["engine"] = world["engine"]]]
    /\ UNCHANGED <<world, kind, seen, key, entries, blind>>

\* The cache refuses a key that it has.
SaveOutputs(j) ==
    /\ JobStep(j, "made", "saved")
    /\ entries' = IF Hits(j) = {}
                  THEN entries \cup {[kind |-> kind[j], key |-> key[j], outputs |-> outputs[j]]}
                  ELSE entries
    /\ UNCHANGED <<world, kind, seen, key, outputs, blind>>

\* A tracked file that cannot be hashed, a generator that fails, a job that is cancelled;
\* its workspace is gone.
JobFails(j) ==
    /\ at_job[j] \in {"started", "keyed", "made"}
    /\ at_job' = [at_job EXCEPT ![j] = "failed"]
    /\ seen' = [seen EXCEPT ![j] = Unknown] /\ key' = [key EXCEPT ![j] = Unknown]
    /\ outputs' = [outputs EXCEPT ![j] = Unknown]
    /\ UNCHANGED <<world, kind, entries, blind>>

CacheNext ==
    \/ \E t \in Things : Change(t)
    \/ \E j \in CacheJobs :
        \/ StartJob(j) \/ Manifest(j) \/ RestoreOutputs(j) \/ MakeOutputs(j) \/ SaveOutputs(j)
        \/ JobFails(j)

CacheSpec == CacheInit /\ [][CacheNext]_cacheVars

-----------------------------------------------------------------------------
\* What a key must tell apart.  It leaves the generators' tools and the recipes of go-makefile out.
Covered(k) == IF k = "generated" THEN {"sources", "engine"} ELSE {"sources", "inputs", "compiler"}

(* Restored outputs are those the job would have made, as far as a key covers: from its own      *)
(* sources and, for C, by its own compiler from its own inputs, whichever job of whichever       *)
(* branch saved them and whatever failed or changed in between, if its own listing, probe and    *)
(* reads did not fail.  Generated ones are never of an older go-mk than the one that hashed.  A   *)
(* C input that is not there is like one that another job could not read.                        *)
RestoredOutputsAreCurrent ==
    \A j \in CacheJobs \ blind :
        at_job[j] = "restored" =>
            \A t \in Covered(kind[j]) :
                IF t = "engine" THEN outputs[j][t] >= seen[j][t] ELSE seen[j][t] \in {0, outputs[j][t]}
=============================================================================
