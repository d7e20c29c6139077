----------------------------- MODULE Provision -----------------------------
(***************************************************************************)
(* go-mk provision: fill .make with the engine's assets, from the upstream *)
(* archive, a developer's checkout or what is already there.  Each process *)
(* of ProvisionLock is one run with its own settings; what it does between *)
(* taking and releasing the lock is modelled here, one asset at a time.    *)
(* An asset is worth the tree it comes from: a generation of a ref, or the *)
(* developer's checkout.  The ETag of a tree is the tree.                  *)
(***************************************************************************)
EXTENDS ProvisionLock, Sequences

CONSTANTS
    BaseAssets,  \* the assets every consumer needs, in install order
    Modules,     \* the optional modules
    Refs,        \* the values of GO_MK_API_REF
    DevAssets,   \* what the developer's checkout provides
    Settings,    \* runs: [mods, ref, dev, vendored, ci]: the module list, the ref, and whether
                 \* GO_MK_DEV_DIR names a checkout, _GO_MK_PROVISIONED is 1, CI is set
    MaxGen,      \* bound: how often upstream moves
    MaxFaults    \* bound: failed requests, writes and removals

ASSUME ProvisionAssumption ==
    /\ BaseAssets \in Seq(STRING) /\ Modules \subseteq STRING
    /\ Settings \subseteq [mods : SUBSET Modules, ref : Refs, dev : BOOLEAN, vendored : BOOLEAN, ci : BOOLEAN]
    /\ Settings # {} /\ MaxGen \in Nat /\ MaxFaults \in Nat

Base == {BaseAssets[i] : i \in DOMAIN BaseAssets}
Assets == Base \cup Modules
Trees == [ref : Refs, gen : 0..MaxGen]
NoTree == [ref |-> "none", gen |-> 0]
DevTree == [ref |-> "dev", gen |-> 0]
Contents == Trees \cup {NoTree, DevTree}
Works == {"idle", "decide", "probe", "fetch", "clear", "clearCommit", "install",
          "verify", "commit", "record", "done"}
Ways == {"none", "dev", "vendored", "notModified", "disk", "fetched", "error"}

VARIABLES
    upstream,  \* upstream[r]: the generation ref r is at
    asset,     \* asset[a]: what is in .make
    fstate,    \* .go-mk-fetch-state: the tree its ref and ETag describe
    commit,    \* .go-mk-commit: the tree its commit names
    cfg,       \* the settings of each run
    work,      \* where each run is between lock and release
    cached,    \* did the run find every asset it needs on disk?
    known,     \* the tree whose ETag the run sends upstream
    src,       \* the tree the run installs
    todo,      \* the assets it has not installed yet
    way,       \* how the run ended: what it served, or an error
    faults,    \* faults so far
    vouched    \* history: the assets the run that wrote fstate was asked for

provVars == <<upstream, asset, fstate, commit, cfg, work, cached, known, src, todo,
              way, faults, vouched>>
vars == <<lockVars, provVars>>

TypeOK ==
    /\ LockTypeOK
    /\ upstream \in [Refs -> 0..MaxGen] /\ asset \in [Assets -> Contents]
    /\ fstate \in Trees \cup {NoTree} /\ commit \in Trees \cup {NoTree}
    /\ cfg \in [Pids -> Settings] /\ work \in [Pids -> Works]
    /\ cached \in [Pids -> BOOLEAN] /\ known \in [Pids -> Trees \cup {NoTree}]
    /\ src \in [Pids -> Contents] /\ todo \in [Pids -> SUBSET Assets]
    /\ way \in [Pids -> Ways] /\ faults \in 0..MaxFaults /\ vouched \subseteq Assets

FirstSetting == CHOOSE s \in Settings : TRUE

Init ==
    /\ LockInit
    /\ upstream = [r \in Refs |-> 0] /\ asset = [a \in Assets |-> NoTree]
    /\ fstate = NoTree /\ commit = NoTree
    /\ cfg = [p \in Pids |-> FirstSetting]
    /\ work = [p \in Pids |-> "idle"] /\ cached = [p \in Pids |-> FALSE]
    /\ known = [p \in Pids |-> NoTree] /\ src = [p \in Pids |-> NoTree]
    /\ todo = [p \in Pids |-> {}] /\ way = [p \in Pids |-> "none"]
    /\ faults = 0 /\ vouched = {}

Required(p) == Base \cup cfg[p].mods
Complete(p) == \A a \in Required(p) : asset[a] # NoTree
Fault == faults < MaxFaults /\ faults' = faults + 1
At(p, label) == pc[p] = "held" /\ work[p] = label
Do(p, label) == work' = [work EXCEPT ![p] = label]

\* the run returns: with what it served, or with an error
End(p, how) ==
    /\ way' = [way EXCEPT ![p] = how] /\ Do(p, "done")
    /\ cached' = [cached EXCEPT ![p] = FALSE]
    /\ known' = [known EXCEPT ![p] = NoTree]
    /\ todo' = [todo EXCEPT ![p] = {}]
ends == <<way, cached, known, todo>>

\* a failed download serves what is on disk when it was complete at the start,
\* but never in CI; a failed copy from the checkout is an error
Fallback(p) == End(p, IF cached[p] THEN "disk" ELSE "error")
-----------------------------------------------------------------------------
Move(r) ==
    /\ upstream[r] < MaxGen
    /\ upstream' = [upstream EXCEPT ![r] = @ + 1]
    /\ UNCHANGED <<lockVars, asset, fstate, commit, cfg, work, cached, known, src, todo,
                   way, faults, vouched>>

Run(p) ==
    /\ Start(p)
    /\ \E s \in Settings : cfg' = [cfg EXCEPT ![p] = s]
    /\ Do(p, "decide")
    /\ UNCHANGED <<upstream, asset, fstate, commit, cached, known, src, todo, way,
                   faults, vouched>>

DecideAlsoInCI(p) ==
    /\ At(p, "decide")
    /\ LET c == cfg[p]
           onDisk == Complete(p)
       IN \/ c.dev /\ Do(p, "clear") /\ UNCHANGED ends
          \/ ~c.dev /\ c.vendored /\ End(p, IF Complete(p) THEN "vendored" ELSE "error")
          \/ /\ ~c.dev /\ ~c.vendored
             /\ cached' = [cached EXCEPT ![p] = onDisk]
             /\ IF onDisk /\ fstate # NoTree /\ fstate.ref = c.ref
                THEN known' = [known EXCEPT ![p] = fstate] /\ Do(p, "probe")
                ELSE UNCHANGED known /\ Do(p, "fetch")
             /\ UNCHANGED <<way, todo>>
    /\ UNCHANGED <<lockVars, upstream, asset, fstate, commit, cfg, src, faults, vouched>>

\* a checkout comes first, then a tree that is there already, in CI as well; only after
\* them does CI forbid what is on disk
Decide(p) ==
    /\ At(p, "decide")
    /\ LET c == cfg[p]
           onDisk == ~c.ci /\ Complete(p)
       IN \/ c.dev /\ Do(p, "clear") /\ UNCHANGED ends
          \/ ~c.dev /\ c.vendored /\ End(p, IF Complete(p) THEN "vendored" ELSE "error")
          \/ /\ ~c.dev /\ ~c.vendored
             /\ cached' = [cached EXCEPT ![p] = onDisk]
             /\ IF onDisk /\ fstate # NoTree /\ fstate.ref = c.ref
                THEN known' = [known EXCEPT ![p] = fstate] /\ Do(p, "probe")
                ELSE UNCHANGED known /\ Do(p, "fetch")
             /\ UNCHANGED <<way, todo>>
    /\ UNCHANGED <<lockVars, upstream, asset, fstate, commit, cfg, src, faults, vouched>>

\* the conditional request: 304 when upstream still is at the known tree
Probe(p) ==
    /\ At(p, "probe")
    /\ IF known[p] = [ref |-> cfg[p].ref, gen |-> upstream[cfg[p].ref]]
       THEN End(p, "notModified")
       ELSE Do(p, "fetch") /\ UNCHANGED ends
    /\ UNCHANGED <<lockVars, upstream, asset, fstate, commit, cfg, src, faults, vouched>>

ProbeFailed(p) ==
    /\ At(p, "probe") /\ Fault /\ Fallback(p)
    /\ UNCHANGED <<lockVars, upstream, asset, fstate, commit, cfg, src, vouched>>

\* one archive is downloaded, unpacked and checked for every required asset
Fetch(p) ==
    /\ At(p, "fetch")
    /\ src' = [src EXCEPT ![p] = [ref |-> cfg[p].ref, gen |-> upstream[cfg[p].ref]]]
    /\ Do(p, "clear")
    /\ UNCHANGED <<lockVars, upstream, asset, fstate, commit, cfg, ends, faults, vouched>>

FetchFailed(p) ==
    /\ At(p, "fetch") /\ Fault /\ Fallback(p)
    /\ UNCHANGED <<lockVars, upstream, asset, fstate, commit, cfg, src, vouched>>

ClearStateLater(p) ==
    /\ At(p, "clear") /\ Do(p, "clearCommit")
    /\ UNCHANGED <<lockVars, upstream, asset, fstate, commit, cfg, src, ends, faults, vouched>>

\* both records go before the first asset is replaced
ClearState(p) ==
    /\ At(p, "clear")
    /\ fstate' = NoTree /\ Do(p, "clearCommit")
    /\ UNCHANGED <<lockVars, upstream, asset, commit, cfg, src, ends, faults, vouched>>

ClearCommit(p) ==
    /\ At(p, "clearCommit")
    /\ commit' = NoTree /\ Do(p, "install")
    /\ LET dev == cfg[p].dev
       IN /\ todo' = [todo EXCEPT ![p] =
                        IF dev THEN Required(p) \cap DevAssets ELSE Required(p)]
          /\ src' = [src EXCEPT ![p] = IF dev THEN DevTree ELSE src[p]]
    /\ UNCHANGED <<lockVars, upstream, asset, fstate, cfg, cached, known, way, faults,
                   vouched>>

ClearFailed(p) ==
    /\ work[p] \in {"clear", "clearCommit"} /\ pc[p] = "held" /\ Fault /\ Fallback(p)
    /\ UNCHANGED <<lockVars, upstream, asset, fstate, commit, cfg, src, vouched>>

\* each asset is written beside its place and renamed
Install(p) ==
    /\ At(p, "install")
    /\ \/ \E a \in todo[p] :
            /\ asset' = [asset EXCEPT ![a] = src[p]]
            /\ todo' = [todo EXCEPT ![p] = @ \ {a}]
            /\ UNCHANGED work
       \/ /\ todo[p] = {} /\ Do(p, "verify") /\ UNCHANGED <<asset, todo>>
    /\ UNCHANGED <<lockVars, upstream, fstate, commit, cfg, cached, known, src, way,
                   faults, vouched>>

InstallFailed(p) ==
    /\ At(p, "install") /\ todo[p] # {} /\ Fault /\ Fallback(p)
    /\ UNCHANGED <<lockVars, upstream, asset, fstate, commit, cfg, src, vouched>>

VerifyAlike(p) ==
    /\ At(p, "verify")
    /\ \/ ~Complete(p) /\ Fallback(p)
       \/ Complete(p) /\ Do(p, "commit") /\ UNCHANGED ends
    /\ UNCHANGED <<lockVars, upstream, asset, fstate, commit, cfg, src, faults, vouched>>

Verify(p) ==
    /\ At(p, "verify")
    /\ \/ ~Complete(p) /\ Fallback(p)
       \/ Complete(p) /\ cfg[p].dev /\ End(p, "dev")
       \/ Complete(p) /\ ~cfg[p].dev /\ Do(p, "commit") /\ UNCHANGED ends
    /\ UNCHANGED <<lockVars, upstream, asset, fstate, commit, cfg, src, faults, vouched>>

\* the commit of the archive is recorded: an archive that has none leaves the file as it
\* is, and a failed write is removed (what cannot be removed either names no tree)
RecordCommit(p) ==
    /\ At(p, "commit")
    /\ Do(p, "record")
    /\ \/ commit' = src[p] /\ UNCHANGED faults
       \/ Fault /\ commit' \in {commit, NoTree}
    /\ UNCHANGED <<lockVars, upstream, asset, fstate, cfg, src, ends, vouched>>

RecordLatest(p) ==
    /\ At(p, "record") /\ End(p, "fetched")
    /\ fstate' = [ref |-> cfg[p].ref, gen |-> upstream[cfg[p].ref]]
    /\ vouched' = Required(p)
    /\ UNCHANGED <<lockVars, upstream, asset, commit, cfg, src, faults>>

\* the ETag is recorded last, unless upstream sent none or the write fails
RecordState(p) ==
    /\ At(p, "record")
    /\ End(p, "fetched")
    /\ \/ fstate' = src[p] /\ vouched' = Required(p) /\ UNCHANGED faults
       \/ Fault /\ fstate' = NoTree /\ UNCHANGED vouched
    /\ UNCHANGED <<lockVars, upstream, asset, commit, cfg, src>>

\* the memory of a run that returned or was killed is gone
Forget(p) ==
    /\ cfg' = [cfg EXCEPT ![p] = FirstSetting] /\ Do(p, "idle")
    /\ way' = [way EXCEPT ![p] = "none"] /\ src' = [src EXCEPT ![p] = NoTree]
    /\ cached' = [cached EXCEPT ![p] = FALSE]
    /\ known' = [known EXCEPT ![p] = NoTree] /\ todo' = [todo EXCEPT ![p] = {}]
    /\ UNCHANGED <<upstream, asset, fstate, commit, faults, vouched>>

Return(p) == At(p, "done") /\ Leave(p) /\ Forget(p)

Wait(p) == LockStep(p) /\ UNCHANGED provVars

Killed(p) == Kill(p) /\ Forget(p)

WorkStep(p) ==
    \/ Decide(p) \/ Probe(p) \/ Fetch(p) \/ ClearState(p) \/ ClearCommit(p)
    \/ Install(p) \/ Verify(p) \/ RecordCommit(p) \/ RecordState(p) \/ Return(p)

FaultStep(p) ==
    \/ ProbeFailed(p) \/ FetchFailed(p) \/ ClearFailed(p) \/ InstallFailed(p)

Next ==
    \/ \E r \in Refs : Move(r)
    \/ \E p \in Pids : Run(p) \/ Wait(p) \/ WorkStep(p) \/ FaultStep(p) \/ Killed(p)

Spec == Init /\ [][Next]_vars
-----------------------------------------------------------------------------
(* Properties. *)

\* As long as the fetch state is there, every asset it was written for is of
\* the tree its ETag describes: a 304 can never bless a mixed tree, whatever
\* was killed or failed (clearProvisionState before the first rename).
StateVouches == fstate # NoTree => \A a \in vouched : asset[a] = fstate

\* The recorded commit is the commit of the tree that supplied go.mk and every
\* other base asset, so the engine installed from it knows what go.mk runs.
CommitMatchesTree == commit # NoTree => \A a \in Base : asset[a] = commit

\* A run that reports success after a download leaves every asset it needs from
\* the one archive it downloaded.
FetchedIsWhole ==
    \A p \in Pids : At(p, "done") /\ way[p] = "fetched"
                      => \A a \in Required(p) : asset[a] = src[p]

\* The three together: nothing recorded or reported of .make is untrue of it,
\* whatever runs, dies or fails (installProvisionFromStage, recordProvisionCommit).
TreeIsTrue == StateVouches /\ CommitMatchesTree /\ FetchedIsWhole

\* In CI a run rests on what is on disk only if it was told to, by _GO_MK_PROVISIONED=1
\* and then of a complete tree, and never on a 304: given neither that nor a checkout it
\* succeeds only after a download of its own, whatever an earlier run left and whatever
\* fails (provisionAssets).
CINeverServesDisk ==
    \A p \in Pids : At(p, "done") /\ cfg[p].ci =>
        way[p] \in {"error", IF cfg[p].dev THEN "dev"
                            ELSE IF cfg[p].vendored THEN "vendored" ELSE "fetched"}

\* A run that upstream answers with 304 leaves every asset it needs of the tree
\* whose ETag upstream confirmed (validateProvisionUpstream, recordProvisionCommit),
\* as long as the module list stays: an asset that was dropped and is listed again
\* is served as the run before the drop left it.
NotModifiedIsCurrent ==
    \A p \in Pids : At(p, "done") /\ way[p] = "notModified"
                      => \A a \in Required(p) : asset[a] = fstate
=============================================================================
