# go-makefile in TLA+

This directory models the parts of go-makefile whose correctness depends on the
order of things: processes that share files, runs that are killed, requests and
renames that fail part of the way. The modules are written from the code in
`src/`; `PROJECT.json` maps every definition to the lines it stands for.

Contents: [the system](#the-system) · [modules](#modules) · [runs](#runs) ·
[what disagrees with the code's own words](#disagreements) ·
[observations](#observations) · [fairness](#fairness) · [proofs](#proofs) ·
[not modelled](#not-modelled) · [plan](#plan) · [running it](#running-it)

## The system

go-makefile is a shared Make engine and the Go command behind it. A consumer
repository includes `bootstrap.mk`; it fetches the engine's assets into `.make`
and resolves a `go-mk` binary, which runs gates, builds, installs and releases.
The library `selfupdate` keeps installed binaries up to date, `go-mk` itself and
those of consumers.

| Part | State it keeps | Operations | What must be right |
|---|---|---|---|
| transactional install (`selfupdate/applyall.go`, `extract.go`, `install.go`) | binaries, `.X-previous-*` backups, `.X-candidate-*` files, commit marker | ApplyAll, InstallReleaseBinaries, recovery | after a kill or a failure anywhere: all old or all new; nothing renamed before all is validated |
| scheduler and state file (`scheduler.go`, `selfupdate.go`, `state.go`, `lock.go`, `command.go`) | `update-state.json`, `update.lock`, the daemon's timer | Check, ApplyAll, RunScheduler, RunUpdateCommand | paced runs, relaunch for an update only, no downgrade, the daemon catches up; the file tells what happened |
| downloads, checksums, attestation (`download.go`, `release.go`, `attestation.go`, `install.go`) | files in the cache directory | InstallReleaseBinary, VerifyReleaseAssets, retries | only what was verified is staged; a call ends |
| user services (`service.go`) | a unit or plist, the service manager | install launchd or systemd service | the running service is the installed one |
| provision (`cmd/go-mk/provision.go`) | `.make` assets, fetch state (ETag), commit file, lock directory | provision | no record vouches for a mixed tree; CI serves the disk only when told to; one installer at a time |
| bootstrap (`scripts/*.sh`, `bootstrap.mk`, `resolvebin.go`) | `.make/go-mk`, the helper script | parse, obtain and test an engine, resolve-bin, smoke-fetch | an engine that is run is the checkout's own and knows the command |
| build, install, reuse (`reuse.go`, `install.go`) | `dist`, target directories, `.make/go-mk-reuse.json` | build, install, build-gate | what is skipped was built, and has passed unless a CI proof stood in |
| baselines and notices (`baseline.go`, `notice*.go`, `internal/baseline`) | baseline files, applied notices | baseline by mode and scope, the notice pass | without a token nothing new is silenced, and no other row is lost |
| lint gates and checks (`lint*.go`, `checks.go`, `internal/lintgate`) | the findings of each platform, the exit status | capture, merge, judge | a green check hides no finding on any platform |
| release (`release.go`, `release_assets.go`) | `dist`, archives, bundles, the release on GitHub | compile, sign, archive, attest, publish, verify | what can be seen is whole and signed |
| CI change detection (`ci_changed.go`, `_ci.yml`) | none; branches, pushes, runs | ci-changed | a run that skips its gates has nothing to gate, as far as git and go list tell |
| CI proof (`ci_proof.go`, `build_gate.go`) | none; tokens, keys, clocks | build-gate | a build that skips its gates is of the run it names |
| caches (`cachemanifest.go`, `_build.yml`) | the entries of the CI cache | cache-manifest, restore, save | what is restored is what would be made, as far as a key covers |
| scaffold (`scaffold.go`) | six files of a repository | scaffold | runs settle, and leave what the owner wrote |
| token gate, analyzers, platform checks, drivers | a day's slug; none | verdicts | see [not modelled](#not-modelled) |

How they meet. The daemon and the commands meet in the state file and the update
lock; the lock is an `flock` and dies with its holder, the state file is read and
rewritten without it in places. An apply runs the transactional install under the
lock. Provision runs, several at once when Make does, meet in `.make` under a
lock made of a directory and a pid file, which does not die with its holder.
Builds meet in `dist`, the target directories and the stamp file with no lock at
all; makes of one checkout meet in `.make/go-mk`, downloads in a cache directory,
installs of a service in its unit, jobs of a workflow in the CI cache and in the
release. Commands of one checkout meet over time in baselines, notices and
workflows. None of them talks to another by message; all of it is files and
requests, so the hard behaviours are interleavings of single steps, kills between
two of them, and values read earlier and used later. `PROJECT.json` lists them under
"hazards", each at its line with the properties aimed at it.

## Modules

| Module | Models | Uses |
|---|---|---|
| `AtomicInstall` | what ApplyAll promises its callers: an update of several binaries is one step | |
| `InstallSet` | ApplyAll, InstallReleaseBinaries, recovery: one step per system call | implements `AtomicInstall` |
| `InstallSetProofs` | theorems about `InstallSet` | |
| `Scheduler` | the daemon's loop, commands, Check, recovery, the renames and the commit, the state file, the update lock | all updates together implement `AtomicInstall` |
| `ProvisionLock` | the lock directory: mkdir, pid file, stale check, break, RemoveAll | |
| `Provision` | provisionAssets in every branch | composes itself with `ProvisionLock` |
| `Delivery` | the install of one binary without the lock, and verify-release, over a shared cache | |
| `BuildReuse` | build, install and build-gate with their stamps | |
| `UserService` | install-service against systemd and launchd | |
| `Release` | the release's jobs and the all-in-one run | |
| `Gates` | baselines, notices, the gates of a check | |
| `CI` | ci-changed over pushes to two branches | |
| `OutputCache` | cache-manifest and the jobs that use its keys | |
| `BuildGate` | build-gate and the proof it asks GitHub for | |
| `Bootstrap` | from the parse of `bootstrap.mk` to resolve-bin | |
| `Scaffold` | the files scaffold reconciles | |
| `BuildReuseProofs`, `SchedulerProofs`, `ProvisionProofs`, `GatesProofs` | theorems about the module each extends | |
| `DeliveryProofs` | theorems about `Delivery`, `Release` and `UserService` | |
| `EngineProofs` | theorems about `Bootstrap` and `BuildGate` | |
| `WorkflowProofs` | theorems about `OutputCache`, `CI` and `Scaffold` | |

`MC*` modules give the constants small values. Three of them also put components
that share no state side by side: a behaviour of `MCFetches` is one of provision
or of downloads, one of `MCRecords` is one of provision, of the CI cache or of the gates,
one of `MCComponents` is one of seven components; the choice is made at the start and the
others rest. That is a way to ask several questions in
one run, not a composition: components that do interact are in one module.
Definitions whose comment or name says what they change (`StatusIgnoresDry`,
`RenameMarksEach`, ...) are variants of the definition that follows them with a
plausible bug in it. No action uses them; each property of each passing run is
violated when one of them takes the place of the definition it varies
(`PROJECT.json`, "mutants").

**InstallSet.** One running process, started again and again: the update lock
admits one, and a kill releases it. `installed`, `leftover`, `litter`, `marker`
are the disk and survive a kill; all the rest is memory. A file is its version,
`Partial` for an empty or half-written one, and whether it still shares an inode
with the installed file, which is how `sameFile` tells a backup taken before the
rename from one taken after. Recovery, staging, backup, rename, marker and
cleanup are actions of one system call each; recovery takes one option after the
other (`todo`), each with its backups and then its candidates, and renames whatever
backup it finds first over the binary, an empty or half-copied one as well
(`Outcomes`). A backup of a symlink that cannot be made leaves its reserved name
behind (`BackupSymlinkFailed`), the others remove it. `Faults` names the calls that
fail and `KillPoints` the moments of a kill, so that each environment can be asked
about alone.

**Scheduler.** Every process loads the state file, and saves it, in steps of its
own. Releases are numbered; 0 is the build first installed; a tag in `Unordered`
does not compare with others and counts as newer, as in `release.go`. `kind` is
what a run does, `ver` the release a process was started from, `held` what it has
read and not written back. An update under the lock first recovers what an earlier
one left, looks up each binary, fetches once, and renames the binaries one after
the other (`Install`): `bin` is what is at the path, `undo` the backup beside it,
which goes with `Commit`. A failure on the way puts back what it can (`RollBack`,
where each restore may fail as well and its backup stays), a kill puts nothing
back; the next `Recover` does, one binary at a time, and may be killed too.
`Effective` is the release that recovery would leave. A daemon may be started from
a file that is later taken back. The lock may be taken or cannot be opened
(`Busy`); a state file that cannot be read or decoded counts as empty (`Load`), and
a timer set without it takes another delay (`Arm`, remembered in `blind`); the
command of a relaunch may not start (`RelaunchFailed`). Time is `Tick`: it moves
`NextCheckAt` (`state.next`), the timer and every copy of the state alike.
`Relaunch` is the service manager starting whatever is installed. `warrant`,
`ever`, `since` and `blind` are history.
`InstallSet` and `Scheduler` meet at `AtomicInstall`: the system calls of one update
make up its one step in the one, the updates of all processes are its updates, one
after another, in the other. Where `InstallSet` has a system call per step, a
backup with its rename, and the marker with the removal of the backups, are one
step each in `Scheduler`; staging and its validation are one with the fetch.

**ProvisionLock, Provision.** A process is a pid and runs once. The lock
directory is `None`, `Nameless` (no readable pid file) or the pid it names.
`Provision` adds to a held lock the decision of `provisionAssets` in its order: a dev
directory is copied and a tree declared provisioned is taken as it is, in CI or not;
only then CI downloads in full, and any other run asks with the recorded ETag. The
download, the two records that are cleared before and written after the install
(a failing write of the commit ends the run with an error), and the install asset
by asset follow. A tree is a ref and its generation; an ETag and
a commit identify a tree. `Move` is upstream moving a ref.

**BuildReuse.** Each run is a process of its own. A digest is what it digests: an
output built right is worth the inputs and the platform it was built for, `Torn`
while half written, `Foreign` when somebody else put it there. Outputs are digested
one file after the other, when a run compares and when it stamps (`saw`), and
anything may happen in between. A build goes through the platforms, each over the
same files, and goes on after one that failed; an install renames into place, or
copies with sudo, which is not atomic; a CI proof may stand in for the gate. A
record adds `left`, which says whether anyone else touched sources or outputs
between the gate of the run that left it and its digests; the code has no such
field and no action reads it: it lets a property speak of undisturbed runs. An
editor, a meddler and the clobbering of one run by another are actions.

**Delivery.** Calls of two kinds share a cache directory: installers, and
verifiers of releases. Each call resolves a tag (the newest, or the one an install
is pinned to) and
fetches checksum file, archive and bundle, one request at a time; `Answered`,
`Transient` and `DownloadFailed` are the answers a request can get, `RetryTimer`
the doubling wait. A content is what was uploaded (tag, upload) or damaged. The
checksum file is cached by tag, the archive under a path without one, so what one
call hashed another may replace before it is extracted by its name; `swapped`
remembers the calls that happened to. A candidate is renamed into place, or swept by somebody
else's recovery first.

**UserService.** Each call compares the file, asks the manager if it is the same
(`AskManager`), renames, then reloads, enables and restarts
(systemd) or boots out and bootstraps (launchd), one step per command; the manager
holds what it has `loaded` and what is `running`. `intact` and `unsettled` are
history: which calls have been failed around, and whether a failure awaits repair.

**Release.** One leg per platform, each binary a pair; a file is what has been
done to it. In the workflow the legs run on their own and failed jobs are run
again; all in one, they take each stage together. `Publish` may fail before or
after the release appeared.

**Gates.** A finding is its key, seen on some platforms. `EditSource` adds or
removes findings; `Ship` and `Adopt` bring notices and the engine; one command
runs at a time, a baseline update or a check, and either can be killed between its
writes. An update's mode may be given by its alias; where flags narrow staticcheck and no
scope pattern says to what, only the mode that drops no row is not refused (`Refused`). A check takes the steps of its `Plan` in order: the notice pass captures
the scope today and as it was before the cutoff, writes what is in both without a
token, and records the directive; each gate then merges what its tool `Reported`
per platform and judges it against the baseline.

**CI.** A commit is its parents and the version of each file, a merge takes each file
from either side; a push moves a branch anywhere. A run knows what was before its
push, its head, and what of the default branch was fetched; `BasesOf` gives the
commits it may compare with, `DiffNames` what git lists of the difference (a deleted
file that is paired with an added one is not), `Listings` what go list may know of
embedded files, and `Changed` decides.

**OutputCache.** `world` holds the versions of sources, C inputs, go-mk and compiler; a
job sees some of them when it starts, hashes some of those into a key, and restores or
makes and saves. Outputs are made from more than is hashed (`ReadBy` beside `Hashed`).
A listing, a probe or the reading of an input that fails leaves its part out of the
key, which is 0 there, and the job goes on; so does an input that is not there.

**BuildGate.** A build asks for a token, then for the keys, then decides; runs,
keys, time and the clock of each machine move in between.

**Bootstrap.** Several makes in one checkout; `engine_file` is `.make/go-mk`, which
may be a link to a binary that other checkouts replace. Each make tests and
executes the engine in different steps; `ResolveBin` looks at `GO_MK_BIN` alone where it
is set, and leaves a development build as it is where its repository is gone.

**Scaffold.** One run after another, file by file, over whatever owners and killed
runs left. A workflow is its jobs that call the reusable workflows, with their
inputs and permissions. What the code looks up once per run (`plan_for`) is looked
up once, so a file may be written by what another one said before. A `BINARY` that is
blank or not safe to write into a workflow is a value of its own, and is not told to
the release.

## Runs

Bounds are small because the hazards need few actors: a second process to
interleave with, one more to find what the first two left, one kill or fault (two
where recovery of a recovery matters), two binaries or assets so that "some but
not all" exists, two releases or generations so that old and new differ.

| Run | Instance | Shows |
|---|---|---|
| `install_set` | 2 binaries, 2 releases, 2 kills anywhere but in a half-made backup, 2 failing calls, whole and dry requests, fair | an update is one atomic step for its callers (`AtomicSpec`); recovery ends with the promised set, whichever backup it finds first; the inductive invariant of the proof; the backups, candidates and marker that a kill leaves, between rename and marker too, are gone in the end |
| `install_set_rollback` | a first install of 2 binaries, 2 releases, 2 failing calls, 1 kill outside of the replacement | a run that returns left the old or the new set |
| `scheduler` | daemon on a development build, one command, 2 binaries renamed one by one, 2 releases, the second with a tag that does not compare, 1 fault of any kind, hooks switched freely | the applied tag was committed; a development build's daemon only checks; what recovery leaves is split only by an update that found two releases |
| `scheduler_live` | hooks fixed to apply, 1 command, 1 binary, 2 releases (the second does not compare), 1 fault, fair | relaunches are warranted, runs are paced, no committed release is taken back, the daemon ends on every release; the updates of all processes are those of `AtomicInstall` |
| `records` | provision: 3 runs in turn, every source in CI and out of it, a second ref, an optional module, 1 kill, 2 faults; caches: 2 jobs, 2 versions of each thing, 1 job with failing calls; gates: 3 gates, 5 findings, 2 platforms, 2 notices, 2 edits, 1 tool that fails | the records of provision speak the truth whatever ends a run, and a 304 and CI serve what they should; restored outputs are those of their key; a baseline holds what a token accepted or a notice's scope held before, a green check hides nothing, an applied notice was written, and a notice leaves other rows alone |
| `fetches` | provision: 2 processes together, 2 assets, 1 kill, 1 fault; delivery: an installer and a verifier, 2 archives, 2 releases, 2 attempts, 1 upset; fair | one installs at a time, the lock says who, and everybody gets through or gives up; what was installed, and all that was verified, is intact, and calls end |
| `components` | seven components, one per behaviour: 2 builds of 1 binary for 2 platforms; 3 service installs and 1 failure; 2 platforms, 2 binaries, 2 reruns; 2 branches, 3 commits, 3 pushes; 1 build in 2 runs, 4 ticks, 2 keys; 2 makes, 1 crash; 3 jobs in 2 workflows, 1 owner's edit, 1 torn write | each component's promise (below) |
| `killed_in_backup` | a kill inside `backupInstalledBinary` | violated: see below |
| `lost_applied_tag` | a command and the daemon | violated: see below |
| `mixed_tree` | 3 processes together, nobody killed | violated: see below |
| `reuse_edited` | an edit between gate and stamp | violated: see below |
| `empty_helper` | 1 make, an empty helper left behind, 1 failed fetch | violated: see below |

What `components` checks, by part: a reuse record of an undisturbed run is true,
and what is reused was built, each output at the moment it was digested; a quiet
service runs what its unit says; a visible release is whole; a skipped CI run has
nothing to gate, but for what git and go list may keep from it; a build that skips
gates is of the run it names; an executed engine is the checkout's own; a second
scaffold run changes nothing that its owner did not. Why the bounds are enough there
and in `records`: every one of these has a mutant that the run refutes within them, and
each of these properties is also proved for every instance.

`CHECK_DEADLOCK FALSE` where the processes are finitely many and all end
(`records`, `fetches`, `components`, and the runs that expect a violation of
them); the others check deadlock.

The largest are `scheduler` and `records` with 1.6 million distinct states each, and
`components` with 1.2 million.

<a name="disagreements"></a>
## What disagrees with the code's own words

Each has a run whose one property states the promise.

- **A kill inside a backup** (`killed_in_backup`, `RecoveredSet`).
  `backupInstalledBinary` reserves the backup's name with an empty file, and may
  copy into it. After a kill there, recovery finds a backup that is not the
  installed file and renames it over the good binary. ApplyAll promises the set
  installed before (applyall.go:44).
- **A lost applied tag** (`lost_applied_tag`, `AppliedIsLast`). Check and
  recordCheckError load and save the state file without the update lock. What an
  apply recorded in between is written over.
- **A mixed tree that is vouched for** (`mixed_tree`, `StateVouches`). Between the
  stale check and the rename the lock may change hands; with three processes two
  then install together, and the fetch state written by one of them vouches for
  assets of the other. Later runs are answered with 304.
- **A stamp for sources that never passed** (`reuse_edited`, `ReuseIsSound`). The
  fingerprint is taken after the gate and the build. An edit in between is
  stamped as built.
- **A parse without an engine** (`empty_helper`, `ParsedWithEngine`). The status of
  the shell that fetches the helper is dropped (bootstrap.mk:88). If an empty
  helper was left behind and the fetch fails, bash runs the empty script, exits
  with 0, and the parse goes on. bootstrap.mk:91 promises to stop there.

Others follow from the same modules by changing one constant; they are recorded
here and have no run of their own.

- *First install killed* (`MayBeAbsent` not empty in `MCInstallSet`): a binary that
  was absent has no backup, so recovery cannot take the new one away again, and
  the set is mixed.
- *Kept backup* (`"drop"` in `Faults`): removing a backup may fail and is ignored.
  Once the marker is gone, the next run restores the old binary from it.
- *Narrower set* (requests for `{cli}` beside those for both): the marker belongs
  to the first option's state file, so a run for fewer binaries clears the marker
  or handles only its own backups.
- *Torn marker* (`"torn_mark"`): a marker write that fails after creating the file
  rolls back under a marker that says committed; a kill then keeps the mix.
- *Stale relaunch* (`Switches <- OnOff` in `MCSchedulerLive`): a daemon that is
  switched off still reads the result of an older update and relaunches.
- *Split set* (`SetIsOneRelease` as an invariant of `MCScheduler`): `applySet` stages from one look-up, so that a release published
  meanwhile "cannot mix two tags in one install" (applyall.go:106); which binaries are
  staged was decided before, by one look-up each. A release published between two of
  those is installed for the later binaries only. `SplitsOnlyBetweenLookUps` and
  `SetStaysTogether` say that nothing else splits the set that recovery leaves, as far as
  `SafeEnv` reaches: the kills, failed removals and torn markers that `InstallSet` excludes
  (the entries above) are below the steps of `Scheduler`.
- *Stale break* and *turned away* (`MCProvisionMixed` with `LockNamesHolder`, or
  the outcome "setup"): a contender breaks a live lock; one that finds the
  directory gone between mkdir and stat reports a setup error.
- *Install that fails half way* (`records` with the property that a run that
  serves what was cached serves one tree): the fallback answers with what was
  complete before the install began, although some assets are replaced.
- *Re-added module* (two refs of the module list): an asset that was dropped from
  the list and is listed again is served as it was by a 304.

<a name="observations"></a>
## Observations

Behaviour that the models have, and that no property forbids: the code promises
nothing else, or says so.

- *Scheduler.* A daemon may be started from a binary whose install is not committed, when
  the update dies between rename and marker; recovery then puts the older file under it
  (applyall.go:220). `NeverDowngrades` and `SetIsOneRelease` speak of what recovery leaves:
  the file itself does go back. A daemon whose state cannot be read when its timer is set
  runs after the initial delay, however short ago it ran (scheduler.go:83).
- *Delivery.* Two calls without the update lock share the archive's path and the
  checksum file. Between the hash that is attested and the extraction, another call may
  rename another archive there (applyall.go:271): `InstalledAsVerified` exempts the binary
  installed then. All-in-one releases have no provenance bundle to verify. A release
  that is uploaded again under its tag no longer matches the cached checksums; the call
  fails. The recovery of a run with the lock may sweep the candidate of a call without;
  that call fails as well. Which failures are retried, and that a cancelled context wins
  over the wait, is in `RetryTimer` and its neighbours; no property depends on it.
- *UserService.* If the reload or restart fails after the rename, the next install
  with the same options finds the file unchanged and the old service active, and
  skips both (service.go:140).
- *Baselines.* A token-free sync drops rows of its scope that a token accepted for
  findings that are absent now, and rows that only another platform would find:
  an update captures the host's alone. Captures ignore the tool's exit status
  (lint_scoped.go:196).
- *Gates.* golangci-lint that fails after reporting at least one finding, all of
  them in the baseline, passes (lint_gates.go:164); `Partial` is that case.
- *Notices.* In a shallow clone with an empty history a directive is recorded
  as applied without a baseline (notice.go:142). Historical findings are counted
  per identity but rejected by key; findings are keys here, so the count is not in
  the model. Were the scopes of two notices to overlap, the second's write would
  drop what the first saved if it was absent before the second's cutoff; nothing
  tests for that, and the two directives of notices.txt are of different gates.
- *Checks.* A panic of the terminal view prints "All checks passed" and exits 1.
- *Build reuse.* A later platform of GO_MK_PLATFORMS writes over the same file of `dist`,
  so a stamp speaks of the last one. A run that compares while another builds may skip with
  an output that was replaced after it was digested; `ReusedIsBuilt` says what it has seen.
- *CI.* Deleting an embedded file counts as unchanged: go list lists the head's
  only. Deleting a source in the same change that adds another file, of any kind, may
  count as a rename, and then only the new name is listed (ci_changed.go:392): the gates
  are skipped if that is a document. When go list -e lists a package in part, a change of
  one of the embedded files it left out goes unseen (ci_changed.go:452). When two pushes to the default branch wait, the later replaces the
  earlier, and if it touches documents only, nothing gates the first.
- *OutputCache.* A `git ls-files` or submodule status that fails, and a C input that
  cannot be read, is left out of the key silently; a compiler that does not answer gives
  all compilers one key. A C input that is not there has the key of one that could not be
  read. No key covers the tools that a generator runs or the recipes of go-makefile; a
  generated entry may be of a newer go-mk than the one that hashed.
- *Bootstrap.* go-mk-sync.sh executes any engine that is executable;
  go-mk-bootstrap.sh does not test the one it has just installed; an edit made
  during a development build is missed by the comparison of times
  (resolvebin.go:172); of two such builds the older may be renamed last.
- *Scaffold.* `isClearlyGeneratedMakefile` (scaffold.go:467) knows the default goal
  `check` while the template ends in `help`, so a Makefile of today's template
  counts as customised unless its comment is kept (scaffold_test.go:558 passes
  by that comment). The release workflow gets `BINARY` as it was before the
  Makefile was rewritten, one run late. A kill during a write leaves an empty
  file, which later runs take for the owner's. The binary is set on every release
  job, also on those of other directories. A `BINARY` line without a value names no
  binary, rather than the command's (scaffold.go:496), and one that is not safe for a
  workflow is warned about and not told to the release (scaffold.go:130).
- *Provision.* mkdir and stat of the lock are two calls, and a contender that
  finds the directory gone between them gives up (provision.go:534). A signal that
  is refused counts as unanswered (provision.go:579).
- *Token gate.* The slug is cached per UTC day (gatetoken.go:85), so a build over
  midnight may refuse the token it was given.

## Fairness

- `InstallSet!FairSpec`: weak fairness of a step of the running process, strong
  fairness of starting a full run. The first is a process that is not killed; the
  second is the daemon under a service manager with an interval loop, which
  starts ApplyAll again whatever the last run returned, and finds the lock free again and
  again although dry runs may have it in between. Kills and failures have none; they are
  bounded.
- `Scheduler!FairSpec`: weak fairness of each step a started process can take, of
  time, and of the relaunch by the service manager (`KeepAlive`,
  `Restart=always`). Faults, kills, publishing and switching hooks have none.
- `MCFetches!FetchesSpec`: a started provision that waits or works keeps running
  (the lock itself is not fair: contenders end by their deadline), and so does a
  started download call: its timer fires and its request is answered or fails,
  since every request has a timeout. The release host, cancels and kills have none.
- `MCRecords!RecordsSpec` and `MCComponents!ComponentsSpec` have none: their properties
  are safety properties.

## Proofs

TLAPS checks eight modules for all values of the constants that satisfy the
assumptions the modules name (`ConstantsAssumption`, `LockAssumption`, `ProvisionAssumption`,
`DeliveryAssumption`, `ReuseAssumption`, `ServiceAssumption`, `ReleaseAssumption`,
`CacheAssumption`, `GateAssumption`, `BootstrapAssumption`, `GatesAssumption`,
`CIAssumption`, `ScaffoldAssumption`): that numbers are numbers and sets are finite, and what the
code's own tables guarantee. Where a theorem has a further hypothesis it is named below, with the
run or the observation that shows why. Every safety property that a passing run checks is
a theorem's, and so is the type invariant of every component.

*InstallSet.* `TypeCorrect` and `ValidationFirst` need no more. `Inductive` and
`RecoveryRestores` assume `SafeEnv`: every binary was installed before; every run names all
of them and is wholly dry or not at all; no removal fails that recovery relies on; no kill
falls while a backup is an empty or half-written file, nor between a refused removal of the
empty one and its discovery; where removing a half-made backup may fail, or making a
symlink's does, nothing leaves one; and where a marker write may tear, the restore after it
is not killed and does not fail.
Each of these conditions is one the code does not guarantee, and none can go: with any one
of them relaxed and the others kept, TLC finds a set in the instance of `install_set` that
recovery does not restore. `AlwaysRecoverable` and `InstallsAtomically` assume `AtomicEnv`,
which is `SafeEnv` without torn markers: while the restore under one is under way, a kill
would keep the mix, whether or not it falls. `AlwaysRecoverable` is about every backup that
recovery might find, half-made ones too, in whatever order it lists them; what it cannot
say is that a backup is never half made, and while one is (`BackupHalfMade`) a kill is the
finding `killed_in_backup`. `RecoveredSet` is not inductive: the invariant `IInv`
adds that only what this run replaced, or is about to, has a backup, that it is
complete (`BackupsOfThisRun`), that what recovery finds leads to the promised set
(`LeftoversHelp`), that recovery is over before anything is installed
(`RecoveryFirst`), and that during the renames exactly the replaced binaries are
new (`OneRelease`). With it each step of the install maps to a step of
`AtomicInstall` or a stutter. `ReturnsWhole` is about failures rather than kills and has
an environment of its own, `RollbackEnv`: binaries may be absent and most calls may fail,
but no kill falls between the first backup and the end
of a restore, and neither a restore nor an ignored removal fails. Its invariant
`RollbackInv` says that only replaced binaries differ from the promised ones, that the
backup of each, or its absence, tells what was there (`UndoIsKnown`), and that leftovers
are there only under the marker (`LeftoversAreCommitted`).

*Scheduler.* `SafetyInv` carries `AppliedWasInstalled`, `NeverDowngrades` and
`DevDaemonOnlyChecks` together: only the holder of the lock is at an update
(`UpdatesAreLocked`), and looks an update up from its first option on (`FirstOptionFirst`);
while an apply is past its recovery the backups are exactly those of the binaries it has
renamed over itself (`BackupsOK`); what is about to be installed is at least what is
kept (`TagsGrow`, which rests on the look-up being made under the lock); the daemon of a
development build was told to check (`DevIsTold`); and every copy of the
state, in the file or in the memory of a process between its load and its save, names a tag
that was committed (`TagsWereInstalled`). A state read before the lock may be stale by the
time it is written, so an invariant about the file alone is not inductive. What is kept
(`Kept`) is the function of `Effective`: renames, failed renames, restores that fail, kills
and recoveries leave it alone, and only a commit changes it. `NoDowngrade` and
`SplitsNeedTwoReleases` are this lemma and what is known of the commit: of a tag found under
the lock, and of look-ups that agree unless they saw two releases. Two theorems
have a hypothesis on the behaviour. `RunsArePaced`: updates are on whenever the daemon
sets its delay, since otherwise it forgets when it last ran; the property itself says that
a timer set without a readable state (`blind`) keeps the initial delay only.
`RelaunchesAreWarranted`: a
run that comes back finds updates on, and a mode that does something (*stale relaunch*
above). What the hooks are at any other moment does not matter. `UpdatesOneByOne` maps
the scheduler to `AtomicInstall`: only a process between its fetch and its commit has
something pending (`OneUpdate`: there is at most one, as it holds the lock), and it has
targets (`UpdatesHaveTargets`). `SetStaysTogether` has as hypothesis that no release is
published between two look-ups of one update: then an update finds one release for all it
has looked up so far, the newest while it is still looking (`SeenAlike`), so the binaries it
commits are all or none, whoever fails, is killed or runs besides.
`RecordedUnlessOverlapped` says when `AppliedIsLast`, which `lost_applied_tag` violates,
holds: nothing fails, no release comes between two look-ups of one update, and no tag is
recorded while another process has read the state file and not yet written it back. Then
every copy about to be written back has the tag of the file (`CopiesAgree`), what the
file does not name yet is what the update now recording has installed
(`InstalledIsRecorded`), and a backup is one of an install under way (`BackupsAreInstalls`),
so that when all rest what is kept is what is there. So an update in which nothing fails
and no release intervenes loses its tag only by overlapping with a writer that takes no lock.

*ProvisionLock.* The lock excludes as long as `BreaksAreStale`: nobody is about to break
while another owns the lock (`LockExcludes`, any number of processes). That proviso is
exactly what fails in `mixed_tree`. `FewExclude` shows that it always holds for two
processes (`AtMostTwo`) or for runs one after another (`Together = 1`), however they are
killed: with two, whoever is about to break has seen the only other one end
(`BreaksAlone`).

*Provision.* `CIDownloads` needs nothing: a CI run given neither a checkout nor
`_GO_MK_PROVISIONED=1` ends well only with its own download. `RecordsAreTrue` rests on `TreeInv`: the records
are gone while the owner of the lock replaces assets (`RecordsAreCleared`), and what it has
installed so far is of the tree it will record (`InstalledSoFar`); it has `BreaksAreStale` as hypothesis, `FewKeepRecordsTrue` the two
cases in which that is a theorem. `ConfirmedIsCurrent` needs `SameModules` besides: an
ETag speaks of the modules it was fetched with (*re-added module* above).

*Delivery.* `DeliveryVerifies`: the digests of a call that has verified are of intact
archives of its tag, whatever the cache then holds; an installer's candidate is such an
archive unless its archive was swapped after the hash (`FilesAreGood`), and only
installers come to extract and install (`VerifiersInstallNothing`). `DeliveryTypeCorrect`
includes the bound of the attempts.

*BuildReuse.* `StampsStayTrue` follows from `IInv`: every record in the file, in
the memory of a run that read it, or of one about to write it, is true
(`RecordsTrue`), and a run that nobody disturbed since its gate, or since it began to
compare, knows the outputs it has made or digested so far (`Undisturbed`). The second is
what makes the steps that take the digests, file by file, keep the first; `Frame` shows that
other runs' steps leave it alone. `ReuseOnlyOfBuilt` adds that only the comparison ends a
run as reused (`OnlyCompareReuses`) and that what it has digested until then is what the
record says (`Labelled`); the record being true, each output was built of its inputs when
it was digested. That all of them are so together needs that nobody was at them meanwhile,
and the theorem claims it only then.

*UserService.* `QuietServiceStaysCurrent`: what the manager has may differ from the
file only while some call still has its reload ahead (systemd) or has not ended
(launchd), or after a failure (`ServiceInv`); a call since whose rename nothing
failed cannot end and leave it so. Whoever renamed last reloads later than that
and restarts later still, so no order of overlapping calls matters.

*Release.* `ReleasedStaysWhole`: a leg's files are as its state says (`LegsHave`),
nothing exists that is not an asset (`OnlyAssets`), and what is published is what
all legs have packaged, from where no leg returns (`PublishedIsPackaged`).

*OutputCache.* `RestoredStaysCurrent`: keys hash what the job saw, in part if a call
failed (`KeysAreOfSeen`), and outputs agree with what their key hashes, though not with the
rest that they are made from (`OutputsAgree`). The key of a job whose calls did not fail
therefore never meets the entry of a partial one, except for a C input that it does not
have itself; the theorem claims what a key covers (`Covered`), and no more.

*BuildGate.* `SkippedAreTheRuns`: a token in hand is one of the run whose credentials
the environment holds (`TokensAreOfCredentials`); the comparison of claims then
bounds its age by lifetime, skew and the error of the clock.

*Bootstrap.* `EngineAlwaysServes`: an engine about to be executed is no link
(`NoLinkAhead`), since each way there tests for one or renames an own binary over
it, and links come only with the checkout (`NothingRunsYet`). `ParsedUnlessLeftEmpty`
is the other half of `empty_helper`: no step of a make empties the helper, so a parse goes
on without an engine only in a checkout that came with an empty one.

*Gates.* `BaselineStaysAuthorised` and `OtherRowsAreKept` follow from `GatesInv`: only
a check applies a notice, one that has shipped (`NoticesOfCheck`), and what waits to
be written was captured behind the token, or is in the notice's scope and was in the
source before it (`CapturedIsAuthorised`). `AppliedStaysWritten` needs a hypothesis
on notices.txt besides, `ScopesAreApart`: no finding is in the scopes of two notices.
With it, what applied notices saved is out of reach of the next one's write
(`CoveredByApplied`), and a notice is recorded after its write (`WrittenIsSaved`).
`GreenChecksHideNothing` follows a check through its plan: as long as it is green,
a finding that stood since the check began is authorised, or a step of its gate on each
platform that shows it is still ahead (`StepsAhead`); when the plan is empty and nothing
failed, no step is.

*CI.* `SkippedRunsAreRight` needs that runs and waiting pushes are at commits that exist
(`HeadsExist`), each after its parent (`CITypeOK`); a commit never changes, nor what it
follows (`CommitKeeps`), so what was true when a run skipped its gates stays true. Of a merge
base only that it is shared is needed (`MergeBaseIsShared`), whichever of several git
prints. `Ancestry` is the smallest set closed under parents, not a recursion, which would
call for an induction theorem with an operator as parameter. What git pairs and go list
leaves out is any choice, and the theorem claims what no choice can hide.

*Scaffold.* `ScaffoldRunsSettle`: each file that an undisturbed run has passed is as a further
run would leave it, given the same plan (`RunIsRight`), and a run that follows a settled
one finds the same plan; the operators on jobs are shown to be idempotent one by one
(`RepairedJob`, `NamedJob`, `SyncedJob`).

Only model-checked: the liveness properties (`EventuallySettled`, `DaemonCatchesUp`,
`EveryoneEnds`, `CallsEnd`), since fairness and ENABLED are beyond the prover; and the five
runs that expect a violation, which show states, not theorems. The type invariants of the
components that `fetches`, `records` and `components` run are theorems, for every instance, and not
checked again there.

<a name="not-modelled"></a>
## Not modelled

`PROJECT.json` lists every part with the reason. In short: analyzers are functions
from programs to findings; platform, version and stub checks, the token gate and
the make contract are verdicts; mutation testing, the consumer check, hooks and
workflows' other jobs drive other programs; rendering is text. What a bundle
proves, and what a signature, is taken as a comparison.

Within the modelled parts these are left out: a pid that is reused, or of another
user; consumer hooks in builds beyond "may fail"; local edits to assets that a 304
leaves alone (docs name them as accepted); in `Gates` the formatter, the variants
for staged files, vet and govulncheck, the extraction of findings from raw output,
a second command at the same time, the staticcheck gate's own second notice pass,
and the day and the slug of the token, whose holder is a choice made when a
command starts; notices ship in the file's order, and an edit is a commit; in
`OutputCache` the lint cache, whose key is derived alike, and the decision to save
it; in `Scaffold` all text beside the jobs that call go-makefile's workflows.

## Plan

1. Proofs: the dry and the narrower requests of `InstallSet` one kind at a time, where no
   kill precedes them.
2. The token gate with its day and slug, composed with `Gates`; a second command
   beside a check.
3. The lint cache and the extraction of findings.

The violation runs stay as long as the code behaves as they say.

## Running it

    tlc -config MCInstallSet.cfg MCInstallSet      # one run; PROJECT.json lists all
    tlapm InstallSetProofs.tla                     # and the other *Proofs modules
