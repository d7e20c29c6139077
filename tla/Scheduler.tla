----------------------------- MODULE Scheduler -----------------------------
(***************************************************************************)
(* The processes that share one updater state file: the daemon that runs   *)
(* RunScheduler under a service manager, and commands that run Check or    *)
(* ApplyAll once.  An apply holds the update lock; a check, and the record *)
(* of an error, read and rewrite the state file without it.  An install    *)
(* renames one binary after the other and then commits; what InstallSet    *)
(* shows in detail, a backup with its rename and the commit with the end   *)
(* of the backups, is one step each.  Releases are numbered in the order   *)
(* they are published, and 0 is the build first installed.                 *)
(***************************************************************************)
EXTENDS Naturals

CONSTANTS
    Daemon,       \* the process that runs the scheduler
    Commands,     \* the processes that run one update command each time
    NumBinaries,  \* how many options one update names
    MaxTag,       \* bound: how many releases are published
    Unordered,    \* releases whose tags do not compare with those of others
    Interval,     \* Config.interval, in ticks of the clock
    CommandKinds, \* what a command may do, of "check", "apply" and "dry"
    Modes,        \* the values the Mode hook returns
    Switches,     \* the values the Enabled hook returns
    DevVersion,   \* build 0 has the version "dev" or "unknown"
    DirtyBuild,   \* build 0 has CurrentDirty set
    MaxCommands,  \* bound: how many commands are started
    MaxFaults     \* bound: failed requests and writes, panics and kills

ASSUME ConstantsAssumption ==
    /\ NumBinaries \in Nat \ {0} /\ MaxTag \in Nat /\ Interval \in Nat \ {0}
    /\ Unordered \subseteq 1..MaxTag
    /\ CommandKinds \subseteq {"check", "apply", "dry"}
    /\ Modes \subseteq {"check", "apply", "other"}
    /\ Modes # {} /\ Switches \in (SUBSET BOOLEAN) \ {{}}
    /\ DevVersion \in BOOLEAN /\ DirtyBuild \in BOOLEAN
    /\ MaxCommands \in Nat /\ MaxFaults \in Nat
    /\ Daemon \notin Commands /\ "nobody" \notin Commands \cup {Daemon}

Procs == Commands \cup {Daemon}
Binaries == 1..NumBinaries
Tags == 0..MaxTag
NoBackup == MaxTag + 1
Nobody == "nobody"

\* updateDisabledPollInterval and updateInitialDelay, in ticks
ShortDelay == 1
Longest == IF Interval > ShortDelay THEN Interval ELSE ShortDelay

VARIABLES
    latest,   \* the newest published release
    bin,      \* bin[b]: the release of the installed binary b
    undo,     \* undo[b]: the release in the backup of b, while its install is not committed
    state,    \* the state file: last result, applied tag, ticks to NextCheckAt
    lock,     \* who holds update.lock
    enabled,  \* what the Enabled hook returns now
    mode,     \* what the Mode hook returns now
    timer,    \* ticks left on the daemon's timer
    pc,       \* where each process is
    kind,     \* what the run of each process is
    ver,      \* the release each process was started from
    idx,      \* the option a process is at
    seen,     \* seen[p][b]: the tag Check found for option b
    target,   \* the tag the update stages
    held,     \* the state a process has read and not yet written back
    commands, \* commands started so far
    faults,   \* faults so far
    ever,     \* history: the releases whose install was committed
    warrant,  \* history: has an update been recorded since the daemon started?
    since,    \* history: ticks since the daemon last recorded a run
    blind     \* history: was its timer set without the state, which could not be read?

installed == <<bin, undo>>
disk == <<latest, installed, state, lock>>
hooks == <<enabled, mode>>
procs == <<timer, pc, kind, ver, idx, seen, target, held>>
bounds == <<commands, faults>>
history == <<ever, warrant, since, blind>>
vars == <<disk, hooks, procs, bounds, history>>

Results == {"none", "check", "current", "applied", "dry_run", "error"}
States == [result : Results, applied : Tags, next : 0..Interval]
NoState == [result |-> "none", applied |-> 0, next |-> 0]

TypeOK ==
    /\ latest \in Tags /\ bin \in [Binaries -> Tags] /\ state \in States
    /\ undo \in [Binaries -> Tags \cup {NoBackup}]
    /\ lock \in Procs \cup {Nobody}
    /\ enabled \in Switches /\ mode \in Modes /\ timer \in 0..Longest
    /\ pc \in [Procs -> {"idle", "down", "arm", "wait", "gate", "reload", "lock",
                         "recover", "check", "checkLoad", "checkSave", "fetch", "install",
                         "commit", "saveLoad", "save", "errLoad", "errSave"}]
    /\ kind \in [Procs -> {"check", "apply", "dry"}]
    /\ ver \in [Procs -> Tags] /\ idx \in [Procs -> Binaries]
    /\ seen \in [Procs -> [Binaries -> Tags]] /\ target \in [Procs -> Tags]
    /\ held \in [Procs -> States]
    /\ commands \in 0..MaxCommands /\ faults \in 0..MaxFaults
    /\ ever \subseteq Tags /\ warrant \in BOOLEAN /\ since \in 0..Interval
    /\ blind \in BOOLEAN

Init ==
    /\ latest = 0 /\ bin = [b \in Binaries |-> 0] /\ state = NoState
    /\ undo = [b \in Binaries |-> NoBackup]
    /\ lock = Nobody /\ enabled \in Switches /\ mode \in Modes /\ timer = 0
    /\ pc = [p \in Procs |-> IF p = Daemon THEN "arm" ELSE "idle"]
    /\ kind = [p \in Procs |-> "check"] /\ ver = [p \in Procs |-> 0]
    /\ idx = [p \in Procs |-> 1]
    /\ seen = [p \in Procs |-> [b \in Binaries |-> 0]]
    /\ target = [p \in Procs |-> 0] /\ held = [p \in Procs |-> NoState]
    /\ commands = 0 /\ faults = 0
    /\ ever = {0} /\ warrant = FALSE /\ since = Interval /\ blind = FALSE
-----------------------------------------------------------------------------
(* The world: releases, hot-reloaded hooks and time. *)

Publish ==
    /\ latest < MaxTag
    /\ latest' = latest + 1
    /\ UNCHANGED <<installed, state, lock, hooks, procs, bounds, history>>

Reconfigure ==
    /\ enabled' \in Switches /\ mode' \in Modes
    /\ UNCHANGED <<disk, procs, bounds, history>>

LessUnclamped(n) == n - 1
Less(n) == IF n = 0 THEN 0 ELSE n - 1

\* NextCheckAt and the timer come closer; a state read and not yet written
\* back ages with them
Tick ==
    /\ timer > 0 \/ state.next > 0 \/ since < Interval
    /\ timer' = Less(timer)
    /\ state' = [state EXCEPT !.next = Less(@)]
    /\ held' = [p \in Procs |-> [held[p] EXCEPT !.next = Less(@)]]
    /\ since' = IF since < Interval THEN since + 1 ELSE since
    /\ UNCHANGED <<latest, installed, lock, hooks, pc, kind, ver, idx, seen, target,
                   bounds, ever, warrant, blind>>
-----------------------------------------------------------------------------
(* A run, of the daemon or of a command. *)

\* releaseIsNewer: any other tag is newer unless the two compare
Newer(p, tag) ==
    /\ tag \notin {0, ver[p]} /\ ~(DirtyBuild /\ ver[p] = 0)
    /\ tag > ver[p] \/ {tag, ver[p]} \cap Unordered # {}
Available(p) == {b \in Binaries : Newer(p, seen[p][b])}
Goto(p, label) == pc' = [pc EXCEPT ![p] = label]
Fault == faults < MaxFaults /\ faults' = faults + 1 /\ UNCHANGED commands

Clear(p) ==
    /\ idx' = [idx EXCEPT ![p] = 1]
    /\ seen' = [seen EXCEPT ![p] = [b \in Binaries |-> 0]]
    /\ target' = [target EXCEPT ![p] = 0]
    /\ held' = [held EXCEPT ![p] = NoState]

\* where a process goes when its run returned nil, or an error
FailedToReload(p) == IF p = Daemon THEN "reload" ELSE "idle"
Returned(p) == IF p = Daemon THEN "reload" ELSE "idle"
Failed(p) == IF p = Daemon THEN "arm" ELSE "idle"
Release(p) == lock' = IF lock = p THEN Nobody ELSE lock

Begun(p) == IF kind[p] = "dry" THEN "check" ELSE "recover"

AcquireHeld(p) ==
    /\ pc[p] = "lock"
    /\ lock' = p /\ Goto(p, Begun(p))
    /\ UNCHANGED <<latest, installed, state, hooks, timer, kind, ver, idx, seen, target,
                   held, bounds, history>>

\* the update lock is free: ApplyAll goes on, and recovers unless it is a dry run
Acquire(p) ==
    /\ pc[p] = "lock" /\ lock = Nobody
    /\ lock' = p /\ Goto(p, Begun(p))
    /\ UNCHANGED <<latest, installed, state, hooks, timer, kind, ver, idx, seen, target,
                   held, bounds, history>>

\* someone holds it, "update already running", or it cannot be opened
Busy(p) ==
    /\ pc[p] = "lock"
    /\ \/ lock # Nobody /\ UNCHANGED bounds
       \/ Fault
    /\ Goto(p, "errLoad")
    /\ UNCHANGED <<disk, hooks, timer, kind, ver, idx, seen, target, held, history>>

\* the process is done with an option, and goes on after the last one
NextOption(p, label) ==
    /\ idx' = [idx EXCEPT ![p] = IF @ < NumBinaries THEN @ + 1 ELSE 1]
    /\ Goto(p, IF idx[p] < NumBinaries THEN pc[p] ELSE label)

\* recoverInterruptedInstall: the backup of an install that was not committed
\* is renamed over its binary
RecoverDiscards(p) ==
    /\ pc[p] = "recover" /\ NextOption(p, "check")
    /\ undo' = [undo EXCEPT ![idx[p]] = NoBackup]
    /\ UNCHANGED <<latest, bin, state, lock, hooks, timer, kind, ver, seen, target,
                   held, bounds, history>>

Recover(p) ==
    /\ pc[p] = "recover" /\ NextOption(p, "check")
    /\ bin' = [bin EXCEPT ![idx[p]] = IF undo[idx[p]] = NoBackup THEN @ ELSE undo[idx[p]]]
    /\ undo' = [undo EXCEPT ![idx[p]] = NoBackup]
    /\ UNCHANGED <<latest, state, lock, hooks, timer, kind, ver, seen, target, held,
                   bounds, history>>

\* Check looks up the newest release
CheckFetch(p) ==
    /\ pc[p] = "check"
    /\ seen' = [seen EXCEPT ![p][idx[p]] = latest]
    /\ Goto(p, "checkLoad")
    /\ UNCHANGED <<disk, hooks, timer, kind, ver, idx, target, held, bounds,
                   history>>

CheckFetchFailed(p) ==
    /\ pc[p] = "check" /\ Fault
    /\ Goto(p, "errLoad")
    /\ UNCHANGED <<disk, hooks, timer, kind, ver, idx, seen, target, held, history>>

\* LoadState before a rewrite of the file: one that cannot be read, or not
\* decoded, counts as empty
Load(p) ==
    /\ pc[p] \in {"checkLoad", "saveLoad", "errLoad"}
    /\ \/ held' = [held EXCEPT ![p] = state] /\ UNCHANGED bounds
       \/ held' = [held EXCEPT ![p] = NoState] /\ Fault
    /\ Goto(p, CASE pc[p] = "checkLoad" -> "checkSave"
                 [] pc[p] = "saveLoad" -> "save"
                 [] pc[p] = "errLoad" -> "errSave")
    /\ UNCHANGED <<disk, hooks, timer, kind, ver, idx, seen, target, history>>

Recorded(p) == since' = IF p = Daemon THEN 0 ELSE since

\* Check records what it found: only AppliedTag is kept from the old state
CheckSave(p) ==
    /\ pc[p] = "checkSave"
    /\ state' = [result |-> "check", applied |-> held[p].applied,
                 next |-> Interval]
    /\ Recorded(p)
    /\ \/ /\ kind[p] = "check"
          /\ Goto(p, Returned(p)) /\ Clear(p)
       \/ /\ kind[p] # "check" /\ idx[p] < NumBinaries
          /\ idx' = [idx EXCEPT ![p] = @ + 1]
          /\ Goto(p, "check") /\ UNCHANGED <<seen, target, held>>
       \/ /\ kind[p] # "check" /\ idx[p] = NumBinaries
          /\ idx' = [idx EXCEPT ![p] = 1]
          /\ Goto(p, IF Available(p) = {} THEN "saveLoad" ELSE "fetch")
          /\ UNCHANGED <<seen, target, held>>
    /\ UNCHANGED <<latest, installed, lock, hooks, timer, kind, ver, bounds, ever, warrant, blind>>

\* every binary is staged from one more look-up of the newest release
Fetch(p) ==
    /\ pc[p] = "fetch"
    /\ target' = [target EXCEPT ![p] = latest]
    /\ Goto(p, "install")
    /\ UNCHANGED <<disk, hooks, timer, kind, ver, idx, seen, held, bounds, history>>

Installing(p) == pc[p] \in {"install", "commit"} /\ kind[p] = "apply"

\* Mutant: the backups are removed, and the binaries renamed over stay.
KeepRenamed(p) ==
    IF Installing(p)
    THEN undo' = [b \in Binaries |-> NoBackup] /\ UNCHANGED bin
    ELSE UNCHANGED installed

\* restore: what was renamed over is put back; where that fails as well, in
\* `lost', the backup stays
RollBack(p) ==
    IF Installing(p)
    THEN \E lost \in SUBSET Binaries :
           /\ bin' = [b \in Binaries |->
                        IF b \in lost \/ undo[b] = NoBackup THEN bin[b] ELSE undo[b]]
           /\ undo' = [b \in Binaries |-> IF b \in lost THEN undo[b] ELSE NoBackup]
    ELSE UNCHANGED installed

\* the recovery of an earlier install, the look-up, the download, the
\* verification or the install failed, or the state could not be saved: the
\* lock is released and then the error recorded
StepFailed(p) ==
    /\ pc[p] \in {"recover", "fetch", "install", "commit", "checkSave", "save"}
    /\ Fault /\ RollBack(p)
    /\ Release(p)
    /\ IF kind[p] = "check"
       THEN Goto(p, Failed(p)) /\ Clear(p)
       ELSE Goto(p, "errLoad") /\ UNCHANGED <<idx, seen, target, held>>
    /\ UNCHANGED <<latest, state, hooks, timer, kind, ver, history>>

\* installCandidates: each binary that has an update is backed up and renamed over
Install(p) ==
    /\ pc[p] = "install" /\ kind[p] = "apply" /\ NextOption(p, "commit")
    /\ IF idx[p] \in Available(p)
       THEN /\ bin' = [bin EXCEPT ![idx[p]] = target[p]]
            /\ undo' = [undo EXCEPT ![idx[p]] = bin[idx[p]]]
       ELSE UNCHANGED installed
    /\ UNCHANGED <<latest, state, lock, hooks, timer, kind, ver, seen, target, held,
                   bounds, history>>

DryInstall(p) ==
    /\ pc[p] = "install" /\ kind[p] = "dry"
    /\ Goto(p, "saveLoad")
    /\ UNCHANGED <<disk, hooks, timer, kind, ver, idx, seen, target, held, bounds, history>>

\* the marker is written, and the backups go
Commit(p) ==
    /\ pc[p] = "commit"
    /\ undo' = [b \in Binaries |-> IF b \in Available(p) THEN NoBackup ELSE undo[b]]
    /\ ever' = ever \cup {target[p]}
    /\ Goto(p, "saveLoad")
    /\ UNCHANGED <<latest, bin, state, lock, hooks, timer, kind, ver, idx, seen, target,
                   held, bounds, warrant, since, blind>>

StatusIgnoresDry(p) == IF idx[p] \notin Available(p) THEN "current" ELSE "applied"

Status(p) == IF idx[p] \notin Available(p) THEN "current"
             ELSE IF kind[p] = "dry" THEN "dry_run" ELSE "applied"

\* saveApplySetState: one rewrite per option, each over the one before
Save(p) ==
    /\ pc[p] = "save"
    /\ state' = [result |-> Status(p), next |-> Interval,
                 applied |-> IF Status(p) = "applied" THEN target[p]
                             ELSE held[p].applied]
    /\ warrant' = (warrant \/ Status(p) = "applied")
    /\ Recorded(p)
    /\ \/ /\ idx[p] < NumBinaries
          /\ idx' = [idx EXCEPT ![p] = @ + 1]
          /\ Goto(p, "saveLoad") /\ UNCHANGED <<seen, target, held, lock>>
       \/ /\ idx[p] = NumBinaries
          /\ Release(p) /\ Goto(p, Returned(p)) /\ Clear(p)
    /\ UNCHANGED <<latest, installed, hooks, timer, kind, ver, bounds, ever, blind>>

ErrSaveNoNextCheck(p) ==
    /\ pc[p] = "errSave"
    /\ state' = [held[p] EXCEPT !.result = "error"]
    /\ Recorded(p) /\ Release(p)
    /\ IF lock = p
       THEN Goto(p, "errLoad") /\ UNCHANGED <<idx, seen, target, held>>
       ELSE Goto(p, Failed(p)) /\ Clear(p)
    /\ UNCHANGED <<latest, installed, hooks, timer, kind, ver, bounds, ever, warrant, blind>>

\* recordCheckError keeps every field of the state it read.  An apply whose
\* Check failed records the error twice, the second time without the lock
ErrSave(p) ==
    /\ pc[p] = "errSave"
    /\ state' = [held[p] EXCEPT !.result = "error", !.next = Interval]
    /\ Recorded(p) /\ Release(p)
    /\ IF lock = p
       THEN Goto(p, "errLoad") /\ UNCHANGED <<idx, seen, target, held>>
       ELSE Goto(p, Failed(p)) /\ Clear(p)
    /\ UNCHANGED <<latest, installed, hooks, timer, kind, ver, bounds, ever, warrant, blind>>

\* the error could not be recorded: that is only logged
ErrSaveFailed(p) ==
    /\ pc[p] = "errSave" /\ Fault
    /\ Release(p)
    /\ IF lock = p
       THEN Goto(p, "errLoad") /\ UNCHANGED <<idx, seen, target, held>>
       ELSE Goto(p, Failed(p)) /\ Clear(p)
    /\ UNCHANGED <<latest, installed, state, hooks, timer, kind, ver, history>>
-----------------------------------------------------------------------------
(* Commands and the daemon's loop. *)

Working(p) == pc[p] \notin {"idle", "down", "arm", "wait", "gate", "reload"}

StartCommand(c) ==
    /\ pc[c] = "idle" /\ commands < MaxCommands
    /\ commands' = commands + 1
    /\ ver' = [ver EXCEPT ![c] = bin[1]]
    /\ \E k \in CommandKinds :
         /\ kind' = [kind EXCEPT ![c] = k]
         /\ Goto(c, IF k = "check" THEN "check" ELSE "lock")
    /\ UNCHANGED <<disk, hooks, timer, idx, seen, target, held, faults, history>>

\* nextUpdateDelay: the timer is set once and not looked at again; a state that
\* cannot be read counts for nothing
Arm ==
    /\ pc[Daemon] = "arm"
    /\ \/ timer' = (IF enabled /\ state.next > 0 THEN state.next ELSE ShortDelay)
          /\ blind' = FALSE /\ UNCHANGED bounds
       \/ timer' = ShortDelay /\ blind' = TRUE /\ Fault
    /\ Goto(Daemon, "wait")
    /\ UNCHANGED <<disk, hooks, kind, ver, idx, seen, target, held, ever, warrant, since>>

Fire ==
    /\ pc[Daemon] = "wait" /\ timer = 0
    /\ Goto(Daemon, "gate")
    /\ UNCHANGED <<disk, hooks, timer, kind, ver, idx, seen, target, held, bounds,
                   history>>

RunScheduledAnyBuild ==
    /\ pc[Daemon] = "gate"
    /\ \/ /\ ~enabled \/ mode = "other"
          /\ Goto(Daemon, "reload") /\ UNCHANGED kind
       \/ /\ enabled /\ mode # "other"
          /\ kind' = [kind EXCEPT ![Daemon] = mode]
          /\ Goto(Daemon, IF mode = "check" THEN "check" ELSE "lock")
    /\ UNCHANGED <<disk, hooks, timer, ver, idx, seen, target, held, bounds,
                   history>>

\* runScheduledUpdate: a disabled scheduler and an unknown mode return nil
RunScheduledUpdate ==
    /\ pc[Daemon] = "gate"
    /\ \/ /\ ~enabled \/ mode = "other"
          /\ Goto(Daemon, "reload") /\ UNCHANGED kind
       \/ /\ enabled /\ \/ mode = "check"
                        \/ mode = "apply" /\ DevVersion /\ ver[Daemon] = 0
          /\ kind' = [kind EXCEPT ![Daemon] = "check"] /\ Goto(Daemon, "check")
       \/ /\ enabled /\ mode = "apply" /\ ~(DevVersion /\ ver[Daemon] = 0)
          /\ kind' = [kind EXCEPT ![Daemon] = "apply"] /\ Goto(Daemon, "lock")
    /\ UNCHANGED <<disk, hooks, timer, ver, idx, seen, target, held, bounds,
                   history>>

\* back in the loop: the state file, not the run, says whether to relaunch
StopForRelaunch ==
    /\ pc[Daemon] = "reload" /\ state.result = "applied"
    /\ Goto(Daemon, "down")
    /\ UNCHANGED <<disk, hooks, timer, kind, ver, idx, seen, target, held, bounds,
                   history>>

LoopAgain ==
    /\ pc[Daemon] = "reload"
    /\ \/ state.result # "applied" /\ UNCHANGED bounds
       \/ Fault \* the state could not be read
    /\ Goto(Daemon, "arm")
    /\ UNCHANGED <<disk, hooks, timer, kind, ver, idx, seen, target, held, history>>

\* the service manager (KeepAlive, Restart=always) starts what is installed,
\* committed or not
Relaunch ==
    /\ pc[Daemon] = "down"
    /\ ver' = [ver EXCEPT ![Daemon] = bin[1]] /\ warrant' = FALSE
    /\ Goto(Daemon, "arm")
    /\ UNCHANGED <<disk, hooks, timer, kind, idx, seen, target, held, bounds,
                   ever, since, blind>>

\* what it starts ends at once; it tries again later
RelaunchFailed ==
    /\ pc[Daemon] = "down" /\ Fault
    /\ UNCHANGED <<disk, hooks, procs, history>>

\* a panic in the run of one iteration is recovered; the lock is released
Panic ==
    /\ Working(Daemon) /\ Fault
    /\ Release(Daemon) /\ Goto(Daemon, "arm") /\ Clear(Daemon)
    /\ UNCHANGED <<latest, installed, state, hooks, timer, kind, ver, history>>

KillKeepsLock(p) ==
    /\ pc[p] \notin {"idle", "down"} /\ Fault
    /\ UNCHANGED lock /\ Clear(p)
    /\ Goto(p, IF p = Daemon THEN "down" ELSE "idle")
    /\ timer' = IF p = Daemon THEN 0 ELSE timer
    /\ UNCHANGED <<latest, installed, state, hooks, kind, ver, history>>

\* the process dies; the kernel drops its lock
Kill(p) ==
    /\ pc[p] \notin {"idle", "down"} /\ Fault
    /\ Release(p) /\ Clear(p)
    /\ Goto(p, IF p = Daemon THEN "down" ELSE "idle")
    /\ timer' = IF p = Daemon THEN 0 ELSE timer
    /\ UNCHANGED <<latest, installed, state, hooks, kind, ver, history>>
-----------------------------------------------------------------------------
RunStep(p) ==
    \/ Acquire(p) \/ Busy(p) \/ CheckFetch(p) \/ Load(p) \/ CheckSave(p)
    \/ Recover(p) \/ Fetch(p) \/ Install(p) \/ DryInstall(p) \/ Commit(p) \/ Save(p)
    \/ ErrSave(p)

DaemonStep ==
    \/ Arm \/ Fire \/ RunScheduledUpdate \/ StopForRelaunch \/ LoopAgain \/ Relaunch

FaultStep(p) ==
    \/ CheckFetchFailed(p) \/ StepFailed(p) \/ ErrSaveFailed(p) \/ Kill(p)

Next ==
    \/ Publish \/ Reconfigure \/ Tick \/ DaemonStep \/ RelaunchFailed \/ Panic
    \/ \E c \in Commands : StartCommand(c)
    \/ \E p \in Procs : RunStep(p) \/ FaultStep(p)

Spec == Init /\ [][Next]_vars

\* Each process runs, time passes, and the service manager restarts the daemon.
\* Nothing is assumed of releases, hooks, commands or faults.
FairSpec ==
    /\ Spec /\ WF_vars(Tick) /\ WF_vars(DaemonStep)
    /\ \A p \in Procs : WF_vars(RunStep(p))
-----------------------------------------------------------------------------
(* Properties. *)

\* The daemon stops for a relaunch only if some update was recorded as applied
\* since that daemon was started (runSchedulerLoop reads LastResult from the
\* file, which other processes rewrite).  It holds while the hooks stay as
\* they are: a disabled scheduler relaunches for the result of an old update.
RelaunchIsWarranted ==
    [][pc[Daemon] = "reload" /\ pc'[Daemon] = "down" /\ faults' = faults
         => warrant]_vars

\* The state file never names an applied tag whose install was not committed,
\* whatever reads, writes and deaths interleave (saveApplyState, Check).
AppliedWasInstalled == state.applied \in ever

\* The release of b as the next recovery leaves it.
Effective(b) == IF undo[b] = NoBackup THEN bin[b] ELSE undo[b]

\* While releases only move forward, no interleaving of updates, failures, deaths
\* and recoveries takes a binary back behind a committed install: the tag is
\* looked up again under the lock.  The file itself does go back when an install
\* that was not committed is undone, also under a daemon already started from it.
NeverDowngrades == [][\A b \in Binaries : Effective(b)' >= Effective(b)]_vars

\* A daemon running a "dev" or "unknown" build never gets to an install, however
\* the hooks are switched (the fallback to Check in runScheduledUpdate).
DevDaemonOnlyChecks ==
    DevVersion /\ ver[Daemon] = 0 =>
      lock # Daemon /\ (Working(Daemon) => kind[Daemon] = "check")

\* While it stays enabled, the daemon starts a run only when Interval has passed
\* since it last recorded one, also across restarts and errors (NextCheckAt), or
\* the initial delay if the state could not be read when its timer was set.
PacedRuns ==
    [][pc[Daemon] = "gate" /\ pc'[Daemon] \in {"check", "lock"}
         => since >= IF blind THEN ShortDelay ELSE Interval]_vars

\* With no faults left to happen, the daemon ends up running every release
\* published, whatever commands ran meanwhile.
DaemonCatchesUp == \A t \in Tags : latest >= t ~> ver[Daemon] >= t

\* With no failure, the file names the last installed tag once nobody is at
\* work: each update of the file is complete.
AppliedIsLast ==
    faults = 0 /\ (\A p \in Procs : ~Working(p)) => state.applied = bin[1]

\* ApplyAll installs a release "for every binary in options as one unit", and a
\* release published meanwhile "cannot mix two tags in one install": what recovery
\* leaves is a set of one release until an update commits whose look-ups, one for
\* each option in applySet, found different releases.  No failed rename, failed
\* restore, death between two renames or other process splits it.
SetIsOneRelease == \A b \in Binaries : Effective(b) = Effective(1)
TwoReleasesFound ==
    \E p \in Procs : /\ pc[p] = "commit" /\ kind[p] = "apply"
                     /\ \E a, b \in Binaries : seen[p][a] # seen[p][b]
SplitsOnlyBetweenLookUps ==
    [][SetIsOneRelease /\ ~SetIsOneRelease' => TwoReleasesFound]_vars

\* The updates of all processes together are those of AtomicInstall: none is begun
\* before the one under way took effect as a whole or was given up (the lock in
\* ApplyAll), and one that died half way takes no effect.
Staged(p) == [targets |-> Available(p), tag |-> target[p]]
NoUpdate == [targets |-> {}, tag |-> 0]
Pending == IF \E p \in Procs : Installing(p)
             THEN Staged(CHOOSE p \in Procs : Installing(p))
             ELSE NoUpdate
Atomic == INSTANCE AtomicInstall WITH
  Absent <- MaxTag + 1,   \* no binary is missing
  current <- [b \in Binaries |-> Effective(b)],
  pending <- Pending
InstallsOneByOne == Atomic!ASpec
=============================================================================
