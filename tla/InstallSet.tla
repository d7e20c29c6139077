----------------------------- MODULE InstallSet -----------------------------
(***************************************************************************)
(* The transactional install of selfupdate/applyall.go and extract.go:     *)
(* ApplyAll and InstallReleaseBinaries replace several binaries by one     *)
(* release as a unit, through staged candidates, backups, renames and a    *)
(* commit marker; the next run recovers from a kill of an earlier one.     *)
(*                                                                         *)
(* The update lock is an flock (selfupdate/lock.go): at most one run holds *)
(* it and a kill releases it, so one running process is modelled, started  *)
(* again and again.  The disk survives a kill; the process memory does     *)
(* not.  Files are abstracted to what recovery can tell apart: a version,  *)
(* Partial for an empty or half-written file, and whether a backup still   *)
(* shares the installed file (a hard link or symlink) or is its own.       *)
(***************************************************************************)
EXTENDS Naturals, FiniteSets

CONSTANTS Binaries,    \* the install paths, binaries and symlinks alike
          Tags,        \* the release tags
          Absent,      \* nothing at the install path
          Partial,     \* an empty or truncated file
          NoFile,      \* no backup taken
          NoBinary,
          Requests,    \* the runs callers ask for: [names, dry \subseteq names]
          MayBeAbsent, \* binaries that may not be installed at first
          Faults,      \* the system calls that may fail
          KillPoints,  \* the control points at which the process may be killed
          MaxFaults, MaxKills   \* bounds: failures and kills of one behaviour

Version == Tags \cup {Absent, Partial}
File == [ver : Version, inode : {"shared", "own"}]

Points == {"recover", "recovered", "check", "stage", "validate", "backup",
           "reserved", "link", "copying", "rename", "mark", "drop", "unmark",
           "restore", "cleanup"}
FaultKinds == {"restore", "remove", "unmark", "reserve", "unreserve", "symlink", "link",
               "copy", "discard", "rename", "mark", "torn_mark", "drop"}

ASSUME ConstantsAssumption ==
  /\ Requests \subseteq [names : (SUBSET Binaries) \ {{}}, dry : SUBSET Binaries]
  /\ \A r \in Requests : r.dry \subseteq r.names
  /\ MayBeAbsent \subseteq Binaries
  /\ Tags # {}
  /\ Absent # Partial /\ Absent \notin Tags /\ Partial \notin Tags
  /\ NoFile \notin File /\ NoBinary \notin Binaries
  /\ Faults \subseteq FaultKinds /\ KillPoints \subseteq Points
  /\ MaxFaults \in Nat /\ MaxKills \in Nat

VARIABLES
  \* the disk
  installed,  \* the file at each install path
  leftover,   \* .<name>-previous-* files no live process knows of
  litter,     \* binaries with a .<name>-candidate-* file no live process knows of
  marker,     \* whether update-install-committed is "present" or "absent"
  \* the running process
  pc, names, dry,
  glob,       \* leftover backups listed by recovery and not handled yet
  first,      \* binaries whose first listed backup was handled
  todo,       \* options whose backups and candidates recovery has not swept yet
  targets,    \* options whose check found an update
  tag,        \* the release every target is staged from
  staged,     \* targets with a candidate on disk
  valid,      \* targets whose candidate passed validation
  cur,        \* the binary being recovered, staged or replaced
  backup,     \* the backup file of this run for each binary
  replaced,   \* binaries renamed over by this run
  \* history
  promised,   \* the versions a kill at this moment must end with
  returned,   \* how the last run ended
  faults, kills

disk == <<installed, leftover, litter, marker>>
request == <<names, dry>>
listing == <<glob, first, todo>>
plan == <<targets, tag>>
candidates == <<staged, valid>>
history == <<promised, returned, faults, kills>>
vars == <<disk, pc, request, listing, plan, candidates, cur, backup, replaced, history>>

NoBackups == [b \in Binaries |-> NoFile]
NoFiles == [b \in Binaries |-> {}]
ToInstall == targets \ dry
Committed == marker = "present"
NoTag == CHOOSE t \in Tags : TRUE

\* Replacing the installed file ends every hard link to it.
Unlinked(S) == {[f EXCEPT !.inode = "own"] : f \in S}

Fails(kind) == /\ kind \in Faults
               /\ faults < MaxFaults
               /\ faults' = faults + 1

-----------------------------------------------------------------------------
Init ==
  /\ installed \in [Binaries -> Tags \cup {Absent}]
  /\ \A b \in Binaries \ MayBeAbsent : installed[b] # Absent
  /\ leftover = NoFiles /\ litter = {} /\ marker = "absent"
  /\ pc = "idle" /\ names = {} /\ dry = {}
  /\ glob = NoFiles /\ first = {} /\ todo = {}
  /\ targets = {} /\ tag = NoTag
  /\ staged = {} /\ valid = {} /\ cur = NoBinary
  /\ backup = NoBackups /\ replaced = {}
  /\ promised = installed /\ returned = "none"
  /\ faults = 0 /\ kills = 0

(* The process has left the code: nothing of its memory remains. *)
Forget ==
  /\ pc' = "idle" /\ names' = {} /\ dry' = {}
  /\ glob' = NoFiles /\ first' = {} /\ todo' = {}
  /\ targets' = {} /\ tag' = NoTag
  /\ staged' = {} /\ valid' = {} /\ cur' = NoBinary
  /\ backup' = NoBackups /\ replaced' = {}

(* ApplyAll takes the lock and lists the leftovers; a set with a dry option *)
(* skips recovery.                                                          *)
StartRun(r) ==
  /\ pc = "idle"
  /\ names' = r.names /\ dry' = r.dry
  /\ pc' = IF r.dry = {} THEN "recover" ELSE "check"
  /\ glob' = [b \in Binaries |-> IF r.dry = {} /\ b \in r.names THEN leftover[b] ELSE {}]
  /\ todo' = IF r.dry = {} THEN r.names ELSE {}
  /\ returned' = "none"
  /\ UNCHANGED <<disk, first, plan, candidates, cur, backup, replaced,
                 promised, faults, kills>>

(* Every error return runs the deferred cleanup of the staged candidates. *)
ReturnError == /\ pc' = "cleanup"
               /\ returned' = "error"

-----------------------------------------------------------------------------
(* recoverInterruptedInstall: one option after the other, each with its *)
(* backups and then its candidates.                                     *)

Recovering(b) == /\ pc = "recover" /\ b \in todo
                 /\ cur \in {b, NoBinary}

Handled(b, f) == /\ glob' = [glob EXCEPT ![b] = @ \ {f}]
                 /\ first' = first \cup {b}
                 /\ UNCHANGED todo

\* A backup of a committed install, an extra one, or one of a binary never
\* replaced is removed; a failed removal is ignored.
DiscardLeftover(b, f) ==
  /\ Recovering(b) /\ cur' = b /\ f \in glob[b]
  /\ Committed \/ b \in first \/ f.inode = "shared"
  /\ Handled(b, f)
  /\ \/ /\ leftover' = [leftover EXCEPT ![b] = @ \ {f}]
        /\ UNCHANGED faults
     \/ /\ Fails("remove")
        /\ UNCHANGED leftover
  /\ UNCHANGED <<installed, litter, marker, pc, request, plan, candidates,
                 backup, replaced, promised, returned, kills>>

\* Mutant: the marker is not read.
RestoreCommitted(b, f) ==
  /\ Recovering(b) /\ cur' = b /\ f \in glob[b]
  /\ b \notin first /\ f.inode = "own"
  /\ \/ /\ installed' = [installed EXCEPT ![b] = f.ver]
        /\ leftover' = [leftover EXCEPT ![b] = Unlinked(@ \ {f})]
        /\ glob' = [glob EXCEPT ![b] = Unlinked(@ \ {f})]
        /\ first' = first \cup {b}
        /\ UNCHANGED <<pc, todo, returned, faults>>
     \/ /\ Fails("restore") /\ ReturnError
        /\ UNCHANGED <<installed, leftover, listing>>
  /\ UNCHANGED <<litter, marker, request, plan, candidates, backup, replaced,
                 promised, kills>>

RestoreLeftover(b, f) ==
  /\ Recovering(b) /\ cur' = b /\ f \in glob[b]
  /\ ~Committed /\ b \notin first /\ f.inode = "own"
  /\ \/ /\ installed' = [installed EXCEPT ![b] = f.ver]
        /\ leftover' = [leftover EXCEPT ![b] = Unlinked(@ \ {f})]
        /\ glob' = [glob EXCEPT ![b] = Unlinked(@ \ {f})]
        /\ first' = first \cup {b}
        /\ UNCHANGED <<pc, todo, returned, faults>>
     \/ /\ Fails("restore") /\ ReturnError
        /\ UNCHANGED <<installed, leftover, listing>>
  /\ UNCHANGED <<litter, marker, request, plan, candidates, backup, replaced,
                 promised, kills>>

Swept(b) == /\ Recovering(b) /\ glob[b] = {}
            /\ todo' = todo \ {b} /\ cur' = NoBinary
            /\ pc' = IF todo = {b} THEN "recovered" ELSE "recover"

\* Mutant: leftover candidates are never removed.
SweepNothing(b) ==
  /\ Swept(b)
  /\ UNCHANGED <<disk, request, glob, first, plan, candidates, backup, replaced, history>>

SweepCandidates(b) ==
  /\ Swept(b)
  /\ \/ litter' = litter \ {b} /\ UNCHANGED faults
     \/ b \in litter /\ Fails("remove") /\ UNCHANGED litter
  /\ UNCHANGED <<installed, leftover, marker, request, glob, first, plan, candidates,
                 backup, replaced, promised, returned, kills>>

ClearOldMarker ==
  /\ pc = "recovered"
  /\ \/ /\ marker' = "absent" /\ pc' = "check"
        /\ UNCHANGED <<returned, faults>>
     \/ /\ Committed /\ Fails("unmark") /\ ReturnError
        /\ UNCHANGED marker
  /\ UNCHANGED <<installed, leftover, litter, request, listing, plan, candidates,
                 cur, backup, replaced, promised, kills>>

-----------------------------------------------------------------------------
(* applySet: the checks and the staging *)

CheckFailed ==
  /\ pc = "check" /\ ReturnError
  /\ UNCHANGED <<disk, request, listing, plan, candidates, cur, backup, replaced,
                 promised, faults, kills>>

CheckCurrent ==
  /\ pc = "check"
  /\ pc' = "cleanup" /\ returned' = "current"
  /\ UNCHANGED <<disk, request, listing, plan, candidates, cur, backup, replaced,
                 promised, faults, kills>>

CheckAvailable(U, t) ==
  /\ pc = "check" /\ U \subseteq names
  /\ targets' = U /\ tag' = t /\ pc' = "stage"
  /\ UNCHANGED <<disk, request, listing, candidates, cur, backup, replaced, history>>

\* The archive of b was downloaded and verified; its binary is written as a
\* hidden file, in the install directory or, for a dry option, elsewhere.
Stage(b) ==
  /\ pc = "stage" /\ b \in targets \ staged
  /\ staged' = staged \cup {b} /\ cur' = b /\ pc' = "validate"
  /\ UNCHANGED <<disk, request, listing, plan, valid, backup, replaced, history>>

\* Mutant: a target that cannot be staged is skipped.
StageOneRejected ==
  /\ pc = "stage" /\ targets \ staged # {} /\ staged # {} /\ ToInstall # {}
  /\ pc' = "backup"
  /\ UNCHANGED <<disk, request, listing, plan, candidates, cur, backup, replaced, history>>

StageFailed ==
  /\ pc = "stage" /\ targets \ staged # {} /\ ReturnError
  /\ UNCHANGED <<disk, request, listing, plan, candidates, cur, backup, replaced,
                 promised, faults, kills>>

Validated ==
  /\ pc = "validate"
  /\ valid' = valid \cup {cur} /\ cur' = NoBinary /\ pc' = "stage"
  /\ UNCHANGED <<disk, request, listing, plan, staged, backup, replaced, history>>

Rejected ==
  /\ pc = "validate"
  /\ staged' = staged \ {cur} /\ cur' = NoBinary /\ ReturnError
  /\ UNCHANGED <<disk, request, listing, plan, valid, backup, replaced,
                 promised, faults, kills>>

AllStaged ==
  /\ pc = "stage" /\ targets \subseteq staged
  /\ IF ToInstall = {}
       THEN pc' = "cleanup" /\ returned' = "dry"
       ELSE pc' = "backup" /\ UNCHANGED returned
  /\ UNCHANGED <<disk, request, listing, plan, candidates, cur, backup, replaced,
                 promised, faults, kills>>

-----------------------------------------------------------------------------
(* installCandidates: backupInstalledBinary, then the rename *)

Backup(f) == backup' = [backup EXCEPT ![cur] = f]

\* Nothing is installed at the path: no backup.
BackupNone(b) ==
  /\ pc = "backup" /\ b \in ToInstall \ replaced /\ installed[b] = Absent
  /\ cur' = b /\ pc' = "rename"
  /\ UNCHANGED <<disk, request, listing, plan, candidates, backup, replaced, history>>

\* os.CreateTemp makes an empty file to reserve the name of the backup.
BackupReserve(b) ==
  /\ pc = "backup" /\ b \in ToInstall \ replaced /\ installed[b] # Absent
  /\ cur' = b
  /\ \/ /\ backup' = [backup EXCEPT ![b] = [ver |-> Partial, inode |-> "own"]]
        /\ pc' = "reserved" /\ UNCHANGED <<returned, faults>>
     \/ /\ Fails("reserve") /\ pc' = "restore" /\ returned' = "error"
        /\ UNCHANGED backup
  /\ UNCHANGED <<disk, request, listing, plan, candidates, replaced, promised, kills>>

\* The reserved file is removed again; a failure is ignored, and the link and
\* the copy then refuse the existing name.
BackupUnreserve ==
  /\ pc = "reserved" /\ pc' = "link"
  /\ \/ Backup(NoFile) /\ UNCHANGED faults
     \/ Fails("unreserve") /\ UNCHANGED backup
  /\ UNCHANGED <<disk, request, listing, plan, candidates, cur, replaced, promised,
                 returned, kills>>

\* os.Link, or os.Symlink for an installed symlink.
BackupLink ==
  /\ pc = "link" /\ backup[cur] = NoFile
  /\ Backup([ver |-> installed[cur], inode |-> "shared"])
  /\ pc' = "rename"
  /\ UNCHANGED <<disk, request, listing, plan, candidates, cur, replaced, history>>

BackupCopyStart ==
  /\ pc = "link" /\ backup[cur] = NoFile /\ Fails("link")
  /\ Backup([ver |-> Partial, inode |-> "own"])
  /\ pc' = "copying"
  /\ UNCHANGED <<disk, request, listing, plan, candidates, cur, replaced, promised,
                 returned, kills>>

BackupCopyDone ==
  /\ pc = "copying"
  /\ Backup([ver |-> installed[cur], inode |-> "own"])
  /\ pc' = "rename"
  /\ UNCHANGED <<disk, request, listing, plan, candidates, cur, replaced, history>>

\* The copy failed, or its name was taken; removing the file may fail as well,
\* which is ignored.
DiscardOwnBackup ==
  /\ Backup(NoFile)
  /\ \/ UNCHANGED leftover
     \/ /\ "discard" \in Faults
        /\ leftover' = [leftover EXCEPT ![cur] = @ \cup ({backup[cur]} \ {NoFile})]

\* Mutant: the replaced binaries are not restored.
BackupFailedNoRestore ==
  /\ \/ pc = "copying" /\ Fails("copy")
     \/ pc = "link" /\ backup[cur] # NoFile /\ UNCHANGED faults
  /\ DiscardOwnBackup /\ pc' = "cleanup" /\ returned' = "error"
  /\ UNCHANGED <<installed, litter, marker, request, listing, plan, candidates, cur,
                 replaced, promised, kills>>

BackupFailed ==
  /\ \/ pc = "copying" /\ Fails("copy")
     \/ pc = "link" /\ backup[cur] # NoFile /\ UNCHANGED faults
  /\ DiscardOwnBackup /\ pc' = "restore" /\ returned' = "error"
  /\ UNCHANGED <<installed, litter, marker, request, listing, plan, candidates, cur,
                 replaced, promised, kills>>

\* An installed symlink that cannot be read or made again: what was reserved stays.
BackupSymlinkFailed ==
  /\ pc = "link"
  /\ \/ Fails("symlink")
     \/ "symlink" \in Faults /\ backup[cur] # NoFile /\ UNCHANGED faults
  /\ leftover' = [leftover EXCEPT ![cur] = @ \cup ({backup[cur]} \ {NoFile})]
  /\ Backup(NoFile) /\ pc' = "restore" /\ returned' = "error"
  /\ UNCHANGED <<installed, litter, marker, request, listing, plan, candidates, cur,
                 replaced, promised, kills>>

\* Mutant: the current binary is not reset.
RenameKeepsCur ==
  /\ pc = "rename"
  /\ installed' = [installed EXCEPT ![cur] = tag]
  /\ leftover' = [leftover EXCEPT ![cur] = Unlinked(@)]
  /\ Backup(IF backup[cur] = NoFile THEN NoFile ELSE [backup[cur] EXCEPT !.inode = "own"])
  /\ staged' = staged \ {cur} /\ replaced' = replaced \cup {cur} /\ cur' = cur
  /\ pc' = IF ToInstall \subseteq replaced \cup {cur} THEN "mark" ELSE "backup"
  /\ UNCHANGED <<litter, marker, request, listing, plan, valid, history>>

\* Mutant: the marker is written after each binary.
RenameMarksEach ==
  /\ pc = "rename"
  /\ installed' = [installed EXCEPT ![cur] = tag]
  /\ leftover' = [leftover EXCEPT ![cur] = Unlinked(@)]
  /\ Backup(IF backup[cur] = NoFile THEN NoFile ELSE [backup[cur] EXCEPT !.inode = "own"])
  /\ staged' = staged \ {cur} /\ replaced' = replaced \cup {cur} /\ cur' = NoBinary
  /\ pc' = "mark"
  /\ UNCHANGED <<litter, marker, request, listing, plan, valid, history>>

\* installCandidate: one rename replaces the binary.
Rename ==
  /\ pc = "rename"
  /\ installed' = [installed EXCEPT ![cur] = tag]
  /\ leftover' = [leftover EXCEPT ![cur] = Unlinked(@)]
  /\ Backup(IF backup[cur] = NoFile THEN NoFile ELSE [backup[cur] EXCEPT !.inode = "own"])
  /\ staged' = staged \ {cur} /\ replaced' = replaced \cup {cur} /\ cur' = NoBinary
  /\ pc' = IF ToInstall \subseteq replaced \cup {cur} THEN "mark" ELSE "backup"
  /\ UNCHANGED <<litter, marker, request, listing, plan, valid, history>>

\* Mutant: the replaced binaries are not restored.
RenameFailedNoRestore ==
  /\ pc = "rename" /\ Fails("rename")
  /\ DiscardOwnBackup
  /\ pc' = "cleanup" /\ returned' = "error"
  /\ UNCHANGED <<installed, litter, marker, request, listing, plan, candidates, cur, replaced, promised, kills>>

\* A refused rename removes its own backup (a failure is ignored) and restores.
RenameFailed ==
  /\ pc = "rename" /\ Fails("rename")
  /\ DiscardOwnBackup
  /\ pc' = "restore" /\ returned' = "error"
  /\ UNCHANGED <<installed, litter, marker, request, listing, plan, candidates, cur, replaced, promised, kills>>

\* restore: one rename (or removal) per replaced binary; failures are joined
\* and the loop goes on.
Restore(b) ==
  /\ pc = "restore" /\ b \in replaced
  /\ replaced' = replaced \ {b} /\ backup' = [backup EXCEPT ![b] = NoFile]
  /\ \/ /\ installed' = [installed EXCEPT ![b] =
                           IF backup[b] = NoFile THEN Absent ELSE backup[b].ver]
        /\ UNCHANGED <<leftover, faults>>
     \/ /\ Fails("restore")
        /\ leftover' = [leftover EXCEPT ![b] = @ \cup ({backup[b]} \ {NoFile})]
        /\ UNCHANGED installed
  /\ UNCHANGED <<litter, marker, pc, request, listing, plan, candidates, cur,
                 promised, returned, kills>>

Restored ==
  /\ pc = "restore" /\ replaced = {} /\ pc' = "cleanup"
  /\ UNCHANGED <<disk, request, listing, plan, candidates, cur, backup, replaced, history>>

\* Mutant: the backups are removed and only then the marker is written.
WriteMarkerEarlyDrop ==
  /\ pc = "mark"
  /\ UNCHANGED <<marker, promised>> /\ pc' = "drop"
  /\ UNCHANGED <<installed, leftover, litter, request, listing, plan, candidates,
                 cur, backup, replaced, returned, faults, kills>>

\* The commit point.
WriteMarker ==
  /\ pc = "mark"
  /\ marker' = "present" /\ promised' = installed /\ pc' = "drop"
  /\ UNCHANGED <<installed, leftover, litter, request, listing, plan, candidates,
                 cur, backup, replaced, returned, faults, kills>>

\* os.WriteFile failed, before or after it created the file ("torn_mark").
MarkerFailed ==
  /\ pc = "mark"
  /\ \/ Fails("mark") /\ UNCHANGED marker
     \/ Fails("torn_mark") /\ marker' = "present"
  /\ pc' = "restore" /\ returned' = "error"
  /\ UNCHANGED <<installed, leftover, litter, request, listing, plan, candidates,
                 cur, backup, replaced, promised, kills>>

\* Each backup is removed; a failure is ignored and leaves the file behind.
DropBackup(b) ==
  /\ pc = "drop" /\ backup[b] # NoFile
  /\ backup' = [backup EXCEPT ![b] = NoFile]
  /\ \/ UNCHANGED <<leftover, faults>>
     \/ /\ Fails("drop")
        /\ leftover' = [leftover EXCEPT ![b] = @ \cup {backup[b]}]
  /\ UNCHANGED <<installed, litter, marker, pc, request, listing, plan, candidates,
                 cur, replaced, promised, returned, kills>>

BackupsDropped ==
  /\ pc = "drop" /\ backup = NoBackups /\ pc' = "unmark"
  /\ UNCHANGED <<disk, request, listing, plan, candidates, cur, backup, replaced, history>>

\* Saving the state of the finished set may still fail and return an error.
Unmark ==
  /\ pc = "unmark" /\ pc' = "cleanup"
  /\ \/ marker' = "absent" /\ returned' \in {"ok", "error"} /\ UNCHANGED faults
     \/ Fails("unmark") /\ returned' = "error" /\ UNCHANGED marker
  /\ UNCHANGED <<installed, leftover, litter, request, listing, plan, candidates,
                 cur, backup, replaced, promised, kills>>

\* The deferred cleanup removes what is left of the staged candidates.
Finish ==
  /\ pc = "cleanup" /\ Forget
  /\ UNCHANGED <<disk, history>>

\* A kill loses the memory; backups and candidates stay where they are.
Kill ==
  /\ pc \in KillPoints /\ kills < MaxKills
  /\ kills' = kills + 1 /\ returned' = "killed"
  /\ leftover' = [b \in Binaries |-> leftover[b] \cup ({backup[b]} \ {NoFile})]
  /\ litter' = litter \cup (staged \ dry)
  /\ Forget
  /\ UNCHANGED <<installed, marker, promised, faults>>

-----------------------------------------------------------------------------
Recover == \/ \E b \in Binaries : \E f \in glob[b] : DiscardLeftover(b, f) \/ RestoreLeftover(b, f)
           \/ (\E b \in Binaries : SweepCandidates(b)) \/ ClearOldMarker
Check == \/ CheckFailed \/ CheckCurrent
         \/ \E U \in (SUBSET Binaries) \ {{}}, t \in Tags : CheckAvailable(U, t)
StageAll == (\E b \in Binaries : Stage(b)) \/ StageFailed \/ Validated \/ Rejected \/ AllStaged
TakeBackup == \/ \E b \in Binaries : BackupNone(b) \/ BackupReserve(b)
              \/ BackupUnreserve \/ BackupLink \/ BackupCopyStart \/ BackupCopyDone \/ BackupFailed
              \/ BackupSymlinkFailed
Replace == Rename \/ RenameFailed \/ Restored \/ \E b \in Binaries : Restore(b)
CommitSet == WriteMarker \/ MarkerFailed \/ BackupsDropped \/ Unmark \/ \E b \in Binaries : DropBackup(b)

Step == Recover \/ Check \/ StageAll \/ TakeBackup \/ Replace \/ CommitSet \/ Finish

Next == (\E r \in Requests : StartRun(r)) \/ Step \/ Kill

Spec == Init /\ [][Next]_vars

\* The service manager starts the daemon again and its interval loop finds the lock free again
\* and again, whatever dry runs take it in between; a run that is not killed takes its next step.
Fairness == /\ WF_vars(Step)
            /\ SF_vars(\E r \in Requests : r.dry = {} /\ StartRun(r))
FairSpec == Spec /\ Fairness

-----------------------------------------------------------------------------
(* Properties *)

AtOneBinary == {"validate", "reserved", "link", "copying", "rename"}
BetweenBinaries == {"idle", "recovered", "check", "stage", "backup",
                    "mark", "drop", "unmark"}

\* Type invariant of the disk, the process memory and the history.
TypeOK ==
  /\ installed \in [Binaries -> Version]
  /\ leftover \in [Binaries -> SUBSET File]
  /\ litter \subseteq Binaries /\ marker \in {"absent", "present"}
  /\ pc \in Points \cup {"idle"}
  /\ names \subseteq Binaries /\ dry \subseteq Binaries
  /\ glob \in [Binaries -> SUBSET File] /\ first \subseteq Binaries
  /\ todo \subseteq Binaries
  /\ targets \subseteq Binaries /\ tag \in Tags
  /\ staged \subseteq Binaries /\ valid \subseteq Binaries
  /\ cur \in Binaries \cup {NoBinary}
  /\ pc \in AtOneBinary => cur \in Binaries
  /\ pc \in BetweenBinaries => cur = NoBinary
  /\ backup \in [Binaries -> File \cup {NoFile}]
  /\ replaced \subseteq Binaries
  /\ promised \in [Binaries -> Version]
  /\ returned \in {"none", "ok", "current", "dry", "error", "killed"}
  /\ faults \in Nat /\ kills \in Nat

\* What a recovery may leave at the path of b if it finds the files S beside it: it renames the
\* first it lists over the path, an empty one as well, or removes it if the path has the same file.
Outcomes(b, S) ==
  IF Committed \/ S = {}
    THEN {installed[b]}
    ELSE {IF f.inode = "shared" THEN installed[b] ELSE f.ver : f \in S}

\* The backup under way is a reserved empty file or a half-written copy.
BackupHalfMade == \E b \in Binaries : backup[b] # NoFile /\ backup[b].ver = Partial

\* Whenever no backup is half made the disk holds enough to end with the promised set: a kill
\* then leaves nothing that recovery cannot undo or complete, whichever file it lists first.
Recoverable ==
  ~BackupHalfMade =>
    \A b \in Binaries : Outcomes(b, leftover[b] \cup ({backup[b]} \ {NoFile})) = {promised[b]}

\* "A kill before the marker ends with the set of binaries installed before that
\* update, and a kill after it ends with the new set": once the recovery of a
\* later run is over, the installed set is the promised one.
RecoveredSet == pc \in {"check", "stage", "validate"} /\ dry = {}
                  => installed = promised

\* A run that returned, with success or an error, left the old set or the new
\* one: a failed backup, rename or marker write is rolled back.
ReturnedRunIsWhole == pc = "idle" /\ returned \in {"ok", "current", "error"}
                        => installed = promised

\* "ApplyAll validates every candidate before it replaces any installed binary":
\* no rename of a release happens while some target is not yet validated.
ValidatedBeforeRename == [][pc = "rename" /\ installed' # installed
                              => targets \subseteq valid]_vars

\* After a kill the runs that follow end with no backup, candidate or marker
\* left of the interrupted one.
Settled == /\ pc = "idle" /\ returned # "killed" /\ ~Committed
           /\ leftover = NoFiles /\ litter = {}
EventuallySettled == returned = "killed" ~> Settled

\* The version of b its callers can count on: what a recovery leaves by the files of earlier runs
\* and the backup of this one, when that is complete.
Effective(b) ==
  CHOOSE v \in Outcomes(b, leftover[b] \cup {f \in {backup[b]} \ {NoFile} : f.ver # Partial}) : TRUE

\* The updates of AtomicInstall: the one under way is dropped by an error, a
\* kill or a restore, and takes effect when the marker is written.
Installing == pc \in {"stage", "validate", "backup", "reserved", "link", "copying",
                      "rename", "mark"}
NoUpdate == [targets |-> {}, tag |-> NoTag]
Atomic == INSTANCE AtomicInstall WITH
  current <- [b \in Binaries |-> Effective(b)],
  pending <- IF Installing /\ ToInstall # {}
               THEN [targets |-> ToInstall, tag |-> tag]
               ELSE NoUpdate

\* The install as its callers see it: all binaries of an update change at once.
AtomicSpec == Atomic!ASpec

-----------------------------------------------------------------------------
(* The inductive invariant behind RecoveredSet, in an environment where the  *)
(* promise of ApplyAll holds: every binary was installed before, every run   *)
(* names all of them, no removal that recovery relies on fails, neither a    *)
(* kill nor a refused removal leaves a backup that is an empty or            *)
(* half-written file, and a restore under a torn marker comes to its end.    *)

SafeEnv ==
  /\ Faults \cap {"remove", "drop"} = {}
  /\ KillPoints \cap {"reserved", "copying"} = {}
  /\ "unreserve" \in Faults => "link" \notin KillPoints /\ "symlink" \notin Faults
  /\ "discard" \in Faults => Faults \cap {"copy", "unreserve"} = {}
  /\ "torn_mark" \in Faults => "restore" \notin KillPoints \cup Faults
  /\ MayBeAbsent = {}
  /\ \A r \in Requests : r.names = Binaries /\ r.dry \in {{}, Binaries}

\* While binaries are restored under a torn marker, a kill would keep the mix.
MarkersAreWhole == "torn_mark" \notin Faults
AtomicEnv == SafeEnv /\ MarkersAreWhole

InstallPoints == {"backup", "reserved", "link", "copying", "rename", "mark"}
StagePoints == {"check", "stage", "validate"}

\* A run recovers, checks and installs all binaries, or it is wholly dry.
WholeRuns ==
  /\ pc # "idle" => names = Binaries
  /\ dry \in {{}, Binaries}
  /\ pc \in {"recover", "recovered", "drop", "unmark", "restore"} \cup InstallPoints => dry = {}
  /\ pc = "idle" => dry = {}
  /\ replaced \subseteq ToInstall
  /\ pc \in AtOneBinary \ {"validate"} => cur \in ToInstall \ replaced

\* Only what this run replaced, or is about to, has a backup, and it is complete.
BackupsOfThisRun ==
  /\ replaced # {} => pc \in {"drop", "unmark", "restore", "cleanup"} \cup InstallPoints
  /\ \A b \in Binaries :
       /\ backup[b] # NoFile =>
            \/ pc \in {"drop", "restore"} \cup InstallPoints /\ b \in replaced
            \/ pc \in {"reserved", "link", "copying", "rename"} /\ b = cur
       /\ b \in replaced /\ pc \in {"restore"} \cup InstallPoints =>
            backup[b] = [ver |-> promised[b], inode |-> "own"]
       /\ pc = "rename" /\ b = cur => backup[b] # NoFile /\ backup[b].ver = promised[b]
       /\ backup[b] # NoFile /\ backup[b].inode = "shared" => backup[b].ver = installed[b]
  /\ pc = "link" /\ backup[cur] # NoFile => "unreserve" \in Faults /\ backup[cur].ver = Partial
  /\ pc \in {"reserved", "copying"} => backup[cur].ver = Partial

\* What a recovery finds leads to the promised set.
LeftoversHelp ==
  \A b \in Binaries :
    /\ installed[b] \in Tags /\ promised[b] \in Tags
    /\ \A f \in leftover[b] : f.inode = "shared" => f.ver = installed[b]
    /\ Committed /\ installed[b] # promised[b] =>
         "torn_mark" \in Faults /\ b \in replaced /\ pc = "restore"
    /\ ~Committed => /\ \A f \in leftover[b] : f.ver = promised[b]
                     /\ installed[b] # promised[b] =>
                          \/ b \in replaced /\ pc \in {"restore"} \cup InstallPoints
                          \/ \E f \in leftover[b] : f.inode = "own"

\* Where recovery stands, and that it is over before anything is installed.
RecoveryFirst ==
  /\ pc = "idle" => first = {}
  /\ pc = "recover" => /\ glob = leftover /\ names = Binaries
                       /\ \A b \in Binaries \ todo : glob[b] = {}
                       /\ \A b \in first : Committed \/ installed[b] = promised[b]
  /\ pc \in {"recovered", "drop", "unmark"} \cup StagePoints \cup InstallPoints /\ dry = {}
       => leftover = NoFiles
  /\ pc \in StagePoints \cup InstallPoints /\ dry = {} => ~Committed
  /\ pc = "restore" /\ Committed => "torn_mark" \in Faults /\ leftover = NoFiles
  /\ pc \in {"drop", "unmark"} => Committed

\* During the renames exactly the replaced binaries are the new release.
OneRelease ==
  /\ pc \in InstallPoints =>
       \A b \in Binaries : installed[b] = IF b \in replaced THEN tag ELSE promised[b]
  /\ pc = "mark" => replaced = ToInstall

\* Candidates are staged one by one, each validated before the next.
ValidatedFirst ==
  /\ pc \in {"idle", "recover", "recovered", "check"} => staged = {}
  /\ pc = "stage" => staged \subseteq valid
  /\ pc = "validate" => staged \ {cur} \subseteq valid
  /\ pc \in InstallPoints => targets \subseteq valid

IInv == TypeOK /\ ValidatedFirst /\ WholeRuns /\ BackupsOfThisRun /\ LeftoversHelp /\ RecoveryFirst /\ OneRelease
=============================================================================
