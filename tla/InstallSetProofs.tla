-------------------------- MODULE InstallSetProofs --------------------------
(* Theorems about InstallSet, for any binaries, releases and requests. *)
EXTENDS InstallSet, TLAPS

USE ConstantsAssumption

(* The type invariant holds initially. *)
LEMMA TypeInit == Init => TypeOK
  <1> SUFFICES ASSUME Init PROVE TypeOK
    OBVIOUS
  <1>1. NoTag \in Tags
    BY DEF NoTag
  <1> QED
    BY <1>1 DEF Init, TypeOK, NoFiles, NoBackups, Version, File, Points, ToInstall,
                AtOneBinary, BetweenBinaries

(* Every step of the install keeps the types. *)
LEMMA TypeStep == TypeOK /\ [Next]_vars => TypeOK'
  <1> SUFFICES ASSUME TypeOK, [Next]_vars PROVE TypeOK'
    OBVIOUS
  <1> USE DEF TypeOK, Version, File, Points, ToInstall, AtOneBinary, BetweenBinaries, Fails, Backup,
              disk, request, listing, plan, candidates, history
  <1>1. ASSUME NEW r \in Requests, StartRun(r) PROVE TypeOK'
    BY <1>1 DEF StartRun
  <1>2. ASSUME NEW b \in Binaries, NEW f \in glob[b], DiscardLeftover(b, f) PROVE TypeOK'
    BY <1>2 DEF DiscardLeftover, Recovering, Handled
  <1>3. ASSUME NEW b \in Binaries, NEW f \in glob[b], RestoreLeftover(b, f) PROVE TypeOK'
    BY <1>3 DEF RestoreLeftover, Recovering, ReturnError, Unlinked
  <1>4. ASSUME NEW b \in Binaries, SweepCandidates(b) PROVE TypeOK'
    BY <1>4 DEF SweepCandidates, Swept, Recovering
  <1>5. CASE ClearOldMarker
    BY <1>5 DEF ClearOldMarker, ReturnError
  <1>6. CASE CheckFailed
    BY <1>6 DEF CheckFailed, ReturnError
  <1>7. CASE CheckCurrent
    BY <1>7 DEF CheckCurrent
  <1>8. ASSUME NEW U \in (SUBSET Binaries) \ {{}}, NEW t \in Tags, CheckAvailable(U, t) PROVE TypeOK'
    BY <1>8 DEF CheckAvailable
  <1>9. ASSUME NEW b \in Binaries, Stage(b) PROVE TypeOK'
    BY <1>9 DEF Stage
  <1>10. CASE StageFailed
    BY <1>10 DEF StageFailed, ReturnError
  <1>11. CASE Validated
    BY <1>11 DEF Validated
  <1>12. CASE Rejected
    BY <1>12 DEF Rejected, ReturnError
  <1>13. CASE AllStaged
    BY <1>13 DEF AllStaged
  <1>14. ASSUME NEW b \in Binaries, BackupNone(b) PROVE TypeOK'
    BY <1>14 DEF BackupNone
  <1>15. ASSUME NEW b \in Binaries, BackupReserve(b) PROVE TypeOK'
    BY <1>15 DEF BackupReserve
  <1>16. CASE BackupUnreserve
    BY <1>16 DEF BackupUnreserve
  <1>17. CASE BackupLink
    BY <1>17 DEF BackupLink
  <1>18. CASE BackupCopyStart
    BY <1>18 DEF BackupCopyStart
  <1>19. CASE BackupCopyDone
    BY <1>19 DEF BackupCopyDone
  <1>20. CASE BackupFailed
    BY <1>20 DEF BackupFailed, ReturnError, DiscardOwnBackup
  <1>33. CASE BackupSymlinkFailed
    BY <1>33 DEF BackupSymlinkFailed, Fails, Backup
  <1>21. CASE Rename
    BY <1>21 DEF Rename, Unlinked
  <1>22. CASE RenameFailed
    BY <1>22 DEF RenameFailed, DiscardOwnBackup
  <1>23. CASE Restored
    BY <1>23 DEF Restored
  <1>24. ASSUME NEW b \in Binaries, Restore(b) PROVE TypeOK'
    BY <1>24 DEF Restore
  <1>25. CASE WriteMarker
    BY <1>25 DEF WriteMarker
  <1>26. CASE MarkerFailed
    BY <1>26 DEF MarkerFailed
  <1>27. CASE BackupsDropped
    BY <1>27 DEF BackupsDropped
  <1>28. CASE Unmark
    BY <1>28 DEF Unmark
  <1>29. ASSUME NEW b \in Binaries, DropBackup(b) PROVE TypeOK'
    BY <1>29 DEF DropBackup
  <1>30. CASE Finish
    BY <1>30 DEF Finish, Forget, NoFiles, NoBackups, NoTag
  <1>31. CASE Kill
    BY <1>31 DEF Kill, Forget, NoFiles, NoBackups, NoTag
  <1>32. CASE UNCHANGED vars
    BY <1>32 DEF vars
  <1> QED
    BY <1>1, <1>2, <1>3, <1>4, <1>5, <1>6, <1>7, <1>8, <1>9, <1>10, <1>11, <1>12, <1>13, <1>14, <1>15, <1>16, <1>17, <1>18, <1>19, <1>20, <1>21, <1>22, <1>23, <1>24, <1>25, <1>26, <1>27, <1>28, <1>29, <1>30, <1>31, <1>32, <1>33
    DEF Recover, Check, StageAll, TakeBackup, Replace, CommitSet, Step, Next

(* Every reachable state of the disk and of the process has its type. *)
THEOREM TypeCorrect == Spec => []TypeOK
  BY TypeInit, TypeStep, PTL DEF Spec
(* A candidate is validated before the next one is staged. *)
LEMMA ValidatedStep == TypeOK /\ ValidatedFirst /\ [Next]_vars => ValidatedFirst'
  <1> SUFFICES ASSUME TypeOK, ValidatedFirst, [Next]_vars PROVE ValidatedFirst'
    OBVIOUS
  <1> USE DEF TypeOK, ValidatedFirst, InstallPoints, BetweenBinaries, AtOneBinary,
              disk, request, listing, plan, candidates, history
  <1>1. ASSUME NEW r \in Requests, StartRun(r) PROVE ValidatedFirst'
    BY <1>1 DEF StartRun
  <1>2. ASSUME NEW b \in Binaries, NEW f \in glob[b], DiscardLeftover(b, f) PROVE ValidatedFirst'
    BY <1>2 DEF DiscardLeftover, Recovering, Handled, Fails
  <1>3. ASSUME NEW b \in Binaries, NEW f \in glob[b], RestoreLeftover(b, f) PROVE ValidatedFirst'
    BY <1>3 DEF RestoreLeftover, Recovering, ReturnError, Fails, Unlinked
  <1>4. ASSUME NEW b \in Binaries, SweepCandidates(b) PROVE ValidatedFirst'
    BY <1>4 DEF SweepCandidates, Swept, Recovering, Fails
  <1>5. CASE ClearOldMarker
    BY <1>5 DEF ClearOldMarker, ReturnError, Fails
  <1>6. CASE CheckFailed
    BY <1>6 DEF CheckFailed, ReturnError
  <1>7. CASE CheckCurrent
    BY <1>7 DEF CheckCurrent
  <1>8. ASSUME NEW U \in (SUBSET Binaries) \ {{}}, NEW t \in Tags, CheckAvailable(U, t) PROVE ValidatedFirst'
    BY <1>8 DEF CheckAvailable
  <1>9. ASSUME NEW b \in Binaries, Stage(b) PROVE ValidatedFirst'
    BY <1>9 DEF Stage
  <1>10. CASE StageFailed
    BY <1>10 DEF StageFailed, ReturnError
  <1>11. CASE Validated
    BY <1>11 DEF Validated
  <1>12. CASE Rejected
    BY <1>12 DEF Rejected, ReturnError
  <1>13. CASE AllStaged
    BY <1>13 DEF AllStaged
  <1>14. ASSUME NEW b \in Binaries, BackupNone(b) PROVE ValidatedFirst'
    BY <1>14 DEF BackupNone
  <1>15. ASSUME NEW b \in Binaries, BackupReserve(b) PROVE ValidatedFirst'
    BY <1>15 DEF BackupReserve, Fails
  <1>16. CASE BackupUnreserve
    BY <1>16 DEF BackupUnreserve, Fails, Backup
  <1>17. CASE BackupLink
    BY <1>17 DEF BackupLink, Backup
  <1>18. CASE BackupCopyStart
    BY <1>18 DEF BackupCopyStart, Fails, Backup
  <1>19. CASE BackupCopyDone
    BY <1>19 DEF BackupCopyDone, Backup
  <1>20. CASE BackupFailed
    BY <1>20 DEF BackupFailed, ReturnError, Fails, Backup, DiscardOwnBackup
  <1>33. CASE BackupSymlinkFailed
    BY <1>33 DEF BackupSymlinkFailed, Fails, Backup
  <1>21. CASE Rename
    BY <1>21 DEF Rename, Backup, Unlinked
  <1>22. CASE RenameFailed
    BY <1>22 DEF RenameFailed, Fails, Backup, DiscardOwnBackup
  <1>23. CASE Restored
    BY <1>23 DEF Restored
  <1>24. ASSUME NEW b \in Binaries, Restore(b) PROVE ValidatedFirst'
    BY <1>24 DEF Restore, Fails
  <1>25. CASE WriteMarker
    BY <1>25 DEF WriteMarker
  <1>26. CASE MarkerFailed
    BY <1>26 DEF MarkerFailed, Fails
  <1>27. CASE BackupsDropped
    BY <1>27 DEF BackupsDropped
  <1>28. CASE Unmark
    BY <1>28 DEF Unmark, Fails
  <1>29. ASSUME NEW b \in Binaries, DropBackup(b) PROVE ValidatedFirst'
    BY <1>29 DEF DropBackup, Fails
  <1>30. CASE Finish
    BY <1>30 DEF Finish, Forget, NoFiles, NoBackups, NoTag
  <1>31. CASE Kill
    BY <1>31 DEF Kill, Forget, NoFiles, NoBackups, NoTag
  <1>32. CASE UNCHANGED vars
    BY <1>32 DEF vars
  <1> QED
    BY <1>1, <1>2, <1>3, <1>4, <1>5, <1>6, <1>7, <1>8, <1>9, <1>10, <1>11, <1>12, <1>13, <1>14, <1>15, <1>16, <1>17, <1>18, <1>19, <1>20, <1>21, <1>22, <1>23, <1>24, <1>25, <1>26, <1>27, <1>28, <1>29, <1>30, <1>31, <1>32, <1>33
    DEF Recover, Check, StageAll, TakeBackup, Replace, CommitSet, Step, Next

\* A run that replaced binaries has not returned.
ReplacedByThisRun ==
  replaced # {} => pc \in {"drop", "unmark", "restore", "cleanup"} \cup InstallPoints

(* Runs stay whole: names, dry options and replaced binaries. *)
LEMMA WholeRunsStep ==
  (\A r \in Requests : r.names = Binaries /\ r.dry \in {{}, Binaries})
    /\ TypeOK /\ WholeRuns /\ ReplacedByThisRun /\ [Next]_vars => WholeRuns'
  <1> SUFFICES ASSUME \A r \in Requests : r.names = Binaries /\ r.dry \in {{}, Binaries},
                      TypeOK, WholeRuns, ReplacedByThisRun, [Next]_vars
               PROVE  WholeRuns'
    OBVIOUS
  <1> USE DEF TypeOK, WholeRuns, ReplacedByThisRun, NoFiles, NoBackups, Version, File, Points, InstallPoints, StagePoints, AtOneBinary, BetweenBinaries, ToInstall,
              disk, request, listing, plan, candidates, history
  <1>1. ASSUME NEW r \in Requests, StartRun(r) PROVE WholeRuns'
    BY <1>1 DEF StartRun
  <1>2. ASSUME NEW b \in Binaries, NEW f \in glob[b], DiscardLeftover(b, f) PROVE WholeRuns'
    BY <1>2 DEF DiscardLeftover, Recovering, Handled, Fails
  <1>3. ASSUME NEW b \in Binaries, NEW f \in glob[b], RestoreLeftover(b, f) PROVE WholeRuns'
    BY <1>3 DEF RestoreLeftover, Recovering, ReturnError, Fails, Unlinked
  <1>4. ASSUME NEW b \in Binaries, SweepCandidates(b) PROVE WholeRuns'
    BY <1>4 DEF SweepCandidates, Swept, Recovering, Fails
  <1>5. CASE ClearOldMarker
    BY <1>5 DEF ClearOldMarker, ReturnError, Fails
  <1>6. CASE CheckFailed
    BY <1>6 DEF CheckFailed, ReturnError
  <1>7. CASE CheckCurrent
    BY <1>7 DEF CheckCurrent
  <1>8. ASSUME NEW U \in (SUBSET Binaries) \ {{}}, NEW t \in Tags, CheckAvailable(U, t) PROVE WholeRuns'
    BY <1>8 DEF CheckAvailable
  <1>9. ASSUME NEW b \in Binaries, Stage(b) PROVE WholeRuns'
    BY <1>9 DEF Stage
  <1>10. CASE StageFailed
    BY <1>10 DEF StageFailed, ReturnError
  <1>11. CASE Validated
    BY <1>11 DEF Validated
  <1>12. CASE Rejected
    BY <1>12 DEF Rejected, ReturnError
  <1>13. CASE AllStaged
    BY <1>13 DEF AllStaged
  <1>14. ASSUME NEW b \in Binaries, BackupNone(b) PROVE WholeRuns'
    BY <1>14 DEF BackupNone
  <1>15. ASSUME NEW b \in Binaries, BackupReserve(b) PROVE WholeRuns'
    BY <1>15 DEF BackupReserve, Fails
  <1>16. CASE BackupUnreserve
    BY <1>16 DEF BackupUnreserve, Fails, Backup
  <1>17. CASE BackupLink
    BY <1>17 DEF BackupLink, Backup
  <1>18. CASE BackupCopyStart
    BY <1>18 DEF BackupCopyStart, Fails, Backup
  <1>19. CASE BackupCopyDone
    BY <1>19 DEF BackupCopyDone, Backup
  <1>20. CASE BackupFailed
    BY <1>20 DEF BackupFailed, ReturnError, Fails, Backup, DiscardOwnBackup
  <1>33. CASE BackupSymlinkFailed
    BY <1>33 DEF BackupSymlinkFailed, Fails, Backup
  <1>21. CASE Rename
    BY <1>21 DEF Rename, Backup, Unlinked
  <1>22. CASE RenameFailed
    BY <1>22 DEF RenameFailed, Fails, Backup, DiscardOwnBackup
  <1>23. CASE Restored
    BY <1>23 DEF Restored
  <1>24. ASSUME NEW b \in Binaries, Restore(b) PROVE WholeRuns'
    BY <1>24 DEF Restore, Fails
  <1>25. CASE WriteMarker
    BY <1>25 DEF WriteMarker
  <1>26. CASE MarkerFailed
    BY <1>26 DEF MarkerFailed, Fails
  <1>27. CASE BackupsDropped
    BY <1>27 DEF BackupsDropped
  <1>28. CASE Unmark
    BY <1>28 DEF Unmark, Fails
  <1>29. ASSUME NEW b \in Binaries, DropBackup(b) PROVE WholeRuns'
    BY <1>29 DEF DropBackup, Fails
  <1>30. CASE Finish
    BY <1>30 DEF Finish, Forget, NoTag
  <1>31. CASE Kill
    BY <1>31 DEF Kill, Forget, NoTag
  <1>32. CASE UNCHANGED vars
    BY <1>32 DEF vars
  <1> QED
    BY <1>1, <1>2, <1>3, <1>4, <1>5, <1>6, <1>7, <1>8, <1>9, <1>10, <1>11, <1>12, <1>13, <1>14, <1>15, <1>16, <1>17, <1>18, <1>19, <1>20, <1>21, <1>22, <1>23, <1>24, <1>25, <1>26, <1>27, <1>28, <1>29, <1>30, <1>31, <1>32, <1>33
    DEF Recover, Check, StageAll, TakeBackup, Replace, CommitSet, Step, Next

(* Only binaries of the run have backups, and complete ones where a kill may fall. *)
LEMMA BackupsStep == SafeEnv /\ IInv /\ [Next]_vars => BackupsOfThisRun'
  <1> SUFFICES ASSUME SafeEnv, IInv, [Next]_vars PROVE BackupsOfThisRun'
    OBVIOUS
  <1> USE DEF SafeEnv, IInv, TypeOK, WholeRuns, BackupsOfThisRun, LeftoversHelp, OneRelease, Committed, NoFiles, NoBackups, Version, File, Points, InstallPoints, StagePoints, AtOneBinary, BetweenBinaries, ToInstall,
              disk, request, listing, plan, candidates, history
  <1>1. ASSUME NEW r \in Requests, StartRun(r) PROVE BackupsOfThisRun'
    BY <1>1 DEF StartRun
  <1>2. ASSUME NEW b \in Binaries, NEW f \in glob[b], DiscardLeftover(b, f) PROVE BackupsOfThisRun'
    BY <1>2 DEF DiscardLeftover, Recovering, Handled, Fails
  <1>3. ASSUME NEW b \in Binaries, NEW f \in glob[b], RestoreLeftover(b, f) PROVE BackupsOfThisRun'
    BY <1>3 DEF RestoreLeftover, Recovering, ReturnError, Fails, Unlinked
  <1>4. ASSUME NEW b \in Binaries, SweepCandidates(b) PROVE BackupsOfThisRun'
    BY <1>4 DEF SweepCandidates, Swept, Recovering, Fails
  <1>5. CASE ClearOldMarker
    BY <1>5 DEF ClearOldMarker, ReturnError, Fails
  <1>6. CASE CheckFailed
    BY <1>6 DEF CheckFailed, ReturnError
  <1>7. CASE CheckCurrent
    BY <1>7 DEF CheckCurrent
  <1>8. ASSUME NEW U \in (SUBSET Binaries) \ {{}}, NEW t \in Tags, CheckAvailable(U, t) PROVE BackupsOfThisRun'
    BY <1>8 DEF CheckAvailable
  <1>9. ASSUME NEW b \in Binaries, Stage(b) PROVE BackupsOfThisRun'
    BY <1>9 DEF Stage
  <1>10. CASE StageFailed
    BY <1>10 DEF StageFailed, ReturnError
  <1>11. CASE Validated
    BY <1>11 DEF Validated
  <1>12. CASE Rejected
    BY <1>12 DEF Rejected, ReturnError
  <1>13. CASE AllStaged
    BY <1>13 DEF AllStaged
  <1>14. ASSUME NEW b \in Binaries, BackupNone(b) PROVE BackupsOfThisRun'
    BY <1>14 DEF BackupNone
  <1>15. ASSUME NEW b \in Binaries, BackupReserve(b) PROVE BackupsOfThisRun'
    BY <1>15 DEF BackupReserve, Fails
  <1>16. CASE BackupUnreserve
    BY <1>16 DEF BackupUnreserve, Fails, Backup
  <1>17. CASE BackupLink
    BY <1>17 DEF BackupLink, Backup
  <1>18. CASE BackupCopyStart
    BY <1>18 DEF BackupCopyStart, Fails, Backup
  <1>19. CASE BackupCopyDone
    BY <1>19 DEF BackupCopyDone, Backup
  <1>20. CASE BackupFailed
    BY <1>20 DEF BackupFailed, ReturnError, Fails, Backup, DiscardOwnBackup
  <1>33. CASE BackupSymlinkFailed
    BY <1>33 DEF BackupSymlinkFailed, Fails, Backup
  <1>21. CASE Rename
    BY <1>21 DEF Rename, Backup, Unlinked
  <1>22. CASE RenameFailed
    BY <1>22 DEF RenameFailed, Fails, Backup, DiscardOwnBackup
  <1>23. CASE Restored
    BY <1>23 DEF Restored
  <1>24. ASSUME NEW b \in Binaries, Restore(b) PROVE BackupsOfThisRun'
    BY <1>24 DEF Restore, Fails
  <1>25. CASE WriteMarker
    BY <1>25 DEF WriteMarker
  <1>26. CASE MarkerFailed
    BY <1>26 DEF MarkerFailed, Fails
  <1>27. CASE BackupsDropped
    BY <1>27 DEF BackupsDropped
  <1>28. CASE Unmark
    BY <1>28 DEF Unmark, Fails
  <1>29. ASSUME NEW b \in Binaries, DropBackup(b) PROVE BackupsOfThisRun'
    BY <1>29 DEF DropBackup, Fails
  <1>30. CASE Finish
    BY <1>30 DEF Finish, Forget, NoTag
  <1>31. CASE Kill
    BY <1>31 DEF Kill, Forget, NoTag
  <1>32. CASE UNCHANGED vars
    BY <1>32 DEF vars
  <1> QED
    BY <1>1, <1>2, <1>3, <1>4, <1>5, <1>6, <1>7, <1>8, <1>9, <1>10, <1>11, <1>12, <1>13, <1>14, <1>15, <1>16, <1>17, <1>18, <1>19, <1>20, <1>21, <1>22, <1>23, <1>24, <1>25, <1>26, <1>27, <1>28, <1>29, <1>30, <1>31, <1>32, <1>33
    DEF Recover, Check, StageAll, TakeBackup, Replace, CommitSet, Step, Next

(* What is left on the disk leads to the promised set. *)
LEMMA LeftoversStep == SafeEnv /\ IInv /\ [Next]_vars => LeftoversHelp'
  <1> SUFFICES ASSUME SafeEnv, IInv, [Next]_vars PROVE LeftoversHelp'
    OBVIOUS
  <1> USE DEF SafeEnv, IInv, TypeOK, WholeRuns, BackupsOfThisRun, LeftoversHelp, RecoveryFirst, OneRelease, Committed, NoFiles, NoBackups, Version, File, Points, InstallPoints, StagePoints, AtOneBinary, BetweenBinaries, ToInstall,
              disk, request, listing, plan, candidates, history
  <1>1. ASSUME NEW r \in Requests, StartRun(r) PROVE LeftoversHelp'
    BY <1>1 DEF StartRun
  <1>2. ASSUME NEW b \in Binaries, NEW f \in glob[b], DiscardLeftover(b, f) PROVE LeftoversHelp'
    BY <1>2 DEF DiscardLeftover, Recovering, Handled, Fails
  <1>3. ASSUME NEW b \in Binaries, NEW f \in glob[b], RestoreLeftover(b, f) PROVE LeftoversHelp'
    BY <1>3 DEF RestoreLeftover, Recovering, ReturnError, Fails, Unlinked
  <1>4. ASSUME NEW b \in Binaries, SweepCandidates(b) PROVE LeftoversHelp'
    BY <1>4 DEF SweepCandidates, Swept, Recovering, Fails
  <1>5. CASE ClearOldMarker
    BY <1>5 DEF ClearOldMarker, ReturnError, Fails
  <1>6. CASE CheckFailed
    BY <1>6 DEF CheckFailed, ReturnError
  <1>7. CASE CheckCurrent
    BY <1>7 DEF CheckCurrent
  <1>8. ASSUME NEW U \in (SUBSET Binaries) \ {{}}, NEW t \in Tags, CheckAvailable(U, t) PROVE LeftoversHelp'
    BY <1>8 DEF CheckAvailable
  <1>9. ASSUME NEW b \in Binaries, Stage(b) PROVE LeftoversHelp'
    BY <1>9 DEF Stage
  <1>10. CASE StageFailed
    BY <1>10 DEF StageFailed, ReturnError
  <1>11. CASE Validated
    BY <1>11 DEF Validated
  <1>12. CASE Rejected
    BY <1>12 DEF Rejected, ReturnError
  <1>13. CASE AllStaged
    BY <1>13 DEF AllStaged
  <1>14. ASSUME NEW b \in Binaries, BackupNone(b) PROVE LeftoversHelp'
    BY <1>14 DEF BackupNone
  <1>15. ASSUME NEW b \in Binaries, BackupReserve(b) PROVE LeftoversHelp'
    BY <1>15 DEF BackupReserve, Fails
  <1>16. CASE BackupUnreserve
    BY <1>16 DEF BackupUnreserve, Fails, Backup
  <1>17. CASE BackupLink
    BY <1>17 DEF BackupLink, Backup
  <1>18. CASE BackupCopyStart
    BY <1>18 DEF BackupCopyStart, Fails, Backup
  <1>19. CASE BackupCopyDone
    BY <1>19 DEF BackupCopyDone, Backup
  <1>20. CASE BackupFailed
    BY <1>20 DEF BackupFailed, ReturnError, Fails, Backup, DiscardOwnBackup
  <1>33. CASE BackupSymlinkFailed
    BY <1>33 DEF BackupSymlinkFailed, Fails, Backup
  <1>21. CASE Rename
    BY <1>21 DEF Rename, Backup, Unlinked
  <1>22. CASE RenameFailed
    BY <1>22 DEF RenameFailed, Fails, Backup, DiscardOwnBackup
  <1>23. CASE Restored
    BY <1>23 DEF Restored
  <1>24. ASSUME NEW b \in Binaries, Restore(b) PROVE LeftoversHelp'
    <2>1. backup[b].ver = promised[b] /\ backup[b].inode = "own" /\ backup[b] # NoFile
      BY <1>24 DEF Restore
    <2>4. Committed => "restore" \notin Faults
      BY <1>24 DEF Restore
    <2>2. CASE installed' = [installed EXCEPT ![b] = IF backup[b] = NoFile THEN Absent ELSE backup[b].ver] /\ UNCHANGED leftover
      BY <1>24, <2>1, <2>2 DEF Restore
    <2>3. CASE /\ "restore" \in Faults /\ UNCHANGED installed
               /\ leftover' = [leftover EXCEPT ![b] = @ \cup ({backup[b]} \ {NoFile})]
      <3>1. backup[b] \in leftover'[b]
        BY <2>1, <2>3
      <3>2. ~Committed
        BY <2>3, <2>4
      <3> QED
        BY <1>24, <2>1, <2>3, <3>1, <3>2 DEF Restore
    <2> QED
      BY <1>24, <2>2, <2>3 DEF Restore, Fails
  <1>25. CASE WriteMarker
    BY <1>25 DEF WriteMarker
  <1>26. CASE MarkerFailed
    BY <1>26 DEF MarkerFailed, Fails
  <1>27. CASE BackupsDropped
    BY <1>27 DEF BackupsDropped
  <1>28. CASE Unmark
    BY <1>28 DEF Unmark, Fails
  <1>29. ASSUME NEW b \in Binaries, DropBackup(b) PROVE LeftoversHelp'
    BY <1>29 DEF DropBackup, Fails
  <1>30. CASE Finish
    BY <1>30 DEF Finish, Forget, NoTag
  <1>31. CASE Kill
    <2> SUFFICES ASSUME NEW c \in Binaries
                 PROVE  /\ installed'[c] \in Tags /\ promised'[c] \in Tags
                        /\ \A f \in leftover'[c] : f.inode = "shared" => f.ver = installed'[c]
                        /\ Committed' => installed'[c] = promised'[c]
                        /\ ~Committed' => /\ \A f \in leftover'[c] : f.ver = promised'[c]
                                          /\ installed'[c] # promised'[c] => \E f \in leftover'[c] : f.inode = "own"
      OBVIOUS
    <2>1. leftover'[c] = leftover[c] \cup ({backup[c]} \ {NoFile})
      BY <1>31 DEF Kill
    <2>2. UNCHANGED <<installed, marker, promised>>
      BY <1>31 DEF Kill, Forget
    <2>3. pc \notin {"reserved", "copying"}
      BY <1>31 DEF Kill
    <2>4. ASSUME backup[c] # NoFile
          PROVE  /\ backup[c].inode = "shared" => backup[c].ver = installed[c]
                 /\ ~Committed => backup[c].ver = promised[c]
      <3>1. CASE pc = "drop"
        BY <2>4, <3>1
      <3>2. CASE pc \in {"restore"} \cup InstallPoints /\ c \in replaced
        BY <2>4, <3>2
      <3>3. CASE pc = "rename" /\ c = cur
        BY <2>4, <3>3
      <3>4. ~(pc = "link" /\ c = cur)
        <4>1. pc \in KillPoints
          BY <1>31 DEF Kill
        <4>2. "unreserve" \in Faults => "link" \notin KillPoints
          OBVIOUS
        <4>3. pc = "link" /\ backup[cur] # NoFile => "unreserve" \in Faults
          OBVIOUS
        <4> QED
          BY <2>4, <4>1, <4>2, <4>3
      <3> QED
        BY <2>3, <2>4, <3>1, <3>2, <3>3, <3>4
    <2>5. \A f \in leftover'[c] : /\ f.inode = "shared" => f.ver = installed[c]
                                  /\ ~Committed => f.ver = promised[c]
      <3>1. \A f \in leftover[c] : /\ f.inode = "shared" => f.ver = installed[c]
                                   /\ ~Committed => f.ver = promised[c]
        OBVIOUS
      <3> QED
        BY <2>1, <2>4, <3>1
    <2>6. ASSUME ~Committed, installed[c] # promised[c]
          PROVE  \E f \in leftover'[c] : f.inode = "own"
      <3>1. CASE c \in replaced /\ pc \in {"restore"} \cup InstallPoints
        <4>1. backup[c] = [ver |-> promised[c], inode |-> "own"]
          BY <3>1
        <4>2. backup[c] # NoFile
          BY <4>1, ConstantsAssumption
        <4> QED
          BY <2>1, <4>1, <4>2
      <3>2. CASE \E f \in leftover[c] : f.inode = "own"
        BY <2>1, <3>2
      <3> QED
        BY <2>6, <3>1, <3>2
    <2>7. installed[c] \in Tags /\ promised[c] \in Tags /\ (Committed => installed[c] = promised[c])
      <3>1. pc \in KillPoints
        BY <1>31 DEF Kill
      <3>2. Committed /\ installed[c] # promised[c] => "torn_mark" \in Faults /\ pc = "restore"
        OBVIOUS
      <3>3. "torn_mark" \in Faults => "restore" \notin KillPoints
        OBVIOUS
      <3> QED
        BY <3>1, <3>2, <3>3
    <2>8. installed' = installed /\ promised' = promised /\ (Committed' <=> Committed)
      BY <2>2
    <2> HIDE DEF IInv, TypeOK, LeftoversHelp, WholeRuns, RecoveryFirst, OneRelease, BackupsOfThisRun, Committed
    <2> QED
      BY <2>5, <2>6, <2>7, <2>8
  <1>32. CASE UNCHANGED vars
    BY <1>32 DEF vars
  <1> QED
    BY <1>1, <1>2, <1>3, <1>4, <1>5, <1>6, <1>7, <1>8, <1>9, <1>10, <1>11, <1>12, <1>13, <1>14, <1>15, <1>16, <1>17, <1>18, <1>19, <1>20, <1>21, <1>22, <1>23, <1>24, <1>25, <1>26, <1>27, <1>28, <1>29, <1>30, <1>31, <1>32, <1>33
    DEF Recover, Check, StageAll, TakeBackup, Replace, CommitSet, Step, Next

(* Recovery is over before anything is installed. *)
LEMMA RecoveryStep == SafeEnv /\ IInv /\ [Next]_vars => RecoveryFirst'
  <1> SUFFICES ASSUME SafeEnv, IInv, [Next]_vars PROVE RecoveryFirst'
    OBVIOUS
  <1> USE DEF SafeEnv, IInv, TypeOK, WholeRuns, BackupsOfThisRun, LeftoversHelp, RecoveryFirst, Committed, NoFiles, NoBackups, Version, File, Points, InstallPoints, StagePoints, AtOneBinary, BetweenBinaries, ToInstall,
              disk, request, listing, plan, candidates, history
  <1>1. ASSUME NEW r \in Requests, StartRun(r) PROVE RecoveryFirst'
    <2>1. pc' = "recover" => glob' = leftover'
      <3> SUFFICES ASSUME pc' = "recover" PROVE glob' = leftover
        BY <1>1 DEF StartRun
      <3>1. r.dry = {} /\ r.names = Binaries
        BY <1>1 DEF StartRun
      <3>2. glob' = [c \in Binaries |-> leftover[c]]
        BY <1>1, <3>1 DEF StartRun
      <3> QED
        BY <3>2
    <2> QED
      BY <1>1, <2>1 DEF StartRun
  <1>2. ASSUME NEW b \in Binaries, NEW f \in glob[b], DiscardLeftover(b, f) PROVE RecoveryFirst'
    BY <1>2 DEF DiscardLeftover, Recovering, Handled, Fails
  <1>3. ASSUME NEW b \in Binaries, NEW f \in glob[b], RestoreLeftover(b, f) PROVE RecoveryFirst'
    <2>1. glob = leftover /\ pc = "recover"
      BY <1>3 DEF RestoreLeftover, Recovering
    <2>2. CASE pc' = "cleanup"
      BY <1>3, <2>1, <2>2 DEF RestoreLeftover, Recovering, ReturnError, Fails
    <2>3. CASE pc' = pc
      <3>1. installed' = [installed EXCEPT ![b] = f.ver] /\ first' = first \cup {b}
        BY <1>3, <2>1, <2>3 DEF RestoreLeftover, Recovering, ReturnError
      <3>2. glob' = leftover'
        BY <1>3, <2>1, <2>3 DEF RestoreLeftover, Recovering, ReturnError
      <3>3. f.ver = promised[b] /\ ~Committed /\ UNCHANGED <<promised, marker>>
        BY <1>3, <2>1 DEF RestoreLeftover, Recovering
      <3>4. names' = Binaries /\ \A c \in Binaries \ todo' : glob'[c] = {}
        BY <1>3, <2>1, <2>3 DEF RestoreLeftover, Recovering, ReturnError
      <3> QED
        BY <2>1, <2>3, <3>1, <3>2, <3>3, <3>4
    <2> QED
      BY <1>3, <2>2, <2>3 DEF RestoreLeftover, Recovering, ReturnError
  <1>4. ASSUME NEW b \in Binaries, SweepCandidates(b) PROVE RecoveryFirst'
    BY <1>4 DEF SweepCandidates, Swept, Recovering, Fails
  <1>5. CASE ClearOldMarker
    BY <1>5 DEF ClearOldMarker, ReturnError, Fails
  <1>6. CASE CheckFailed
    BY <1>6 DEF CheckFailed, ReturnError
  <1>7. CASE CheckCurrent
    BY <1>7 DEF CheckCurrent
  <1>8. ASSUME NEW U \in (SUBSET Binaries) \ {{}}, NEW t \in Tags, CheckAvailable(U, t) PROVE RecoveryFirst'
    BY <1>8 DEF CheckAvailable
  <1>9. ASSUME NEW b \in Binaries, Stage(b) PROVE RecoveryFirst'
    BY <1>9 DEF Stage
  <1>10. CASE StageFailed
    BY <1>10 DEF StageFailed, ReturnError
  <1>11. CASE Validated
    BY <1>11 DEF Validated
  <1>12. CASE Rejected
    BY <1>12 DEF Rejected, ReturnError
  <1>13. CASE AllStaged
    BY <1>13 DEF AllStaged
  <1>14. ASSUME NEW b \in Binaries, BackupNone(b) PROVE RecoveryFirst'
    BY <1>14 DEF BackupNone
  <1>15. ASSUME NEW b \in Binaries, BackupReserve(b) PROVE RecoveryFirst'
    BY <1>15 DEF BackupReserve, Fails
  <1>16. CASE BackupUnreserve
    BY <1>16 DEF BackupUnreserve, Fails, Backup
  <1>17. CASE BackupLink
    BY <1>17 DEF BackupLink, Backup
  <1>18. CASE BackupCopyStart
    BY <1>18 DEF BackupCopyStart, Fails, Backup
  <1>19. CASE BackupCopyDone
    BY <1>19 DEF BackupCopyDone, Backup
  <1>20. CASE BackupFailed
    BY <1>20 DEF BackupFailed, ReturnError, Fails, Backup, DiscardOwnBackup
  <1>33. CASE BackupSymlinkFailed
    BY <1>33 DEF BackupSymlinkFailed, Fails, Backup
  <1>21. CASE Rename
    <2>1. leftover = NoFiles /\ dry = {} /\ ~Committed
      BY <1>21 DEF Rename
    <2>2. Unlinked({}) = {}
      BY DEF Unlinked
    <2>3. leftover' = NoFiles
      BY <1>21, <2>1, <2>2 DEF Rename
    <2> QED
      BY <1>21, <2>1, <2>3 DEF Rename
  <1>22. CASE RenameFailed
    BY <1>22 DEF RenameFailed, Fails, Backup, DiscardOwnBackup
  <1>23. CASE Restored
    BY <1>23 DEF Restored
  <1>24. ASSUME NEW b \in Binaries, Restore(b) PROVE RecoveryFirst'
    BY <1>24 DEF Restore, Fails
  <1>25. CASE WriteMarker
    BY <1>25 DEF WriteMarker
  <1>26. CASE MarkerFailed
    BY <1>26 DEF MarkerFailed, Fails
  <1>27. CASE BackupsDropped
    BY <1>27 DEF BackupsDropped
  <1>28. CASE Unmark
    BY <1>28 DEF Unmark, Fails
  <1>29. ASSUME NEW b \in Binaries, DropBackup(b) PROVE RecoveryFirst'
    BY <1>29 DEF DropBackup, Fails
  <1>30. CASE Finish
    BY <1>30 DEF Finish, Forget, NoTag
  <1>31. CASE Kill
    BY <1>31 DEF Kill, Forget, NoTag
  <1>32. CASE UNCHANGED vars
    BY <1>32 DEF vars
  <1> QED
    BY <1>1, <1>2, <1>3, <1>4, <1>5, <1>6, <1>7, <1>8, <1>9, <1>10, <1>11, <1>12, <1>13, <1>14, <1>15, <1>16, <1>17, <1>18, <1>19, <1>20, <1>21, <1>22, <1>23, <1>24, <1>25, <1>26, <1>27, <1>28, <1>29, <1>30, <1>31, <1>32, <1>33
    DEF Recover, Check, StageAll, TakeBackup, Replace, CommitSet, Step, Next

(* The renames of one run install one release. *)
LEMMA OneReleaseStep == SafeEnv /\ IInv /\ [Next]_vars => OneRelease'
  <1> SUFFICES ASSUME SafeEnv, IInv, [Next]_vars PROVE OneRelease'
    OBVIOUS
  <1> USE DEF SafeEnv, IInv, TypeOK, WholeRuns, BackupsOfThisRun, LeftoversHelp, RecoveryFirst, OneRelease, Committed, NoFiles, NoBackups, Version, File, Points, InstallPoints, StagePoints, AtOneBinary, BetweenBinaries, ToInstall,
              disk, request, listing, plan, candidates, history
  <1>1. ASSUME NEW r \in Requests, StartRun(r) PROVE OneRelease'
    BY <1>1 DEF StartRun
  <1>2. ASSUME NEW b \in Binaries, NEW f \in glob[b], DiscardLeftover(b, f) PROVE OneRelease'
    BY <1>2 DEF DiscardLeftover, Recovering, Handled, Fails
  <1>3. ASSUME NEW b \in Binaries, NEW f \in glob[b], RestoreLeftover(b, f) PROVE OneRelease'
    BY <1>3 DEF RestoreLeftover, Recovering, ReturnError, Fails, Unlinked
  <1>4. ASSUME NEW b \in Binaries, SweepCandidates(b) PROVE OneRelease'
    BY <1>4 DEF SweepCandidates, Swept, Recovering, Fails
  <1>5. CASE ClearOldMarker
    BY <1>5 DEF ClearOldMarker, ReturnError, Fails
  <1>6. CASE CheckFailed
    BY <1>6 DEF CheckFailed, ReturnError
  <1>7. CASE CheckCurrent
    BY <1>7 DEF CheckCurrent
  <1>8. ASSUME NEW U \in (SUBSET Binaries) \ {{}}, NEW t \in Tags, CheckAvailable(U, t) PROVE OneRelease'
    BY <1>8 DEF CheckAvailable
  <1>9. ASSUME NEW b \in Binaries, Stage(b) PROVE OneRelease'
    BY <1>9 DEF Stage
  <1>10. CASE StageFailed
    BY <1>10 DEF StageFailed, ReturnError
  <1>11. CASE Validated
    BY <1>11 DEF Validated
  <1>12. CASE Rejected
    BY <1>12 DEF Rejected, ReturnError
  <1>13. CASE AllStaged
    BY <1>13 DEF AllStaged
  <1>14. ASSUME NEW b \in Binaries, BackupNone(b) PROVE OneRelease'
    BY <1>14 DEF BackupNone
  <1>15. ASSUME NEW b \in Binaries, BackupReserve(b) PROVE OneRelease'
    BY <1>15 DEF BackupReserve, Fails
  <1>16. CASE BackupUnreserve
    BY <1>16 DEF BackupUnreserve, Fails, Backup
  <1>17. CASE BackupLink
    BY <1>17 DEF BackupLink, Backup
  <1>18. CASE BackupCopyStart
    BY <1>18 DEF BackupCopyStart, Fails, Backup
  <1>19. CASE BackupCopyDone
    BY <1>19 DEF BackupCopyDone, Backup
  <1>20. CASE BackupFailed
    BY <1>20 DEF BackupFailed, ReturnError, Fails, Backup, DiscardOwnBackup
  <1>33. CASE BackupSymlinkFailed
    BY <1>33 DEF BackupSymlinkFailed, Fails, Backup
  <1>21. CASE Rename
    BY <1>21 DEF Rename, Backup, Unlinked
  <1>22. CASE RenameFailed
    BY <1>22 DEF RenameFailed, Fails, Backup, DiscardOwnBackup
  <1>23. CASE Restored
    BY <1>23 DEF Restored
  <1>24. ASSUME NEW b \in Binaries, Restore(b) PROVE OneRelease'
    BY <1>24 DEF Restore, Fails
  <1>25. CASE WriteMarker
    BY <1>25 DEF WriteMarker
  <1>26. CASE MarkerFailed
    BY <1>26 DEF MarkerFailed, Fails
  <1>27. CASE BackupsDropped
    BY <1>27 DEF BackupsDropped
  <1>28. CASE Unmark
    BY <1>28 DEF Unmark, Fails
  <1>29. ASSUME NEW b \in Binaries, DropBackup(b) PROVE OneRelease'
    BY <1>29 DEF DropBackup, Fails
  <1>30. CASE Finish
    BY <1>30 DEF Finish, Forget, NoTag
  <1>31. CASE Kill
    BY <1>31 DEF Kill, Forget, NoTag
  <1>32. CASE UNCHANGED vars
    BY <1>32 DEF vars
  <1> QED
    BY <1>1, <1>2, <1>3, <1>4, <1>5, <1>6, <1>7, <1>8, <1>9, <1>10, <1>11, <1>12, <1>13, <1>14, <1>15, <1>16, <1>17, <1>18, <1>19, <1>20, <1>21, <1>22, <1>23, <1>24, <1>25, <1>26, <1>27, <1>28, <1>29, <1>30, <1>31, <1>32, <1>33
    DEF Recover, Check, StageAll, TakeBackup, Replace, CommitSet, Step, Next

(* The inductive invariant holds initially. *)
LEMMA IInvInit == SafeEnv /\ Init => IInv
  <1> SUFFICES ASSUME SafeEnv, Init PROVE IInv
    OBVIOUS
  <1>1. TypeOK
    BY TypeInit
  <1>2. \A b \in Binaries : installed[b] \in Tags /\ leftover[b] = {} /\ backup[b] = NoFile
    BY DEF Init, SafeEnv, NoFiles, NoBackups
  <1> QED
    BY <1>1, <1>2 DEF Init, IInv, ValidatedFirst, WholeRuns, BackupsOfThisRun, LeftoversHelp,
       RecoveryFirst, OneRelease, InstallPoints, StagePoints, AtOneBinary, ToInstall, Committed

(* The inductive invariant is kept by every step. *)
LEMMA IInvStep == SafeEnv /\ IInv /\ [Next]_vars => IInv'
  <1> SUFFICES ASSUME SafeEnv, IInv, [Next]_vars PROVE IInv'
    OBVIOUS
  <1>1. WholeRuns'
    BY WholeRunsStep DEF SafeEnv, IInv, BackupsOfThisRun, ReplacedByThisRun
  <1> QED
    BY <1>1, TypeStep, ValidatedStep, BackupsStep, LeftoversStep, RecoveryStep, OneReleaseStep DEF IInv

(* The inductive invariant holds in every reachable state. *)
THEOREM Inductive == SafeEnv => (Spec => []IInv)
  <1> SUFFICES ASSUME SafeEnv PROVE Spec => []IInv
    OBVIOUS
  <1>1. Init => IInv
    BY IInvInit
  <1>2. IInv /\ [Next]_vars => IInv'
    BY IInvStep
  <1> QED
    BY <1>1, <1>2, PTL DEF Spec

(* Whatever complete backup recovery lists first, it leaves the promised version. *)
LEMMA OutcomeIsPromised ==
  ASSUME MarkersAreWhole, IInv, NEW b \in Binaries, NEW S,
         leftover[b] \subseteq S, S \subseteq leftover[b] \cup ({backup[b]} \ {NoFile}),
         backup[b] # NoFile /\ backup[b].ver # Partial => backup[b] \in S,
         ~Committed => \A f \in S : f = backup[b] => f.ver # Partial
  PROVE  Outcomes(b, S) = {promised[b]}
  <1>1. ASSUME Committed PROVE installed[b] = promised[b]
    BY <1>1 DEF IInv, LeftoversHelp, MarkersAreWhole
  <1>2. ASSUME ~Committed, NEW f \in S
        PROVE  (IF f.inode = "shared" THEN installed[b] ELSE f.ver) = promised[b]
    <2>1. CASE f \in leftover[b]
      BY <1>2, <2>1 DEF IInv, LeftoversHelp
    <2>2. CASE f = backup[b] /\ f # NoFile
      <3>1. pc # "drop" /\ f.ver # Partial
        BY <1>2, <2>2 DEF IInv, RecoveryFirst
      <3>2. CASE b \in replaced /\ pc \in {"restore"} \cup InstallPoints
        <4>1. backup[b] = [ver |-> promised[b], inode |-> "own"]
          BY <3>2 DEF IInv, BackupsOfThisRun
        <4> QED
          BY <2>2, <4>1
      <3>3. CASE pc \in {"reserved", "link", "copying", "rename"} /\ b = cur
        BY <2>2, <3>1, <3>3 DEF IInv, BackupsOfThisRun
      <3> QED
        BY <2>2, <3>1, <3>2, <3>3 DEF IInv, BackupsOfThisRun
    <2> QED
      BY <1>2, <2>1, <2>2
  <1>3. ASSUME ~Committed, installed[b] # promised[b] PROVE S # {}
    <2>1. promised[b] # Partial
      BY ConstantsAssumption DEF IInv, LeftoversHelp
    <2>2. CASE b \in replaced /\ pc \in {"restore"} \cup InstallPoints
      <3>1. backup[b] = [ver |-> promised[b], inode |-> "own"]
        BY <2>2 DEF IInv, BackupsOfThisRun
      <3>2. backup[b] # NoFile
        BY <3>1, ConstantsAssumption DEF IInv, TypeOK, File
      <3> QED
        BY <2>1, <3>1, <3>2
    <2>3. CASE \E f \in leftover[b] : f.inode = "own"
      BY <2>3
    <2> QED
      BY <1>3, <2>2, <2>3 DEF IInv, LeftoversHelp
  <1>4. CASE Committed \/ S = {}
    BY <1>1, <1>3, <1>4 DEF Outcomes
  <1>5. CASE ~Committed /\ S # {}
    BY <1>2, <1>5 DEF Outcomes
  <1> QED
    BY <1>4, <1>5

(* What callers see of each binary is its promised version. *)
LEMMA EffectiveIsPromised == MarkersAreWhole /\ IInv => \A b \in Binaries : Effective(b) = promised[b]
  <1> SUFFICES ASSUME MarkersAreWhole, IInv, NEW b \in Binaries PROVE Effective(b) = promised[b]
    OBVIOUS
  <1> DEFINE S == leftover[b] \cup {f \in {backup[b]} \ {NoFile} : f.ver # Partial}
  <1>1. ASSUME ~Committed, NEW f \in S, f = backup[b], f.ver = Partial PROVE FALSE
    <2>1. f \in leftover[b] /\ f.ver # promised[b]
      BY <1>1, ConstantsAssumption DEF IInv, LeftoversHelp
    <2> QED
      BY <1>1, <2>1 DEF IInv, LeftoversHelp
  <1>2. Outcomes(b, S) = {promised[b]}
    BY <1>1, OutcomeIsPromised
  <1> QED
    BY <1>2 DEF Effective

(* Whenever no backup is half made, the disk holds enough to end with the promised set. *)
THEOREM AlwaysRecoverable == AtomicEnv => (Spec => []Recoverable)
  <1> SUFFICES ASSUME AtomicEnv PROVE Spec => []Recoverable
    OBVIOUS
  <1>1. IInv => Recoverable
    <2> SUFFICES ASSUME IInv, ~BackupHalfMade, NEW b \in Binaries
                 PROVE  Outcomes(b, leftover[b] \cup ({backup[b]} \ {NoFile})) = {promised[b]}
      BY DEF Recoverable
    <2> DEFINE S == leftover[b] \cup ({backup[b]} \ {NoFile})
    <2>1. \A f \in S : f # NoFile
      BY ConstantsAssumption DEF IInv, TypeOK
    <2>2. \A f \in S : f = backup[b] => f.ver # Partial
      BY <2>1 DEF BackupHalfMade
    <2> QED
      BY <2>2, OutcomeIsPromised DEF AtomicEnv, BackupHalfMade
  <1>2. Spec => []IInv
    BY Inductive DEF AtomicEnv
  <1> QED
    BY <1>1, <1>2, PTL

(* After a kill anywhere, the recovery of the next run ends with the old set  *)
(* if the marker was not written, and with the new one if it was.             *)
THEOREM RecoveryRestores == SafeEnv => (Spec => []RecoveredSet)
  <1>1. IInv => RecoveredSet
    <2> SUFFICES ASSUME IInv, pc \in {"check", "stage", "validate"}, dry = {}
                 PROVE  installed = promised
      BY DEF RecoveredSet
    <2>1. ~Committed /\ leftover = NoFiles
      BY DEF IInv, RecoveryFirst, StagePoints
    <2>2. \A b \in Binaries : installed[b] = promised[b]
      BY <2>1 DEF IInv, LeftoversHelp, NoFiles, InstallPoints
    <2>3. installed \in [Binaries -> Version] /\ promised \in [Binaries -> Version]
      BY DEF IInv, TypeOK
    <2> QED
      BY <2>2, <2>3
  <1> QED
    BY <1>1, Inductive, PTL

(* In every environment, no rename precedes the validation of every target.   *)
THEOREM ValidationFirst == Spec => ValidatedBeforeRename
  <1>1. Init => TypeOK /\ ValidatedFirst
    BY TypeInit DEF Init, ValidatedFirst, InstallPoints
  <1>2. TypeOK /\ ValidatedFirst /\ [Next]_vars => (TypeOK /\ ValidatedFirst)'
    BY TypeStep, ValidatedStep
  <1>3. ValidatedFirst => [pc = "rename" /\ installed' # installed => targets \subseteq valid]_vars
    BY DEF ValidatedFirst, InstallPoints
  <1> QED
    BY <1>1, <1>2, <1>3, PTL DEF Spec, ValidatedBeforeRename

(* Each step of the install is a step of AtomicInstall or changes nothing of  *)
(* what its callers see: an update is begun, dropped, or takes effect on all  *)
(* its binaries at once.                                                      *)
Shown == [b \in Binaries |-> Effective(b)]
Pending == IF Installing /\ ToInstall # {} THEN [targets |-> ToInstall, tag |-> tag] ELSE NoUpdate

(* The set that callers see is the promised one. *)
LEMMA ShownIsPromised == MarkersAreWhole /\ IInv => Shown = promised
  BY EffectiveIsPromised DEF Shown, IInv, TypeOK

(* The install begins as the atomic one does. *)
LEMMA RefinementInit == AtomicEnv /\ Init => Atomic!AInit
  <1> SUFFICES ASSUME AtomicEnv, Init PROVE Atomic!AInit
    OBVIOUS
  <1>1. Shown = promised
    BY IInvInit, ShownIsPromised DEF AtomicEnv
  <1>2. promised \in [Binaries -> Tags \cup {Absent}] /\ ~Installing
    BY DEF Init, Installing
  <1> QED
    BY <1>1, <1>2 DEF Atomic!AInit, Shown

Mapped == \/ promised' = promised /\ Pending' = Pending
          \/ promised' = promised /\ Pending # NoUpdate /\ Pending' = NoUpdate
          \/ promised' = promised /\ Pending = NoUpdate /\ Pending' \in Atomic!Update
          \/ /\ Pending # NoUpdate /\ Pending' = NoUpdate
             /\ promised' = [b \in Binaries |-> IF b \in Pending.targets THEN Pending.tag ELSE promised[b]]

(* Every step begins, drops or commits an update, or does none of these.      *)
LEMMA StepMapped == IInv /\ [Next]_vars => Mapped
  <1> SUFFICES ASSUME IInv, [Next]_vars PROVE Mapped
    OBVIOUS
  <1> USE DEF Mapped, Pending, NoUpdate, Installing, ToInstall,
              disk, request, listing, plan, candidates, history
  <1>1. ASSUME NEW r \in Requests, StartRun(r) PROVE Mapped
    BY <1>1 DEF StartRun
  <1>2. ASSUME NEW b \in Binaries, NEW f \in glob[b], DiscardLeftover(b, f) PROVE Mapped
    BY <1>2 DEF DiscardLeftover, Recovering, Handled, Fails
  <1>3. ASSUME NEW b \in Binaries, NEW f \in glob[b], RestoreLeftover(b, f) PROVE Mapped
    BY <1>3 DEF RestoreLeftover, Recovering, ReturnError, Fails, Unlinked
  <1>4. ASSUME NEW b \in Binaries, SweepCandidates(b) PROVE Mapped
    BY <1>4 DEF SweepCandidates, Swept, Recovering, Fails
  <1>5. CASE ClearOldMarker
    BY <1>5 DEF ClearOldMarker, ReturnError, Fails
  <1>6. CASE CheckFailed
    BY <1>6 DEF CheckFailed, ReturnError
  <1>7. CASE CheckCurrent
    BY <1>7 DEF CheckCurrent
  <1>8. ASSUME NEW U \in (SUBSET Binaries) \ {{}}, NEW t \in Tags, CheckAvailable(U, t) PROVE Mapped
    <2>1. promised' = promised /\ Pending = NoUpdate
      BY <1>8 DEF CheckAvailable
    <2>2. CASE U \ dry = {}
      BY <1>8, <2>1, <2>2 DEF CheckAvailable
    <2>3. CASE U \ dry # {}
      <3>1. Pending' = [targets |-> U \ dry, tag |-> t]
        BY <1>8, <2>3 DEF CheckAvailable
      <3>2. Pending' \in Atomic!Update
        BY <2>3, <3>1 DEF Atomic!Update
      <3> QED
        BY <2>1, <3>2
    <2> QED
      BY <2>2, <2>3
  <1>9. ASSUME NEW b \in Binaries, Stage(b) PROVE Mapped
    BY <1>9 DEF Stage
  <1>10. CASE StageFailed
    BY <1>10 DEF StageFailed, ReturnError
  <1>11. CASE Validated
    BY <1>11 DEF Validated
  <1>12. CASE Rejected
    BY <1>12 DEF Rejected, ReturnError
  <1>13. CASE AllStaged
    BY <1>13 DEF AllStaged
  <1>14. ASSUME NEW b \in Binaries, BackupNone(b) PROVE Mapped
    BY <1>14 DEF BackupNone
  <1>15. ASSUME NEW b \in Binaries, BackupReserve(b) PROVE Mapped
    BY <1>15 DEF BackupReserve, Fails
  <1>16. CASE BackupUnreserve
    BY <1>16 DEF BackupUnreserve, Fails, Backup
  <1>17. CASE BackupLink
    BY <1>17 DEF BackupLink, Backup
  <1>18. CASE BackupCopyStart
    BY <1>18 DEF BackupCopyStart, Fails, Backup
  <1>19. CASE BackupCopyDone
    BY <1>19 DEF BackupCopyDone, Backup
  <1>20. CASE BackupFailed
    BY <1>20 DEF BackupFailed, ReturnError, Fails, Backup, DiscardOwnBackup
  <1>33. CASE BackupSymlinkFailed
    BY <1>33 DEF BackupSymlinkFailed, Fails, Backup
  <1>21. CASE Rename
    BY <1>21 DEF Rename, Backup, Unlinked
  <1>22. CASE RenameFailed
    BY <1>22 DEF RenameFailed, Fails, Backup, DiscardOwnBackup
  <1>23. CASE Restored
    BY <1>23 DEF Restored
  <1>24. ASSUME NEW b \in Binaries, Restore(b) PROVE Mapped
    BY <1>24 DEF Restore, Fails
  <1>25. CASE WriteMarker
    <2>1. Pending = [targets |-> ToInstall, tag |-> tag] \/ ToInstall = {}
      BY <1>25 DEF WriteMarker
    <2>2. promised' = installed /\ Pending' = NoUpdate /\ replaced = ToInstall
      BY <1>25 DEF WriteMarker, IInv, OneRelease
    <2>3. \A b \in Binaries : installed[b] = IF b \in replaced THEN tag ELSE promised[b]
      BY <1>25 DEF WriteMarker, IInv, OneRelease, InstallPoints
    <2>4. installed \in [Binaries -> Version] /\ promised \in [Binaries -> Version]
      BY DEF IInv, TypeOK
    <2>5. CASE ToInstall = {}
      <3>1. installed = promised
        BY <2>2, <2>3, <2>4, <2>5
      <3>2. Pending = NoUpdate
        BY <2>5
      <3> QED
        BY <2>2, <3>1, <3>2
    <2>6. CASE ToInstall # {}
      <3>1. Pending = [targets |-> ToInstall, tag |-> tag] /\ Pending # NoUpdate
        BY <1>25, <2>1, <2>6
      <3>2. installed = [b \in Binaries |-> IF b \in Pending.targets THEN Pending.tag ELSE promised[b]]
        BY <2>2, <2>3, <2>4, <3>1
      <3> QED
        BY <2>2, <3>1, <3>2
    <2> QED
      BY <2>5, <2>6
  <1>26. CASE MarkerFailed
    BY <1>26 DEF MarkerFailed, Fails
  <1>27. CASE BackupsDropped
    BY <1>27 DEF BackupsDropped
  <1>28. CASE Unmark
    BY <1>28 DEF Unmark, Fails
  <1>29. ASSUME NEW b \in Binaries, DropBackup(b) PROVE Mapped
    BY <1>29 DEF DropBackup, Fails
  <1>30. CASE Finish
    BY <1>30 DEF Finish, Forget, NoFiles, NoBackups, NoTag
  <1>31. CASE Kill
    BY <1>31 DEF Kill, Forget, NoFiles, NoBackups, NoTag
  <1>32. CASE UNCHANGED vars
    BY <1>32 DEF vars
  <1> QED
    BY <1>1, <1>2, <1>3, <1>4, <1>5, <1>6, <1>7, <1>8, <1>9, <1>10, <1>11, <1>12, <1>13, <1>14, <1>15, <1>16, <1>17, <1>18, <1>19, <1>20, <1>21, <1>22, <1>23, <1>24, <1>25, <1>26, <1>27, <1>28, <1>29, <1>30, <1>31, <1>32, <1>33
    DEF Recover, Check, StageAll, TakeBackup, Replace, CommitSet, Step, Next

(* Every step is one of the atomic install, or a stutter. *)
LEMMA RefinementStep == MarkersAreWhole /\ IInv /\ IInv' /\ [Next]_vars => [Atomic!ANext]_(Atomic!aVars)
  <1>0. (MarkersAreWhole /\ IInv => Shown = promised)'
    BY ShownIsPromised, PTL
  <1> SUFFICES ASSUME MarkersAreWhole, IInv, IInv', [Next]_vars PROVE [Atomic!ANext]_(Atomic!aVars)
    OBVIOUS
  <1>1. Shown = promised /\ Shown' = promised'
    BY <1>0, ShownIsPromised
  <1>2. Mapped
    BY StepMapped
  <1> DEFINE S == Shown  P == Pending
  <1>3. \/ S' = S /\ P' = P
        \/ S' = S /\ P # NoUpdate /\ P' = NoUpdate
        \/ S' = S /\ P = NoUpdate /\ P' \in Atomic!Update
        \/ /\ P # NoUpdate /\ P' = NoUpdate
           /\ S' = [b \in Binaries |-> IF b \in P.targets THEN P.tag ELSE S[b]]
    BY <1>1, <1>2 DEF Mapped
  <1> QED
    BY <1>3 DEF Atomic!ANext, Atomic!Begin, Atomic!Commit, Atomic!Abort, Atomic!aVars, Shown, Pending

(* The detailed install implements the atomic one.                            *)
THEOREM InstallsAtomically == AtomicEnv => (Spec => AtomicSpec)
  <1> SUFFICES ASSUME AtomicEnv PROVE Spec => AtomicSpec
    OBVIOUS
  <1>1. Init => Atomic!AInit
    BY RefinementInit
  <1>2. IInv /\ IInv' /\ [Next]_vars => [Atomic!ANext]_(Atomic!aVars)
    BY RefinementStep DEF AtomicEnv
  <1>3. Spec => []IInv
    BY Inductive DEF AtomicEnv
  <1> QED
    BY <1>1, <1>2, <1>3, PTL DEF Spec, AtomicSpec, Atomic!ASpec

-----------------------------------------------------------------------------
(***************************************************************************)
(* Why a run that returned leaves the old set or the new one, for any      *)
(* binaries, absent ones included: whatever is replaced before the commit  *)
(* has a backup that tells what was there, or none where nothing was.      *)
(***************************************************************************)

\* No kill falls while binaries are replaced or restored, and no system call fails that the
\* code ignores or cannot undo.  Binaries may be absent, and runs wholly dry.
RollbackEnv ==
  /\ Faults \cap {"restore", "remove", "discard", "drop"} = {}
  /\ KillPoints \cap ({"restore"} \cup InstallPoints) = {}
  /\ "symlink" \in Faults => "unreserve" \notin Faults
  /\ \A r \in Requests : r.names = Binaries /\ r.dry \in {{}, Binaries}

\* What a restore of b would put back.
Saved(b) == IF backup[b] = NoFile THEN Absent ELSE backup[b].ver

Replacing == {"restore"} \cup InstallPoints

\* Backups are left only by a kill after the commit, and recovery removes them all.
LeftoversAreCommitted ==
  /\ ~Committed => leftover = NoFiles
  /\ pc \in {"drop", "unmark"} => Committed
  /\ pc = "recover" => glob = leftover /\ \A b \in Binaries \ todo : glob[b] = {}
  /\ pc \in {"recovered", "drop", "unmark"} \cup StagePoints \cup Replacing /\ dry = {}
       => leftover = NoFiles

\* Only while binaries are replaced do they differ from the promised ones, and then only those
\* whose backup, or the lack of one, tells the promised version.
UndoIsKnown ==
  /\ pc \notin Replacing => installed = promised
  /\ pc \in Replacing => \A b \in Binaries :
        promised[b] = IF b \in replaced THEN Saved(b) ELSE installed[b]
  /\ pc = "rename" => promised[cur] = Saved(cur)

\* Only what this run replaced, or is about to, has a backup.
BackupsAreItsOwn ==
  /\ pc \notin {"drop"} \cup Replacing => backup = NoBackups
  /\ pc \in Replacing => \A b \in Binaries :
        backup[b] # NoFile => b \in replaced \/ (pc \in AtOneBinary /\ b = cur)
  /\ pc = "link" /\ backup[cur] # NoFile => "unreserve" \in Faults

RollbackInv ==
  /\ TypeOK /\ WholeRuns /\ ReplacedByThisRun
  /\ LeftoversAreCommitted /\ UndoIsKnown /\ BackupsAreItsOwn

(* Nothing is replaced outside of an install. *)
LEMMA ReplacedStep ==
  TypeOK /\ ReplacedByThisRun /\ [Next]_vars => ReplacedByThisRun'
  <1> SUFFICES ASSUME TypeOK, ReplacedByThisRun, [Next]_vars
               PROVE  ReplacedByThisRun'
    OBVIOUS
  <1> USE DEF TypeOK, ReplacedByThisRun, Committed, NoFiles, NoBackups, Version, File, Points, InstallPoints, StagePoints, AtOneBinary, BetweenBinaries, ToInstall,
              disk, request, listing, plan, candidates, history
  <1>1. ASSUME NEW r \in Requests, StartRun(r) PROVE ReplacedByThisRun'
    BY <1>1 DEF StartRun
  <1>2. ASSUME NEW b \in Binaries, NEW f \in glob[b], DiscardLeftover(b, f) PROVE ReplacedByThisRun'
    BY <1>2 DEF DiscardLeftover, Recovering, Handled, Fails
  <1>3. ASSUME NEW b \in Binaries, NEW f \in glob[b], RestoreLeftover(b, f) PROVE ReplacedByThisRun'
    BY <1>3 DEF RestoreLeftover, Recovering, ReturnError, Fails, Unlinked
  <1>4. ASSUME NEW b \in Binaries, SweepCandidates(b) PROVE ReplacedByThisRun'
    BY <1>4 DEF SweepCandidates, Swept, Recovering, Fails
  <1>5. CASE ClearOldMarker
    BY <1>5 DEF ClearOldMarker, ReturnError, Fails
  <1>6. CASE CheckFailed
    BY <1>6 DEF CheckFailed, ReturnError
  <1>7. CASE CheckCurrent
    BY <1>7 DEF CheckCurrent
  <1>8. ASSUME NEW U \in (SUBSET Binaries) \ {{}}, NEW t \in Tags, CheckAvailable(U, t) PROVE ReplacedByThisRun'
    BY <1>8 DEF CheckAvailable
  <1>9. ASSUME NEW b \in Binaries, Stage(b) PROVE ReplacedByThisRun'
    BY <1>9 DEF Stage
  <1>10. CASE StageFailed
    BY <1>10 DEF StageFailed, ReturnError
  <1>11. CASE Validated
    BY <1>11 DEF Validated
  <1>12. CASE Rejected
    BY <1>12 DEF Rejected, ReturnError
  <1>13. CASE AllStaged
    BY <1>13 DEF AllStaged
  <1>14. ASSUME NEW b \in Binaries, BackupNone(b) PROVE ReplacedByThisRun'
    BY <1>14 DEF BackupNone
  <1>15. ASSUME NEW b \in Binaries, BackupReserve(b) PROVE ReplacedByThisRun'
    BY <1>15 DEF BackupReserve, Fails
  <1>16. CASE BackupUnreserve
    BY <1>16 DEF BackupUnreserve, Fails, Backup
  <1>17. CASE BackupLink
    BY <1>17 DEF BackupLink, Backup
  <1>18. CASE BackupCopyStart
    BY <1>18 DEF BackupCopyStart, Fails, Backup
  <1>19. CASE BackupCopyDone
    BY <1>19 DEF BackupCopyDone, Backup
  <1>20. CASE BackupFailed
    BY <1>20 DEF BackupFailed, ReturnError, Fails, Backup, DiscardOwnBackup
  <1>33. CASE BackupSymlinkFailed
    BY <1>33 DEF BackupSymlinkFailed, Fails, Backup
  <1>21. CASE Rename
    BY <1>21 DEF Rename, Backup, Unlinked
  <1>22. CASE RenameFailed
    BY <1>22 DEF RenameFailed, Fails, Backup, DiscardOwnBackup
  <1>23. CASE Restored
    BY <1>23 DEF Restored
  <1>24. ASSUME NEW b \in Binaries, Restore(b) PROVE ReplacedByThisRun'
    BY <1>24 DEF Restore, Fails
  <1>25. CASE WriteMarker
    BY <1>25 DEF WriteMarker
  <1>26. CASE MarkerFailed
    BY <1>26 DEF MarkerFailed, Fails
  <1>27. CASE BackupsDropped
    BY <1>27 DEF BackupsDropped
  <1>28. CASE Unmark
    BY <1>28 DEF Unmark, Fails
  <1>29. ASSUME NEW b \in Binaries, DropBackup(b) PROVE ReplacedByThisRun'
    BY <1>29 DEF DropBackup, Fails
  <1>30. CASE Finish
    BY <1>30 DEF Finish, Forget, NoTag
  <1>31. CASE Kill
    BY <1>31 DEF Kill, Forget, NoTag
  <1>32. CASE UNCHANGED vars
    BY <1>32 DEF vars
  <1> QED
    BY <1>1, <1>2, <1>3, <1>4, <1>5, <1>6, <1>7, <1>8, <1>9, <1>10, <1>11, <1>12, <1>13, <1>14, <1>15, <1>16, <1>17, <1>18, <1>19, <1>20, <1>21, <1>22, <1>23, <1>24, <1>25, <1>26, <1>27, <1>28, <1>29, <1>30, <1>31, <1>32, <1>33
    DEF Recover, Check, StageAll, TakeBackup, Replace, CommitSet, Step, Next

(* Only a kill after the commit leaves backups. *)
LEMMA CommittedLeftoversStep ==
  RollbackEnv /\ RollbackInv /\ [Next]_vars => LeftoversAreCommitted'
  <1> SUFFICES ASSUME RollbackEnv, RollbackInv, [Next]_vars
               PROVE  LeftoversAreCommitted'
    OBVIOUS
  <1> USE DEF RollbackEnv, RollbackInv, LeftoversAreCommitted, UndoIsKnown, BackupsAreItsOwn, Saved, Replacing, TypeOK, WholeRuns, ReplacedByThisRun, Committed, NoFiles, NoBackups, Version, File, Points, InstallPoints, StagePoints, AtOneBinary, BetweenBinaries, ToInstall,
              disk, request, listing, plan, candidates, history
  <1>1. ASSUME NEW r \in Requests, StartRun(r) PROVE LeftoversAreCommitted'
    BY <1>1 DEF StartRun
  <1>2. ASSUME NEW b \in Binaries, NEW f \in glob[b], DiscardLeftover(b, f) PROVE LeftoversAreCommitted'
    BY <1>2 DEF DiscardLeftover, Recovering, Handled, Fails
  <1>3. ASSUME NEW b \in Binaries, NEW f \in glob[b], RestoreLeftover(b, f) PROVE LeftoversAreCommitted'
    BY <1>3 DEF RestoreLeftover, Recovering, ReturnError, Fails, Unlinked
  <1>4. ASSUME NEW b \in Binaries, SweepCandidates(b) PROVE LeftoversAreCommitted'
    BY <1>4 DEF SweepCandidates, Swept, Recovering, Fails
  <1>5. CASE ClearOldMarker
    BY <1>5 DEF ClearOldMarker, ReturnError, Fails
  <1>6. CASE CheckFailed
    BY <1>6 DEF CheckFailed, ReturnError
  <1>7. CASE CheckCurrent
    BY <1>7 DEF CheckCurrent
  <1>8. ASSUME NEW U \in (SUBSET Binaries) \ {{}}, NEW t \in Tags, CheckAvailable(U, t) PROVE LeftoversAreCommitted'
    BY <1>8 DEF CheckAvailable
  <1>9. ASSUME NEW b \in Binaries, Stage(b) PROVE LeftoversAreCommitted'
    BY <1>9 DEF Stage
  <1>10. CASE StageFailed
    BY <1>10 DEF StageFailed, ReturnError
  <1>11. CASE Validated
    BY <1>11 DEF Validated
  <1>12. CASE Rejected
    BY <1>12 DEF Rejected, ReturnError
  <1>13. CASE AllStaged
    BY <1>13 DEF AllStaged
  <1>14. ASSUME NEW b \in Binaries, BackupNone(b) PROVE LeftoversAreCommitted'
    BY <1>14 DEF BackupNone
  <1>15. ASSUME NEW b \in Binaries, BackupReserve(b) PROVE LeftoversAreCommitted'
    BY <1>15 DEF BackupReserve, Fails
  <1>16. CASE BackupUnreserve
    BY <1>16 DEF BackupUnreserve, Fails, Backup
  <1>17. CASE BackupLink
    BY <1>17 DEF BackupLink, Backup
  <1>18. CASE BackupCopyStart
    BY <1>18 DEF BackupCopyStart, Fails, Backup
  <1>19. CASE BackupCopyDone
    BY <1>19 DEF BackupCopyDone, Backup
  <1>20. CASE BackupFailed
    BY <1>20 DEF BackupFailed, ReturnError, Fails, Backup, DiscardOwnBackup
  <1>33. CASE BackupSymlinkFailed
    <2>1. backup[cur] = NoFile /\ cur \in Binaries
      BY <1>33 DEF BackupSymlinkFailed, Fails
    <2>2. leftover' = leftover
      BY <1>33, <2>1 DEF BackupSymlinkFailed
    <2> QED
      BY <1>33, <2>2 DEF BackupSymlinkFailed, Fails, Backup
  <1>21. CASE Rename
    <2>1. leftover = NoFiles /\ dry = {}
      BY <1>21 DEF Rename
    <2>2. Unlinked({}) = {}
      BY DEF Unlinked
    <2>3. leftover' = NoFiles
      BY <1>21, <2>1, <2>2 DEF Rename
    <2> QED
      BY <1>21, <2>1, <2>3 DEF Rename
  <1>22. CASE RenameFailed
    BY <1>22 DEF RenameFailed, Fails, Backup, DiscardOwnBackup
  <1>23. CASE Restored
    BY <1>23 DEF Restored
  <1>24. ASSUME NEW b \in Binaries, Restore(b) PROVE LeftoversAreCommitted'
    BY <1>24 DEF Restore, Fails
  <1>25. CASE WriteMarker
    BY <1>25 DEF WriteMarker
  <1>26. CASE MarkerFailed
    BY <1>26 DEF MarkerFailed, Fails
  <1>27. CASE BackupsDropped
    BY <1>27 DEF BackupsDropped
  <1>28. CASE Unmark
    BY <1>28 DEF Unmark, Fails
  <1>29. ASSUME NEW b \in Binaries, DropBackup(b) PROVE LeftoversAreCommitted'
    BY <1>29 DEF DropBackup, Fails
  <1>30. CASE Finish
    BY <1>30 DEF Finish, Forget, NoTag
  <1>31. CASE Kill
    BY <1>31 DEF Kill, Forget, NoTag
  <1>32. CASE UNCHANGED vars
    BY <1>32 DEF vars
  <1> QED
    BY <1>1, <1>2, <1>3, <1>4, <1>5, <1>6, <1>7, <1>8, <1>9, <1>10, <1>11, <1>12, <1>13, <1>14, <1>15, <1>16, <1>17, <1>18, <1>19, <1>20, <1>21, <1>22, <1>23, <1>24, <1>25, <1>26, <1>27, <1>28, <1>29, <1>30, <1>31, <1>32, <1>33
    DEF Recover, Check, StageAll, TakeBackup, Replace, CommitSet, Step, Next

(* A backup outlives neither its restore nor its removal. *)
LEMMA BackupsOwnStep ==
  RollbackEnv /\ RollbackInv /\ [Next]_vars => BackupsAreItsOwn'
  <1> SUFFICES ASSUME RollbackEnv, RollbackInv, [Next]_vars
               PROVE  BackupsAreItsOwn'
    OBVIOUS
  <1> USE DEF RollbackEnv, RollbackInv, LeftoversAreCommitted, UndoIsKnown, BackupsAreItsOwn, Saved, Replacing, TypeOK, WholeRuns, ReplacedByThisRun, Committed, NoFiles, NoBackups, Version, File, Points, InstallPoints, StagePoints, AtOneBinary, BetweenBinaries, ToInstall,
              disk, request, listing, plan, candidates, history
  <1>1. ASSUME NEW r \in Requests, StartRun(r) PROVE BackupsAreItsOwn'
    BY <1>1 DEF StartRun
  <1>2. ASSUME NEW b \in Binaries, NEW f \in glob[b], DiscardLeftover(b, f) PROVE BackupsAreItsOwn'
    BY <1>2 DEF DiscardLeftover, Recovering, Handled, Fails
  <1>3. ASSUME NEW b \in Binaries, NEW f \in glob[b], RestoreLeftover(b, f) PROVE BackupsAreItsOwn'
    BY <1>3 DEF RestoreLeftover, Recovering, ReturnError, Fails, Unlinked
  <1>4. ASSUME NEW b \in Binaries, SweepCandidates(b) PROVE BackupsAreItsOwn'
    BY <1>4 DEF SweepCandidates, Swept, Recovering, Fails
  <1>5. CASE ClearOldMarker
    BY <1>5 DEF ClearOldMarker, ReturnError, Fails
  <1>6. CASE CheckFailed
    BY <1>6 DEF CheckFailed, ReturnError
  <1>7. CASE CheckCurrent
    BY <1>7 DEF CheckCurrent
  <1>8. ASSUME NEW U \in (SUBSET Binaries) \ {{}}, NEW t \in Tags, CheckAvailable(U, t) PROVE BackupsAreItsOwn'
    BY <1>8 DEF CheckAvailable
  <1>9. ASSUME NEW b \in Binaries, Stage(b) PROVE BackupsAreItsOwn'
    BY <1>9 DEF Stage
  <1>10. CASE StageFailed
    BY <1>10 DEF StageFailed, ReturnError
  <1>11. CASE Validated
    BY <1>11 DEF Validated
  <1>12. CASE Rejected
    BY <1>12 DEF Rejected, ReturnError
  <1>13. CASE AllStaged
    BY <1>13 DEF AllStaged
  <1>14. ASSUME NEW b \in Binaries, BackupNone(b) PROVE BackupsAreItsOwn'
    BY <1>14 DEF BackupNone
  <1>15. ASSUME NEW b \in Binaries, BackupReserve(b) PROVE BackupsAreItsOwn'
    BY <1>15 DEF BackupReserve, Fails
  <1>16. CASE BackupUnreserve
    BY <1>16 DEF BackupUnreserve, Fails, Backup
  <1>17. CASE BackupLink
    BY <1>17 DEF BackupLink, Backup
  <1>18. CASE BackupCopyStart
    BY <1>18 DEF BackupCopyStart, Fails, Backup
  <1>19. CASE BackupCopyDone
    BY <1>19 DEF BackupCopyDone, Backup
  <1>20. CASE BackupFailed
    BY <1>20 DEF BackupFailed, ReturnError, Fails, Backup, DiscardOwnBackup
  <1>33. CASE BackupSymlinkFailed
    BY <1>33 DEF BackupSymlinkFailed, Fails, Backup
  <1>21. CASE Rename
    BY <1>21 DEF Rename, Backup, Unlinked
  <1>22. CASE RenameFailed
    BY <1>22 DEF RenameFailed, Fails, Backup, DiscardOwnBackup
  <1>23. CASE Restored
    BY <1>23 DEF Restored
  <1>24. ASSUME NEW b \in Binaries, Restore(b) PROVE BackupsAreItsOwn'
    BY <1>24 DEF Restore, Fails
  <1>25. CASE WriteMarker
    BY <1>25 DEF WriteMarker
  <1>26. CASE MarkerFailed
    BY <1>26 DEF MarkerFailed, Fails
  <1>27. CASE BackupsDropped
    BY <1>27 DEF BackupsDropped
  <1>28. CASE Unmark
    BY <1>28 DEF Unmark, Fails
  <1>29. ASSUME NEW b \in Binaries, DropBackup(b) PROVE BackupsAreItsOwn'
    BY <1>29 DEF DropBackup, Fails
  <1>30. CASE Finish
    BY <1>30 DEF Finish, Forget, NoTag
  <1>31. CASE Kill
    BY <1>31 DEF Kill, Forget, NoTag
  <1>32. CASE UNCHANGED vars
    BY <1>32 DEF vars
  <1> QED
    BY <1>1, <1>2, <1>3, <1>4, <1>5, <1>6, <1>7, <1>8, <1>9, <1>10, <1>11, <1>12, <1>13, <1>14, <1>15, <1>16, <1>17, <1>18, <1>19, <1>20, <1>21, <1>22, <1>23, <1>24, <1>25, <1>26, <1>27, <1>28, <1>29, <1>30, <1>31, <1>32, <1>33
    DEF Recover, Check, StageAll, TakeBackup, Replace, CommitSet, Step, Next

(* What the run would put back is what was there. *)
LEMMA UndoStep ==
  RollbackEnv /\ RollbackInv /\ [Next]_vars => UndoIsKnown'
  <1> SUFFICES ASSUME RollbackEnv, RollbackInv, [Next]_vars
               PROVE  UndoIsKnown'
    OBVIOUS
  <1> USE DEF RollbackEnv, RollbackInv, LeftoversAreCommitted, UndoIsKnown, BackupsAreItsOwn, Saved, Replacing, TypeOK, WholeRuns, ReplacedByThisRun, Committed, NoFiles, NoBackups, Version, File, Points, InstallPoints, StagePoints, AtOneBinary, BetweenBinaries, ToInstall,
              disk, request, listing, plan, candidates, history
  <1>1. ASSUME NEW r \in Requests, StartRun(r) PROVE UndoIsKnown'
    BY <1>1 DEF StartRun
  <1>2. ASSUME NEW b \in Binaries, NEW f \in glob[b], DiscardLeftover(b, f) PROVE UndoIsKnown'
    BY <1>2 DEF DiscardLeftover, Recovering, Handled, Fails
  <1>3. ASSUME NEW b \in Binaries, NEW f \in glob[b], RestoreLeftover(b, f) PROVE UndoIsKnown'
    BY <1>3 DEF RestoreLeftover, Recovering, ReturnError, Fails, Unlinked
  <1>4. ASSUME NEW b \in Binaries, SweepCandidates(b) PROVE UndoIsKnown'
    BY <1>4 DEF SweepCandidates, Swept, Recovering, Fails
  <1>5. CASE ClearOldMarker
    BY <1>5 DEF ClearOldMarker, ReturnError, Fails
  <1>6. CASE CheckFailed
    BY <1>6 DEF CheckFailed, ReturnError
  <1>7. CASE CheckCurrent
    BY <1>7 DEF CheckCurrent
  <1>8. ASSUME NEW U \in (SUBSET Binaries) \ {{}}, NEW t \in Tags, CheckAvailable(U, t) PROVE UndoIsKnown'
    BY <1>8 DEF CheckAvailable
  <1>9. ASSUME NEW b \in Binaries, Stage(b) PROVE UndoIsKnown'
    BY <1>9 DEF Stage
  <1>10. CASE StageFailed
    BY <1>10 DEF StageFailed, ReturnError
  <1>11. CASE Validated
    BY <1>11 DEF Validated
  <1>12. CASE Rejected
    BY <1>12 DEF Rejected, ReturnError
  <1>13. CASE AllStaged
    BY <1>13 DEF AllStaged
  <1>14. ASSUME NEW b \in Binaries, BackupNone(b) PROVE UndoIsKnown'
    BY <1>14 DEF BackupNone
  <1>15. ASSUME NEW b \in Binaries, BackupReserve(b) PROVE UndoIsKnown'
    BY <1>15 DEF BackupReserve, Fails
  <1>16. CASE BackupUnreserve
    BY <1>16 DEF BackupUnreserve, Fails, Backup
  <1>17. CASE BackupLink
    BY <1>17 DEF BackupLink, Backup
  <1>18. CASE BackupCopyStart
    BY <1>18 DEF BackupCopyStart, Fails, Backup
  <1>19. CASE BackupCopyDone
    BY <1>19 DEF BackupCopyDone, Backup
  <1>20. CASE BackupFailed
    BY <1>20 DEF BackupFailed, ReturnError, Fails, Backup, DiscardOwnBackup
  <1>33. CASE BackupSymlinkFailed
    BY <1>33 DEF BackupSymlinkFailed, Fails, Backup
  <1>21. CASE Rename
    BY <1>21 DEF Rename, Backup, Unlinked
  <1>22. CASE RenameFailed
    BY <1>22 DEF RenameFailed, Fails, Backup, DiscardOwnBackup
  <1>23. CASE Restored
    BY <1>23 DEF Restored
  <1>24. ASSUME NEW b \in Binaries, Restore(b) PROVE UndoIsKnown'
    BY <1>24 DEF Restore, Fails
  <1>25. CASE WriteMarker
    BY <1>25 DEF WriteMarker
  <1>26. CASE MarkerFailed
    BY <1>26 DEF MarkerFailed, Fails
  <1>27. CASE BackupsDropped
    BY <1>27 DEF BackupsDropped
  <1>28. CASE Unmark
    BY <1>28 DEF Unmark, Fails
  <1>29. ASSUME NEW b \in Binaries, DropBackup(b) PROVE UndoIsKnown'
    BY <1>29 DEF DropBackup, Fails
  <1>30. CASE Finish
    BY <1>30 DEF Finish, Forget, NoTag
  <1>31. CASE Kill
    BY <1>31 DEF Kill, Forget, NoTag
  <1>32. CASE UNCHANGED vars
    BY <1>32 DEF vars
  <1> QED
    BY <1>1, <1>2, <1>3, <1>4, <1>5, <1>6, <1>7, <1>8, <1>9, <1>10, <1>11, <1>12, <1>13, <1>14, <1>15, <1>16, <1>17, <1>18, <1>19, <1>20, <1>21, <1>22, <1>23, <1>24, <1>25, <1>26, <1>27, <1>28, <1>29, <1>30, <1>31, <1>32, <1>33
    DEF Recover, Check, StageAll, TakeBackup, Replace, CommitSet, Step, Next

(* The invariant holds initially. *)
LEMMA RollbackInit == RollbackEnv /\ Init => RollbackInv
  <1> SUFFICES ASSUME RollbackEnv, Init PROVE RollbackInv
    OBVIOUS
  <1>1. TypeOK
    BY TypeInit
  <1> QED
    BY <1>1 DEF Init, RollbackInv, WholeRuns, ReplacedByThisRun, LeftoversAreCommitted, UndoIsKnown,
       BackupsAreItsOwn, Saved, Replacing, InstallPoints, StagePoints, AtOneBinary, ToInstall, Committed

(* Whichever binaries were absent, and whichever backup, rename or marker write failed, a run    *)
(* that returned has installed the promised set: the restore of installCandidates undoes it all. *)
THEOREM ReturnsWhole == RollbackEnv => (Spec => []ReturnedRunIsWhole)
  <1> SUFFICES ASSUME RollbackEnv PROVE Spec => []ReturnedRunIsWhole
    OBVIOUS
  <1>1. Init => RollbackInv
    BY RollbackInit
  <1>2. RollbackInv /\ [Next]_vars => RollbackInv'
    BY TypeStep, WholeRunsStep, ReplacedStep, CommittedLeftoversStep, BackupsOwnStep, UndoStep
       DEF RollbackInv, RollbackEnv
  <1>3. RollbackInv => ReturnedRunIsWhole
    BY DEF RollbackInv, UndoIsKnown, Replacing, InstallPoints, ReturnedRunIsWhole
  <1> QED
    BY <1>1, <1>2, <1>3, PTL DEF Spec
=============================================================================
