---------------------------- MODULE MCInstallSet ----------------------------
(* Small instances of InstallSet: two binaries, two or three releases. *)
EXTENDS InstallSet

CONSTANTS cli, tray, v1, v2

MCBinaries == {cli, tray}
MCTags == {v1, v2}
Whole == [names |-> MCBinaries, dry |-> {}]
WholeDry == [names |-> MCBinaries, dry |-> MCBinaries]

WholeRequests == {Whole}
DryRequests == {Whole, WholeDry}

\* The system calls whose failure the code undoes or reports.
SafeFaults == {"restore", "unmark", "reserve", "symlink", "link", "copy", "rename", "mark"}
RollbackFaults == SafeFaults \ {"restore"}
\* Everywhere but while a backup is an empty or half-written file.
SafeKillPoints == Points \ {"reserved", "copying"}
=============================================================================
