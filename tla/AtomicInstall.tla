--------------------------- MODULE AtomicInstall ---------------------------
(***************************************************************************)
(* What an update promises its user (the comment of ApplyAll in            *)
(* selfupdate/applyall.go): the binaries of one update change together.    *)
(* An update that was begun either takes effect on all its binaries in one *)
(* step or on none of them.  Module InstallSet, with its renames, backups, *)
(* commit marker, kills and recovery, implements this.                     *)
(***************************************************************************)
CONSTANTS Binaries, Tags, Absent, NoUpdate

VARIABLES current,   \* the version of each binary, as recovery would leave it
          pending    \* the update under way, or NoUpdate

aVars == <<current, pending>>

Update == [targets : (SUBSET Binaries) \ {{}}, tag : Tags]

AInit == /\ current \in [Binaries -> Tags \cup {Absent}]
         /\ pending = NoUpdate

Begin(u) == /\ pending = NoUpdate
            /\ pending' = u
            /\ UNCHANGED current

Commit == /\ pending # NoUpdate
          /\ current' = [b \in Binaries |->
                           IF b \in pending.targets THEN pending.tag ELSE current[b]]
          /\ pending' = NoUpdate

Abort == /\ pending # NoUpdate
         /\ pending' = NoUpdate
         /\ UNCHANGED current

ANext == (\E u \in Update : Begin(u)) \/ Commit \/ Abort

ASpec == AInit /\ [][ANext]_aVars
=============================================================================
