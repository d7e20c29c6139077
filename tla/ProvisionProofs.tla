--------------------------- MODULE ProvisionProofs ---------------------------
(***************************************************************************)
(* What holds of go-mk provision for any processes, assets, refs, settings *)
(* and faults.  The lock excludes two processes, and any number that run   *)
(* one after another; for more side by side it does as long as no lock is  *)
(* broken that was taken since its contender looked.  Under that same      *)
(* condition what .make records of itself is true.                         *)
(***************************************************************************)
EXTENDS Provision, FiniteSetTheorems, TLAPS

(* What the assumptions say of the constants. *)
LEMMA Bounds ==
    /\ None \notin Pids /\ Nameless \notin Pids /\ None # Nameless
    /\ MaxTries \in Nat /\ MaxKills \in Nat /\ Together \in Nat
    /\ MaxGen \in Nat /\ MaxFaults \in Nat /\ Settings # {}
  BY LockAssumption, ProvisionAssumption

-----------------------------------------------------------------------------
(* The lock. *)

(* What a step of go-mk provision does to the lock. *)
LockNext == \E p \in Pids : Start(p) \/ LockStep(p) \/ Leave(p) \/ Kill(p)

(* Every step of go-mk provision is one of the lock, or leaves it alone. *)
LEMMA StepOfLock ==
    ASSUME [Next]_vars
    PROVE  [LockNext]_lockVars
  <1>1. CASE \E r \in Refs : Move(r)
    BY <1>1 DEF Move
  <1>2. ASSUME NEW p \in Pids, Run(p) \/ Wait(p) \/ Return(p) \/ Killed(p)
        PROVE  LockNext
    BY <1>2 DEF Run, Wait, Return, Killed, LockNext
  <1>3. ASSUME NEW p \in Pids, WorkStep(p) \/ FaultStep(p), ~Return(p)
        PROVE  UNCHANGED lockVars
    BY <1>3 DEF WorkStep, FaultStep, Decide, Probe, Fetch, ClearState, ClearCommit, Install,
       Verify, RecordCommit, RecordState, ProbeFailed, FetchFailed, ClearFailed, InstallFailed
  <1>4. CASE UNCHANGED vars
    BY <1>4 DEF vars
  <1> QED
    BY <1>1, <1>2, <1>3, <1>4 DEF Next, WorkStep

(* The lock's variables keep to their types. *)
LEMMA LockTyped ==
    ASSUME LockTypeOK, [LockNext]_lockVars
    PROVE  LockTypeOK'
  <1>1. CASE UNCHANGED lockVars
    BY <1>1 DEF LockTypeOK, lockVars
  <1>2. ASSUME NEW p \in Pids, Start(p) PROVE LockTypeOK'
    BY <1>2 DEF LockTypeOK, Start, Goto
  <1>3. ASSUME NEW p \in Pids, Mkdir(p) PROVE LockTypeOK'
    BY <1>3 DEF LockTypeOK, Mkdir, Goto
  <1>4. ASSUME NEW p \in Pids, WritePid(p) PROVE LockTypeOK'
    BY <1>4 DEF LockTypeOK, WritePid, Goto, Became
  <1>5. ASSUME NEW p \in Pids, StatDir(p) PROVE LockTypeOK'
    BY <1>5 DEF LockTypeOK, StatDir, Goto, Became
  <1>6. ASSUME NEW p \in Pids, ReadPid(p) PROVE LockTypeOK'
    BY <1>6 DEF LockTypeOK, ReadPid, Goto
  <1>7. ASSUME NEW p \in Pids, Signal(p) PROVE LockTypeOK'
    BY <1>7 DEF LockTypeOK, Signal, Goto
  <1>8. ASSUME NEW p \in Pids, Break(p) PROVE LockTypeOK'
    BY <1>8 DEF LockTypeOK, Break, Goto
  <1>9. ASSUME NEW p \in Pids, Sleep(p) PROVE LockTypeOK'
    <2>1. tries' \in [Pids -> 0..MaxTries]
      BY <1>9, Bounds DEF LockTypeOK, Sleep
    <2> QED
      BY <1>9, <2>1 DEF LockTypeOK, Sleep, Goto, Became
  <1>10. ASSUME NEW p \in Pids, Leave(p) PROVE LockTypeOK'
    BY <1>10 DEF LockTypeOK, Leave, Goto
  <1>11. ASSUME NEW p \in Pids, RemovePid(p) PROVE LockTypeOK'
    BY <1>11 DEF LockTypeOK, RemovePid, Goto
  <1>12. ASSUME NEW p \in Pids, RemoveDir(p) PROVE LockTypeOK'
    BY <1>12 DEF LockTypeOK, RemoveDir, Goto
  <1>13. ASSUME NEW p \in Pids, Kill(p) PROVE LockTypeOK'
    <2>1. kills' \in 0..MaxKills
      BY <1>13, Bounds DEF LockTypeOK, Kill
    <2> QED
      BY <1>13, <2>1 DEF LockTypeOK, Kill, Goto
  <1> QED
    BY <1>1, <1>2, <1>3, <1>4, <1>5, <1>6, <1>7, <1>8, <1>9, <1>10, <1>11, <1>12, <1>13
       DEF LockNext, LockStep

(* The lock's types hold throughout. *)
LEMMA LockTypesHold == Spec => []LockTypeOK
  <1>1. Init => LockTypeOK
    BY Bounds DEF Init, LockInit, LockTypeOK
  <1>2. LockTypeOK /\ [Next]_vars => LockTypeOK'
    BY StepOfLock, LockTyped
  <1> QED
    BY <1>1, <1>2, PTL DEF Spec

(* Between its mkdir and the end of its clean-up a process owns the directory. *)
Owns(p) == pc[p] \in {"pid", "held", "unpid", "undir"}

(* The directory is its owner's: it names the one that holds, and no other owns it too. *)
OneOwner ==
    /\ \A p \in Pids : pc[p] \in {"pid", "undir"} => dir = Nameless
    /\ \A p \in Pids : pc[p] \in {"held", "unpid"} => dir = p
    /\ \A p, q \in Pids : Owns(p) /\ Owns(q) => p = q

(* A contender that is about to break a lock, for the process it saw is gone, breaks no lock    *)
(* that is another process's by now.                                                            *)
BreaksAreStale == \A p, q \in Pids : pc[p] = "break" /\ Owns(q) => FALSE

(* Where breaks are stale, no step of the lock gives it a second owner. *)
LEMMA OwnerStep ==
    ASSUME LockTypeOK, BreaksAreStale, OneOwner, [LockNext]_lockVars
    PROVE  OneOwner'
  <1> USE Bounds DEF LockTypeOK, OneOwner, Owns, Goto
  <1>1. CASE UNCHANGED lockVars
    BY <1>1 DEF lockVars
  <1>2. ASSUME NEW p \in Pids, Start(p) PROVE OneOwner'
    BY <1>2 DEF Start
  <1>3. ASSUME NEW p \in Pids, Mkdir(p) PROVE OneOwner'
    BY <1>3 DEF Mkdir
  <1>4. ASSUME NEW p \in Pids, WritePid(p) PROVE OneOwner'
    BY <1>4 DEF WritePid
  <1>5. ASSUME NEW p \in Pids, StatDir(p) PROVE OneOwner'
    BY <1>5 DEF StatDir
  <1>6. ASSUME NEW p \in Pids, ReadPid(p) PROVE OneOwner'
    BY <1>6 DEF ReadPid
  <1>7. ASSUME NEW p \in Pids, Signal(p) PROVE OneOwner'
    BY <1>7 DEF Signal
  <1>8. ASSUME NEW p \in Pids, Break(p) PROVE OneOwner'
    BY <1>8 DEF Break, BreaksAreStale
  <1>9. ASSUME NEW p \in Pids, Sleep(p) PROVE OneOwner'
    BY <1>9 DEF Sleep
  <1>10. ASSUME NEW p \in Pids, Leave(p) PROVE OneOwner'
    BY <1>10 DEF Leave
  <1>11. ASSUME NEW p \in Pids, RemovePid(p) PROVE OneOwner'
    BY <1>11 DEF RemovePid
  <1>12. ASSUME NEW p \in Pids, RemoveDir(p) PROVE OneOwner'
    BY <1>12 DEF RemoveDir
  <1>13. ASSUME NEW p \in Pids, Kill(p) PROVE OneOwner'
    BY <1>13 DEF Kill
  <1> QED
    BY <1>1, <1>2, <1>3, <1>4, <1>5, <1>6, <1>7, <1>8, <1>9, <1>10, <1>11, <1>12, <1>13
       DEF LockNext, LockStep

(* As long as breaks are stale, the directory is its one owner's. *)
LEMMA OwnerHolds == Spec /\ []BreaksAreStale => []OneOwner
  <1>1. Init => OneOwner
    BY DEF Init, LockInit, OneOwner, Owns
  <1>2. LockTypeOK /\ BreaksAreStale /\ OneOwner /\ [Next]_vars => OneOwner'
    BY StepOfLock, OwnerStep
  <1> QED
    BY <1>1, <1>2, LockTypesHold, PTL DEF Spec

(* For any number of processes: as long as breaks are stale, the lock has one holder and its     *)
(* directory names it (acquireProvisionLock, breakStaleProvisionLock).  The window between       *)
(* staleProvisionLock's signal and the rename is the only way to lose it.                        *)
THEOREM LockExcludes == Spec /\ []BreaksAreStale => [](MutualExclusion /\ LockNamesHolder)
  <1>1. OneOwner => MutualExclusion /\ LockNamesHolder
    BY DEF OneOwner, Owns, MutualExclusion, LockNamesHolder
  <1> QED
    BY <1>1, OwnerHolds, PTL

-----------------------------------------------------------------------------
(* Two processes: whoever breaks a lock is alone. *)

(* No third process. *)
AtMostTwo == \A p, q, r \in Pids : p = q \/ q = r \/ p = r

(* A contender has read another's pid, of one that was born; a directory names no contender;     *)
(* and while one of two breaks a lock the other has ended.                                       *)
BreaksAlone ==
    /\ \A p \in Pids : dir = p => pc[p] \in {"held", "unpid", "exited"}
    /\ \A p \in Pids : pc[p] = "signal" => saw[p] \in Pids \ {p} /\ pc[saw[p]] # "unborn"
    /\ \A p, q \in Pids : pc[p] = "break" => p = q \/ pc[q] = "exited"

(* Who is alone breaks no living process's lock. *)
LEMMA AloneIsStale ==
    ASSUME LockTypeOK, BreaksAlone
    PROVE  BreaksAreStale
  BY DEF BreaksAlone, BreaksAreStale, Owns

(* No step of two processes breaks the lock of a living one. *)
LEMMA AloneStep ==
    ASSUME AtMostTwo, LockTypeOK, OneOwner, BreaksAlone, [LockNext]_lockVars
    PROVE  BreaksAlone'
  <1> USE Bounds DEF LockTypeOK, BreaksAlone, Goto
  <1>1. CASE UNCHANGED lockVars
    BY <1>1 DEF lockVars
  <1>2. ASSUME NEW p \in Pids, Start(p) PROVE BreaksAlone'
    BY <1>2 DEF Start
  <1>3. ASSUME NEW p \in Pids, Mkdir(p) PROVE BreaksAlone'
    BY <1>3 DEF Mkdir
  <1>4. ASSUME NEW p \in Pids, WritePid(p) PROVE BreaksAlone'
    BY <1>4 DEF WritePid, OneOwner, Owns
  <1>5. ASSUME NEW p \in Pids, StatDir(p) PROVE BreaksAlone'
    BY <1>5 DEF StatDir
  <1>6. ASSUME NEW p \in Pids, ReadPid(p) PROVE BreaksAlone'
    BY <1>6 DEF ReadPid
  <1>7. ASSUME NEW p \in Pids, Signal(p) PROVE BreaksAlone'
    <2>1. saw[p] \in Pids \ {p} /\ pc[saw[p]] # "unborn"
      BY <1>7 DEF Signal
    <2>2. pc'[p] = "break" => pc[saw[p]] = "exited"
      BY <1>7, <2>1 DEF Signal, Alive
    <2>3. \A q \in Pids : q = p \/ q = saw[p]
      BY <2>1 DEF AtMostTwo
    <2> QED
      BY <1>7, <2>1, <2>2, <2>3 DEF Signal
  <1>8. ASSUME NEW p \in Pids, Break(p) PROVE BreaksAlone'
    BY <1>8 DEF Break
  <1>9. ASSUME NEW p \in Pids, Sleep(p) PROVE BreaksAlone'
    BY <1>9 DEF Sleep
  <1>10. ASSUME NEW p \in Pids, Leave(p) PROVE BreaksAlone'
    BY <1>10 DEF Leave
  <1>11. ASSUME NEW p \in Pids, RemovePid(p) PROVE BreaksAlone'
    BY <1>11 DEF RemovePid, OneOwner, Owns
  <1>12. ASSUME NEW p \in Pids, RemoveDir(p) PROVE BreaksAlone'
    BY <1>12 DEF RemoveDir, OneOwner, Owns
  <1>13. ASSUME NEW p \in Pids, Kill(p) PROVE BreaksAlone'
    BY <1>13 DEF Kill, Alive
  <1> QED
    BY <1>1, <1>2, <1>3, <1>4, <1>5, <1>6, <1>7, <1>8, <1>9, <1>10, <1>11, <1>12, <1>13
       DEF LockNext, LockStep

(* Of two processes, breaks are stale. *)
LEMMA StaleOfTwo == ASSUME AtMostTwo PROVE Spec => []BreaksAreStale
  <1>1. Init => OneOwner /\ BreaksAlone
    BY Bounds DEF Init, LockInit, OneOwner, Owns, BreaksAlone
  <1>2. LockTypeOK /\ OneOwner /\ BreaksAlone /\ [Next]_vars => OneOwner' /\ BreaksAlone'
    BY StepOfLock, OwnerStep, AloneStep, AloneIsStale
  <1>3. LockTypeOK /\ BreaksAlone => BreaksAreStale
    BY AloneIsStale
  <1> QED
    BY <1>1, <1>2, <1>3, LockTypesHold, PTL DEF Spec

-----------------------------------------------------------------------------
(* Processes one after another. *)

(* No two processes are alive. *)
OneAlive == \A p, q \in Pids : Alive(p) /\ Alive(q) => p = q

(* A process starts when fewer than Together are alive: when that is one, when none is. *)
LEMMA OneAliveStep ==
    ASSUME Together = 1, LockTypeOK, OneAlive, [LockNext]_lockVars
    PROVE  OneAlive'
  <1> USE DEF Alive
  <1>1. CASE UNCHANGED lockVars
    BY <1>1 DEF lockVars, OneAlive
  <1>2. ASSUME NEW p \in Pids, Start(p) PROVE OneAlive'
    <2> DEFINE living == {q \in Pids : Alive(q)}
    <2>1. IsFiniteSet(living)
      BY FS_Subset, LockAssumption
    <2>2. Cardinality(living) = 0
      BY <1>2, <2>1, FS_CardinalityType DEF Start
    <2>3. living = {}
      BY <2>1, <2>2, FS_EmptySet
    <2> QED
      BY <1>2, <2>3 DEF Start, Goto, LockTypeOK, OneAlive
  <1>3. ASSUME NEW p \in Pids, LockStep(p) \/ Leave(p) \/ Kill(p) PROVE OneAlive'
    <2>1. PICK label : Goto(p, label) /\ Alive(p)
      BY <1>3 DEF LockStep, Mkdir, WritePid, StatDir, ReadPid, Signal, Break, Sleep, RemovePid,
         RemoveDir, Leave, Kill
    <2> QED
      BY <2>1 DEF Goto, LockTypeOK, OneAlive
  <1> QED
    BY <1>1, <1>2, <1>3 DEF LockNext

(* Of processes one after another, breaks are stale. *)
LEMMA StaleOfOne == ASSUME Together = 1 PROVE Spec => []BreaksAreStale
  <1>1. Init => OneAlive
    BY DEF Init, LockInit, OneAlive, Alive
  <1>2. LockTypeOK /\ OneAlive /\ [Next]_vars => OneAlive'
    BY StepOfLock, OneAliveStep
  <1>3. OneAlive => BreaksAreStale
    BY DEF OneAlive, BreaksAreStale, Owns, Alive
  <1> QED
    BY <1>1, <1>2, <1>3, LockTypesHold, PTL DEF Spec

(* Two processes that provision the same directory, or any number one after another, however     *)
(* they are killed and however often they try, exclude one another, and the directory names the  *)
(* holder.                                                                                       *)
THEOREM FewExclude ==
    ASSUME AtMostTwo \/ Together = 1
    PROVE  Spec => [](MutualExclusion /\ LockNamesHolder)
  <1>1. Spec => []BreaksAreStale
    BY StaleOfTwo, StaleOfOne
  <1> QED
    BY <1>1, LockExcludes, PTL

-----------------------------------------------------------------------------
(* What a run does between taking and releasing the lock. *)

(* The types of what .make holds, of what a run knows, and of how it is going. *)
TreeTypes ==
    /\ upstream \in [Refs -> 0..MaxGen] /\ asset \in [Assets -> Contents]
    /\ fstate \in Trees \cup {NoTree} /\ commit \in Trees \cup {NoTree}
    /\ faults \in 0..MaxFaults /\ vouched \subseteq Assets
RunTypes ==
    /\ cfg \in [Pids -> Settings] /\ work \in [Pids -> Works]
    /\ cached \in [Pids -> BOOLEAN] /\ known \in [Pids -> Trees \cup {NoTree}]
    /\ src \in [Pids -> Contents] /\ todo \in [Pids -> SUBSET Assets]
    /\ way \in [Pids -> Ways]

(* A run installs the tree it has downloaded, unless it copies the developer's; one that was not *)
(* started or has nothing decided knows nothing.                                                 *)
RunsAreReady ==
    /\ \A p \in Pids : pc[p] = "unborn" => work[p] = "idle"
    /\ \A p \in Pids : work[p] \in {"idle", "decide"} => ~cached[p]
    /\ \A p \in Pids :
          /\ work[p] \in {"clear", "clearCommit", "install", "verify", "commit", "record"}
          /\ ~cfg[p].dev
          => src[p] \in Trees
    /\ \A p \in Pids : work[p] \in {"commit", "record"} => ~cfg[p].dev

ProvisionTypes == TreeTypes /\ RunTypes /\ RunsAreReady

(* What the helpers of a run are. *)
LEMMA HelperTypes ==
    ASSUME RunTypes, TreeTypes, NEW p \in Pids
    PROVE  /\ Required(p) \subseteq Assets /\ cfg[p].ref \in Refs
           /\ [ref |-> cfg[p].ref, gen |-> upstream[cfg[p].ref]] \in Trees
           /\ Fault => faults' \in 0..MaxFaults
  <1>1. cfg[p] \in [mods : SUBSET Modules, ref : Refs, dev : BOOLEAN, vendored : BOOLEAN, ci : BOOLEAN]
    BY ProvisionAssumption DEF RunTypes
  <1>2. cfg[p].mods \subseteq Modules /\ cfg[p].ref \in Refs
    BY <1>1
  <1>3. Required(p) \subseteq Assets
    BY <1>2 DEF Required, Assets
  <1>4. [ref |-> cfg[p].ref, gen |-> upstream[cfg[p].ref]] \in Trees
    BY <1>2 DEF Trees, TreeTypes
  <1>5. Fault => faults' \in 0..MaxFaults
    BY Bounds DEF Fault, TreeTypes
  <1> QED
    BY <1>2, <1>3, <1>4, <1>5

(* A run that ends, with what it served or with an error, keeps the types. *)
LEMMA EndTyped ==
    ASSUME ProvisionTypes, NEW p \in Pids, NEW how \in Ways, End(p, how), UNCHANGED <<pc, cfg, src>>,
           pc[p] = "held"
    PROVE  RunTypes' /\ RunsAreReady'
  <1>1. RunTypes'
    BY DEF ProvisionTypes, RunTypes, End, Do, Works
  <1>2. RunsAreReady'
    BY DEF ProvisionTypes, RunTypes, RunsAreReady, End, Do
  <1> QED
    BY <1>1, <1>2

(* A run that is over keeps the types: its memory is that of one not started. *)
LEMMA ForgetTyped ==
    ASSUME ProvisionTypes, NEW p \in Pids, Forget(p), \A q \in Pids : pc'[q] = "unborn" => pc[q] = "unborn"
    PROVE  ProvisionTypes'
  <1>1. FirstSetting \in Settings
    BY ProvisionAssumption DEF FirstSetting
  <1>2. RunTypes'
    BY <1>1 DEF ProvisionTypes, RunTypes, Forget, Do, Works, Contents, Ways
  <1>3. TreeTypes'
    BY DEF ProvisionTypes, TreeTypes, Forget
  <1>4. RunsAreReady'
    BY DEF ProvisionTypes, RunTypes, RunsAreReady, Forget, Do
  <1> QED
    BY <1>2, <1>3, <1>4 DEF ProvisionTypes

(* Every step of a run keeps the types, and what makes a run ready for its next step. *)
LEMMA ProvisionTyped ==
    ASSUME LockTypeOK, ProvisionTypes, [Next]_vars
    PROVE  ProvisionTypes'
  <1>1. ASSUME NEW r \in Refs, Move(r) PROVE ProvisionTypes'
    <2>1. TreeTypes'
      BY <1>1, Bounds DEF Move, ProvisionTypes, TreeTypes
    <2>2. RunTypes' /\ RunsAreReady'
      BY <1>1 DEF Move, ProvisionTypes, RunTypes, RunsAreReady, lockVars
    <2> QED
      BY <2>1, <2>2 DEF ProvisionTypes
  <1>2. ASSUME NEW p \in Pids, Run(p) PROVE ProvisionTypes'
    <2>1. TreeTypes'
      BY <1>2 DEF Run, ProvisionTypes, TreeTypes
    <2>2. RunTypes'
      BY <1>2 DEF Run, Do, ProvisionTypes, RunTypes, Works
    <2>3. RunsAreReady'
      BY <1>2 DEF Run, Do, Start, Goto, LockTypeOK, ProvisionTypes, RunTypes, RunsAreReady
    <2> QED
      BY <2>1, <2>2, <2>3 DEF ProvisionTypes
  <1>3. ASSUME NEW p \in Pids, Wait(p) PROVE ProvisionTypes'
    <2>1. \A q \in Pids : pc'[q] = "unborn" => pc[q] = "unborn"
      BY <1>3 DEF Wait, LockStep, Mkdir, WritePid, StatDir, ReadPid, Signal, Break, Sleep,
         RemovePid, RemoveDir, Goto, LockTypeOK
    <2> QED
      BY <1>3, <2>1 DEF Wait, provVars, ProvisionTypes, TreeTypes, RunTypes, RunsAreReady
  <1>4. ASSUME NEW p \in Pids, Killed(p) \/ Return(p) PROVE ProvisionTypes'
    <2>1. Forget(p) /\ \E label : Goto(p, label) /\ label # "unborn"
      BY <1>4 DEF Killed, Return, Kill, Leave
    <2>2. \A q \in Pids : pc'[q] = "unborn" => pc[q] = "unborn"
      BY <2>1 DEF Goto, LockTypeOK
    <2> QED
      BY <2>1, <2>2, ForgetTyped
  <1>5. ASSUME NEW p \in Pids, Decide(p) PROVE ProvisionTypes'
    <2>1. TreeTypes' /\ UNCHANGED <<pc, cfg, src>> /\ pc[p] = "held"
      BY <1>5 DEF Decide, At, ProvisionTypes, TreeTypes, lockVars
    <2>2. CASE \E how \in Ways : End(p, how)
      BY <2>1, <2>2, EndTyped DEF ProvisionTypes
    <2>3. CASE Do(p, "clear") /\ UNCHANGED ends /\ cfg[p].dev
      BY <2>1, <2>3 DEF Do, ends, ProvisionTypes, RunTypes, RunsAreReady, Works
    <2>4. ASSUME NEW b \in BOOLEAN, cached' = [cached EXCEPT ![p] = b], UNCHANGED <<way, todo>>,
                 \/ known' = [known EXCEPT ![p] = fstate] /\ Do(p, "probe")
                 \/ UNCHANGED known /\ Do(p, "fetch")
          PROVE  ProvisionTypes'
      <3>1. RunTypes'
        BY <2>1, <2>4 DEF Do, ProvisionTypes, TreeTypes, RunTypes, Works
      <3>2. RunsAreReady'
        BY <2>1, <2>4 DEF Do, ProvisionTypes, RunTypes, RunsAreReady
      <3> QED
        BY <2>1, <3>1, <3>2 DEF ProvisionTypes
    <2> QED
      BY <1>5, <2>2, <2>3, <2>4 DEF Decide, Ways, Complete
  <1>6. ASSUME NEW p \in Pids, Probe(p) PROVE ProvisionTypes'
    <2>1. TreeTypes' /\ UNCHANGED <<pc, cfg, src>> /\ pc[p] = "held"
      BY <1>6 DEF Probe, At, ProvisionTypes, TreeTypes, lockVars
    <2>2. CASE End(p, "notModified")
      BY <2>1, <2>2, EndTyped DEF ProvisionTypes, Ways
    <2>3. CASE Do(p, "fetch") /\ UNCHANGED ends
      BY <2>1, <2>3 DEF Do, ends, ProvisionTypes, RunTypes, RunsAreReady, Works
    <2> QED
      BY <1>6, <2>2, <2>3 DEF Probe
  <1>7. ASSUME NEW p \in Pids, Fetch(p) PROVE ProvisionTypes'
    <2>1. TreeTypes' /\ UNCHANGED <<pc, cfg>>
      BY <1>7 DEF Fetch, ProvisionTypes, TreeTypes, lockVars
    <2>2. PICK t \in Trees : src' = [src EXCEPT ![p] = t]
      BY <1>7, HelperTypes DEF Fetch, ProvisionTypes
    <2>3. RunTypes'
      BY <1>7, <2>2 DEF Fetch, Do, ends, ProvisionTypes, RunTypes, Works, Contents
    <2>4. RunsAreReady'
      BY <1>7, <2>1, <2>2 DEF Fetch, At, Do, ends, ProvisionTypes, RunTypes, RunsAreReady
    <2> QED
      BY <2>1, <2>3, <2>4 DEF ProvisionTypes
  <1>8. ASSUME NEW p \in Pids, ClearState(p) PROVE ProvisionTypes'
    BY <1>8 DEF ClearState, At, Do, ends, lockVars, ProvisionTypes, TreeTypes, RunTypes, RunsAreReady, Works
  <1>9. ASSUME NEW p \in Pids, ClearCommit(p) PROVE ProvisionTypes'
    <2>1. TreeTypes' /\ UNCHANGED <<pc, cfg>>
      BY <1>9 DEF ClearCommit, ProvisionTypes, TreeTypes, lockVars
    <2>2. src' = [src EXCEPT ![p] = IF cfg[p].dev THEN DevTree ELSE src[p]]
      BY <1>9 DEF ClearCommit
    <2>3. PICK s \in SUBSET Assets : todo' = [todo EXCEPT ![p] = s]
      BY <1>9, HelperTypes DEF ClearCommit, ProvisionTypes
    <2>4. RunTypes'
      BY <1>9, <2>2, <2>3 DEF ClearCommit, Do, ProvisionTypes, RunTypes, Works, Contents
    <2>5. RunsAreReady'
      BY <1>9, <2>1, <2>2 DEF ClearCommit, At, Do, ProvisionTypes, RunTypes, RunsAreReady
    <2> QED
      BY <2>1, <2>4, <2>5 DEF ProvisionTypes
  <1>10. ASSUME NEW p \in Pids, Install(p) PROVE ProvisionTypes'
    <2>1. UNCHANGED <<pc, cfg, src, cached, known, way>> /\ pc[p] = "held" /\ work[p] = "install"
      BY <1>10 DEF Install, At, lockVars
    <2>2. CASE \E a \in todo[p] : /\ asset' = [asset EXCEPT ![a] = src[p]]
                                   /\ todo' = [todo EXCEPT ![p] = @ \ {a}] /\ UNCHANGED work
      <3>1. TreeTypes'
        BY <1>10, <2>2 DEF Install, ProvisionTypes, TreeTypes, RunTypes
      <3>2. RunTypes' /\ RunsAreReady'
        BY <2>1, <2>2 DEF ProvisionTypes, RunTypes, RunsAreReady
      <3> QED
        BY <3>1, <3>2 DEF ProvisionTypes
    <2>3. CASE Do(p, "verify") /\ UNCHANGED <<asset, todo>>
      <3>1. TreeTypes'
        BY <1>10, <2>3 DEF Install, ProvisionTypes, TreeTypes
      <3>2. RunTypes' /\ RunsAreReady'
        BY <2>1, <2>3 DEF Do, ProvisionTypes, RunTypes, RunsAreReady, Works
      <3> QED
        BY <3>1, <3>2 DEF ProvisionTypes
    <2> QED
      BY <1>10, <2>2, <2>3 DEF Install
  <1>11. ASSUME NEW p \in Pids, Verify(p) PROVE ProvisionTypes'
    <2>1. TreeTypes' /\ UNCHANGED <<pc, cfg, src>> /\ pc[p] = "held" /\ work[p] = "verify"
      BY <1>11 DEF Verify, At, ProvisionTypes, TreeTypes, lockVars
    <2>2. CASE \E how \in Ways : End(p, how)
      BY <2>1, <2>2, EndTyped DEF ProvisionTypes
    <2>3. CASE Do(p, "commit") /\ UNCHANGED ends /\ ~cfg[p].dev
      BY <2>1, <2>3 DEF Do, ends, ProvisionTypes, RunTypes, RunsAreReady, Works
    <2> QED
      BY <1>11, <2>2, <2>3 DEF Verify, Fallback, Ways
  <1>12. ASSUME NEW p \in Pids, RecordCommit(p) PROVE ProvisionTypes'
    <2>1. src[p] \in Trees
      BY <1>12 DEF RecordCommit, At, ProvisionTypes, RunsAreReady
    <2>2. TreeTypes'
      BY <1>12, <2>1, HelperTypes DEF RecordCommit, ProvisionTypes, TreeTypes
    <2>3. RunTypes' /\ RunsAreReady'
      BY <1>12 DEF RecordCommit, At, Do, ends, lockVars, ProvisionTypes, RunTypes, RunsAreReady, Works
    <2> QED
      BY <2>2, <2>3 DEF ProvisionTypes
  <1>13. ASSUME NEW p \in Pids, RecordState(p) PROVE ProvisionTypes'
    <2>1. src[p] \in Trees
      BY <1>13 DEF RecordState, At, ProvisionTypes, RunsAreReady
    <2>2. TreeTypes'
      BY <1>13, <2>1, HelperTypes DEF RecordState, ProvisionTypes, TreeTypes
    <2>3. UNCHANGED <<pc, cfg, src>> /\ pc[p] = "held" /\ End(p, "fetched")
      BY <1>13 DEF RecordState, At, lockVars
    <2> QED
      BY <2>2, <2>3, EndTyped DEF ProvisionTypes, Ways
  <1>14. ASSUME NEW p \in Pids, FaultStep(p) PROVE ProvisionTypes'
    <2>1. /\ UNCHANGED <<pc, cfg, src, upstream, asset, fstate, commit, vouched>> /\ pc[p] = "held"
          /\ Fault /\ Fallback(p)
      BY <1>14 DEF FaultStep, ProbeFailed, FetchFailed, ClearFailed, InstallFailed, At, lockVars
    <2>2. TreeTypes'
      BY <2>1, HelperTypes DEF ProvisionTypes, TreeTypes
    <2> QED
      BY <2>1, <2>2, EndTyped DEF ProvisionTypes, Ways, Fallback
  <1>15. CASE UNCHANGED vars
    BY <1>15 DEF vars, lockVars, provVars, ProvisionTypes, TreeTypes, RunTypes, RunsAreReady
  <1> QED
    BY <1>1, <1>2, <1>3, <1>4, <1>5, <1>6, <1>7, <1>8, <1>9, <1>10, <1>11, <1>12, <1>13, <1>14, <1>15
       DEF Next, WorkStep, FaultStep

(* The types hold throughout, with those of the lock. *)
LEMMA TypesHold == Spec => [](LockTypeOK /\ ProvisionTypes)
  <1>1. Init => ProvisionTypes
    <2> SUFFICES ASSUME Init PROVE ProvisionTypes
      OBVIOUS
    <2>1. FirstSetting \in Settings
      BY ProvisionAssumption DEF FirstSetting
    <2>2. TreeTypes
      BY Bounds DEF Init, TreeTypes, Contents
    <2>3. RunTypes
      BY <2>1 DEF Init, RunTypes, Works, Ways, Contents
    <2>4. RunsAreReady
      BY DEF Init, LockInit, RunsAreReady
    <2> QED
      BY <2>2, <2>3, <2>4 DEF ProvisionTypes
  <1>2. LockTypeOK /\ ProvisionTypes /\ [Next]_vars => ProvisionTypes'
    BY ProvisionTyped
  <1> QED
    BY <1>1, <1>2, LockTypesHold, PTL DEF Spec

(* Every variable keeps to its type, for any processes, assets, settings and faults. *)
THEOREM TypeCorrect == Spec => []TypeOK
  <1>1. LockTypeOK /\ ProvisionTypes => TypeOK
    BY DEF ProvisionTypes, TreeTypes, RunTypes, TypeOK
  <1> QED
    BY <1>1, TypesHold, PTL

-----------------------------------------------------------------------------
(* A run in CI: no cached assets, no conditional request, no work on a tree it was told is     *)
(* complete, and no answer but its own download's, its checkout's or that tree's.              *)
CIRunsDownload ==
    \A p \in Pids : cfg[p].ci =>
        /\ ~cached[p] /\ work[p] # "probe"
        /\ work[p] \notin {"idle", "decide", "done"} => cfg[p].dev \/ ~cfg[p].vendored
        /\ work[p] = "done" =>
             way[p] \in {"error", IF cfg[p].dev THEN "dev"
                                 ELSE IF cfg[p].vendored THEN "vendored" ELSE "fetched"}

(* No step gives a run in CI anything but a download to end with. *)
LEMMA CIStep ==
    ASSUME LockTypeOK, ProvisionTypes, CIRunsDownload, [Next]_vars
    PROVE  CIRunsDownload'
  <1> USE DEF ProvisionTypes, RunTypes, RunsAreReady, CIRunsDownload, lockVars
  <1>1. ASSUME NEW r \in Refs, Move(r) PROVE CIRunsDownload'
    BY <1>1 DEF Move
  <1>2. ASSUME NEW p \in Pids, Run(p) PROVE CIRunsDownload'
    BY <1>2 DEF Run, Start, Do
  <1>3. ASSUME NEW p \in Pids, Wait(p) PROVE CIRunsDownload'
    BY <1>3 DEF Wait, provVars
  <1>4. ASSUME NEW p \in Pids, Killed(p) \/ Return(p) PROVE CIRunsDownload'
    BY <1>4 DEF Killed, Return, Forget, Do
  <1>5. ASSUME NEW p \in Pids, Decide(p) PROVE CIRunsDownload'
    BY <1>5 DEF Decide, At, Do, End, ends
  <1>6. ASSUME NEW p \in Pids, Probe(p) PROVE CIRunsDownload'
    BY <1>6 DEF Probe, At, Do, End, ends
  <1>7. ASSUME NEW p \in Pids, Fetch(p) PROVE CIRunsDownload'
    BY <1>7 DEF Fetch, At, Do, ends
  <1>8. ASSUME NEW p \in Pids, ClearState(p) \/ ClearCommit(p) PROVE CIRunsDownload'
    BY <1>8 DEF ClearState, ClearCommit, At, Do, ends
  <1>9. ASSUME NEW p \in Pids, Install(p) PROVE CIRunsDownload'
    BY <1>9 DEF Install, At, Do
  <1>10. ASSUME NEW p \in Pids, Verify(p) PROVE CIRunsDownload'
    BY <1>10 DEF Verify, At, Do, End, ends, Fallback
  <1>11. ASSUME NEW p \in Pids, RecordCommit(p) PROVE CIRunsDownload'
    BY <1>11 DEF RecordCommit, At, Do, ends
  <1>12. ASSUME NEW p \in Pids, RecordState(p) PROVE CIRunsDownload'
    BY <1>12 DEF RecordState, At, Do, End
  <1>13. ASSUME NEW p \in Pids, FaultStep(p) PROVE CIRunsDownload'
    <2>1. Fallback(p) /\ UNCHANGED cfg
      BY <1>13 DEF FaultStep, ProbeFailed, FetchFailed, ClearFailed, InstallFailed
    <2> QED
      BY <2>1 DEF Fallback, End, Do
  <1>14. CASE UNCHANGED vars
    BY <1>14 DEF vars, provVars
  <1> QED
    BY <1>1, <1>2, <1>3, <1>4, <1>5, <1>6, <1>7, <1>8, <1>9, <1>10, <1>11, <1>12, <1>13, <1>14
       DEF Next, WorkStep, FaultStep

(* In CI a run that was given neither a checkout nor _GO_MK_PROVISIONED=1 succeeds only with the *)
(* archive it downloaded itself, for any settings, processes and faults: neither assets on disk  *)
(* nor a 304 stands in; one that was told that .make is provisioned rests on a complete tree     *)
(* alone (provisionAssets).                                                                      *)
THEOREM CIDownloads == Spec => []CINeverServesDisk
  <1>1. Init => CIRunsDownload
    BY DEF Init, CIRunsDownload
  <1>2. LockTypeOK /\ ProvisionTypes /\ CIRunsDownload /\ [Next]_vars => CIRunsDownload'
    BY CIStep
  <1>3. CIRunsDownload => CINeverServesDisk
    BY DEF CIRunsDownload, CINeverServesDisk, At
  <1> QED
    BY <1>1, <1>2, <1>3, TypesHold, PTL DEF Spec

-----------------------------------------------------------------------------
(* What .make records of itself, while one run at a time is at work on it. *)

(* Nobody works without the lock. *)
HoldersWork == \A p \in Pids : work[p] \in {"idle", "decide"} \/ pc[p] = "held"

(* The records of .make: none while a run replaces the assets, and true ones before and after.   *)
RecordsAreCleared ==
    \A p \in Pids :
        /\ work[p] \in {"clearCommit", "install", "verify", "commit", "record"} => fstate = NoTree
        /\ work[p] \in {"install", "verify", "commit"} => commit = NoTree
(* What a run has installed so far of the assets it needs. *)
InstalledSoFar ==
    \A p \in Pids :
        /\ ~cfg[p].dev /\ work[p] = "install"
               => \A a \in Required(p) \ todo[p] : asset[a] = src[p]
        /\ ~cfg[p].dev /\ work[p] \in {"verify", "commit", "record"}
               => \A a \in Required(p) : asset[a] = src[p]
(* The inductive invariant of .make under its lock. *)
TreeInv == HoldersWork /\ RecordsAreCleared /\ InstalledSoFar /\ TreeIsTrue

(* Where nobody touches .make, what it says stays true. *)
LEMMA TreeUntouched ==
    ASSUME TreeInv, UNCHANGED <<asset, fstate, commit, vouched>>, NEW p \in Pids,
           \A q \in Pids \ {p} : pc'[q] = pc[q] /\ work'[q] = work[q] /\ cfg'[q] = cfg[q]
                                /\ src'[q] = src[q] /\ todo'[q] = todo[q] /\ way'[q] = way[q],
           \/ work'[p] \in {"idle", "decide"}
           \/ /\ work'[p] = "done" /\ way'[p] # "fetched" /\ pc'[p] = "held"
           \/ /\ pc'[p] = "held" /\ work'[p] \in {"probe", "fetch", "clear"}
    PROVE  TreeInv'
  <1>1. HoldersWork'
    BY DEF TreeInv, HoldersWork
  <1>2. RecordsAreCleared'
    BY DEF TreeInv, RecordsAreCleared
  <1>3. InstalledSoFar'
    BY DEF TreeInv, InstalledSoFar, Required
  <1>4. StateVouches' /\ CommitMatchesTree'
    BY DEF TreeInv, TreeIsTrue, StateVouches, CommitMatchesTree
  <1>5. FetchedIsWhole'
    BY DEF TreeInv, TreeIsTrue, FetchedIsWhole, At, Required
  <1> QED
    BY <1>1, <1>2, <1>3, <1>4, <1>5 DEF TreeInv, TreeIsTrue

(* Under the lock, no step of a run makes a record of .make untrue. *)
LEMMA TreeStep ==
    ASSUME LockTypeOK, ProvisionTypes, MutualExclusion, TreeInv, [Next]_vars
    PROVE  TreeInv'
  <1> USE DEF ProvisionTypes, RunTypes, lockVars
  <1>1. ASSUME NEW r \in Refs, Move(r) PROVE TreeInv'
    BY <1>1 DEF Move, TreeInv, HoldersWork, RecordsAreCleared, InstalledSoFar, TreeIsTrue,
       StateVouches, CommitMatchesTree, FetchedIsWhole, At, Required
  <1>2. ASSUME NEW p \in Pids, Run(p) PROVE TreeInv'
    BY <1>2, TreeUntouched DEF Run, Start, Goto, Do, LockTypeOK
  <1>3. ASSUME NEW p \in Pids, Wait(p) PROVE TreeInv'
    <2>1. PICK label : Goto(p, label) /\ pc[p] # "held"
      BY <1>3 DEF Wait, LockStep, Mkdir, WritePid, StatDir, ReadPid, Signal, Break, Sleep,
         RemovePid, RemoveDir
    <2>2. work[p] \in {"idle", "decide"}
      BY <2>1 DEF TreeInv, HoldersWork
    <2> QED
      BY <1>3, <2>1, <2>2, TreeUntouched DEF Wait, provVars, Goto, LockTypeOK
  <1>4. ASSUME NEW p \in Pids, Killed(p) \/ Return(p) PROVE TreeInv'
    BY <1>4, TreeUntouched DEF Killed, Kill, Return, Leave, Goto, Forget, Do, LockTypeOK
  <1>5. ASSUME NEW p \in Pids, Decide(p) PROVE TreeInv'
    BY <1>5, TreeUntouched DEF Decide, At, Do, End, ends
  <1>6. ASSUME NEW p \in Pids, Probe(p) PROVE TreeInv'
    BY <1>6, TreeUntouched DEF Probe, At, Do, End, ends
  <1>7. ASSUME NEW p \in Pids, Fetch(p) PROVE TreeInv'
    BY <1>7, TreeUntouched DEF Fetch, At, Do, ends
  <1>8. ASSUME NEW p \in Pids, FaultStep(p) PROVE TreeInv'
    <2>1. /\ Fallback(p) /\ UNCHANGED <<pc, cfg, src, asset, fstate, commit, vouched>> /\ pc[p] = "held"
      BY <1>8 DEF FaultStep, ProbeFailed, FetchFailed, ClearFailed, InstallFailed, At
    <2> QED
      BY <2>1, TreeUntouched DEF Fallback, Do, End
  <1>9. ASSUME NEW p \in Pids, WorkStep(p), pc[p] = "held"
        PROVE  \A q \in Pids \ {p} : pc[q] # "held" /\ work[q] \in {"idle", "decide"}
    BY <1>9 DEF MutualExclusion, TreeInv, HoldersWork
  <1>10. ASSUME NEW p \in Pids, ClearState(p) PROVE TreeInv'
    BY <1>9, <1>10 DEF WorkStep, ClearState, At, Do, ends, TreeInv, HoldersWork, RecordsAreCleared,
       InstalledSoFar, TreeIsTrue, StateVouches, CommitMatchesTree, FetchedIsWhole
  <1>11. ASSUME NEW p \in Pids, ClearCommit(p) PROVE TreeInv'
    <2>1. /\ pc[p] = "held" /\ fstate' = NoTree /\ commit' = NoTree /\ work' = [work EXCEPT ![p] = "install"]
          /\ UNCHANGED <<pc, cfg, asset, way, vouched>>
          /\ todo'[p] = IF cfg[p].dev THEN Required(p) \cap DevAssets ELSE Required(p)
      BY <1>11 DEF ClearCommit, At, Do, TreeInv, RecordsAreCleared
    <2>2. \A q \in Pids \ {p} : pc[q] # "held" /\ work[q] \in {"idle", "decide"}
      BY <1>9, <1>11, <2>1 DEF WorkStep
    <2>3. HoldersWork' /\ RecordsAreCleared'
      BY <2>1, <2>2 DEF TreeInv, HoldersWork, RecordsAreCleared
    <2>4. InstalledSoFar'
      BY <2>1, <2>2 DEF TreeInv, InstalledSoFar, Required
    <2>5. TreeIsTrue'
      BY <2>1, <2>2 DEF TreeIsTrue, StateVouches, CommitMatchesTree, FetchedIsWhole, At
    <2> QED
      BY <2>3, <2>4, <2>5 DEF TreeInv
  <1>12. ASSUME NEW p \in Pids, Install(p) PROVE TreeInv'
    <2>1. /\ pc[p] = "held" /\ work[p] = "install" /\ fstate = NoTree /\ commit = NoTree
          /\ UNCHANGED <<pc, fstate, commit, cfg, src, way, vouched>>
      BY <1>12 DEF Install, At, TreeInv, RecordsAreCleared
    <2>2. \A q \in Pids \ {p} : pc[q] # "held" /\ work[q] \in {"idle", "decide"}
      BY <1>9, <1>12, <2>1 DEF WorkStep
    <2>3. work' = work \/ (todo[p] = {} /\ work' = [work EXCEPT ![p] = "verify"] /\ UNCHANGED <<asset, todo>>)
      BY <1>12 DEF Install, Do
    <2>4. HoldersWork' /\ RecordsAreCleared'
      BY <2>1, <2>2, <2>3 DEF TreeInv, HoldersWork, RecordsAreCleared
    <2>5. InstalledSoFar'
      <3>1. CASE \E a \in todo[p] : /\ asset' = [asset EXCEPT ![a] = src[p]]
                                     /\ todo' = [todo EXCEPT ![p] = @ \ {a}] /\ UNCHANGED work
        <4>1. Required(p) \subseteq Assets
          BY HelperTypes
        <4>2. ~cfg[p].dev => \A a \in Required(p) \ todo'[p] : asset'[a] = src[p]
          BY <2>1, <3>1, <4>1 DEF TreeInv, InstalledSoFar, TreeTypes
        <4> QED
          BY <2>1, <2>2, <3>1, <4>2 DEF InstalledSoFar, Required
      <3>2. CASE todo[p] = {} /\ work' = [work EXCEPT ![p] = "verify"] /\ UNCHANGED <<asset, todo>>
        BY <2>1, <2>2, <3>2 DEF TreeInv, InstalledSoFar, Required
      <3> QED
        BY <1>12, <3>1, <3>2 DEF Install, Do
    <2>6. TreeIsTrue'
      BY <2>1, <2>2, <2>3 DEF TreeIsTrue, StateVouches, CommitMatchesTree, FetchedIsWhole, At
    <2> QED
      BY <2>4, <2>5, <2>6 DEF TreeInv
  <1>13. ASSUME NEW p \in Pids, Verify(p) PROVE TreeInv'
    <2>1. /\ pc[p] = "held" /\ work[p] = "verify"
          /\ UNCHANGED <<pc, asset, fstate, commit, cfg, src, vouched>>
      BY <1>13 DEF Verify, At
    <2>2. CASE \E how \in Ways \ {"fetched"} : End(p, how)
      BY <2>1, <2>2, TreeUntouched DEF End, Do
    <2>3. CASE Do(p, "commit") /\ UNCHANGED ends
      BY <2>1, <2>3 DEF Do, ends, TreeInv, HoldersWork, RecordsAreCleared, InstalledSoFar, TreeIsTrue,
         StateVouches, CommitMatchesTree, FetchedIsWhole, At, Required
    <2> QED
      BY <1>13, <2>2, <2>3 DEF Verify, Fallback, Ways
  <1>14. ASSUME NEW p \in Pids, RecordCommit(p) PROVE TreeInv'
    <2>1. /\ pc[p] = "held" /\ work[p] = "commit" /\ ~cfg[p].dev /\ fstate = NoTree
          /\ UNCHANGED <<pc, asset, fstate, cfg, src, todo, way, vouched>>
          /\ commit' \in {src[p], NoTree} /\ work' = [work EXCEPT ![p] = "record"]
      BY <1>14 DEF RecordCommit, At, Do, ends, RunsAreReady, TreeInv, RecordsAreCleared
    <2>2. \A q \in Pids \ {p} : pc[q] # "held" /\ work[q] \in {"idle", "decide"}
      BY <1>9, <1>14, <2>1 DEF WorkStep
    <2>3. \A a \in Required(p) : asset[a] = src[p]
      BY <2>1 DEF TreeInv, InstalledSoFar
    <2>4. HoldersWork' /\ RecordsAreCleared'
      BY <2>1, <2>2 DEF TreeInv, HoldersWork, RecordsAreCleared
    <2>5. InstalledSoFar'
      BY <2>1, <2>2 DEF TreeInv, InstalledSoFar, Required
    <2>6. TreeIsTrue'
      BY <2>1, <2>2, <2>3 DEF TreeIsTrue, StateVouches, CommitMatchesTree, FetchedIsWhole, At, Required
    <2> QED
      BY <2>4, <2>5, <2>6 DEF TreeInv
  <1>15. ASSUME NEW p \in Pids, RecordState(p) PROVE TreeInv'
    <2>1. /\ pc[p] = "held" /\ work[p] = "record" /\ ~cfg[p].dev
          /\ UNCHANGED <<pc, asset, commit, cfg, src>>
          /\ (fstate' = src[p] /\ vouched' = Required(p)) \/ fstate' = NoTree
          /\ work' = [work EXCEPT ![p] = "done"]
      BY <1>15 DEF RecordState, At, End, Do, RunsAreReady
    <2>2. \A q \in Pids \ {p} : pc[q] # "held" /\ work[q] \in {"idle", "decide"}
      BY <1>9, <1>15, <2>1 DEF WorkStep
    <2>3. \A a \in Required(p) : asset[a] = src[p]
      BY <2>1 DEF TreeInv, InstalledSoFar
    <2>4. HoldersWork' /\ RecordsAreCleared'
      BY <2>1, <2>2 DEF TreeInv, HoldersWork, RecordsAreCleared
    <2>5. InstalledSoFar'
      BY <2>1, <2>2 DEF TreeInv, InstalledSoFar, Required
    <2>6. TreeIsTrue'
      BY <2>1, <2>2, <2>3 DEF TreeInv, TreeIsTrue, StateVouches, CommitMatchesTree, FetchedIsWhole, At, Required
    <2> QED
      BY <2>4, <2>5, <2>6 DEF TreeInv
  <1>16. CASE UNCHANGED vars
    BY <1>16 DEF vars, provVars, TreeInv, HoldersWork, RecordsAreCleared, InstalledSoFar, TreeIsTrue,
       StateVouches, CommitMatchesTree, FetchedIsWhole, At, Required
  <1> QED
    BY <1>1, <1>2, <1>3, <1>4, <1>5, <1>6, <1>7, <1>8, <1>10, <1>11, <1>12, <1>13, <1>14, <1>15, <1>16
       DEF Next, WorkStep

(* The invariant holds throughout, as long as breaks are stale. *)
LEMMA TreeHolds == Spec /\ []BreaksAreStale => []TreeInv
  <1>1. Init => TreeInv
    BY DEF Init, LockInit, TreeInv, HoldersWork, RecordsAreCleared, InstalledSoFar, TreeIsTrue,
       StateVouches, CommitMatchesTree, FetchedIsWhole, At
  <1>2. LockTypeOK /\ ProvisionTypes /\ MutualExclusion /\ TreeInv /\ [Next]_vars => TreeInv'
    BY TreeStep
  <1> QED
    BY <1>1, <1>2, TypesHold, LockExcludes, PTL DEF Spec

(* What .make records, and what a run reports after a download, is true of its assets, for any   *)
(* processes, settings, deaths and failures, as long as no lock is broken that was taken since:  *)
(* both records go before the first asset is replaced (installProvisionFromStage,                *)
(* recordProvisionCommit).                                                                       *)
THEOREM RecordsAreTrue == Spec /\ []BreaksAreStale => []TreeIsTrue
  <1>1. TreeInv => TreeIsTrue
    BY DEF TreeInv
  <1> QED
    BY <1>1, TreeHolds, PTL

(* In particular of two processes side by side, and of any number one after another.             *)
THEOREM FewKeepRecordsTrue ==
    ASSUME AtMostTwo \/ Together = 1
    PROVE  Spec => []TreeIsTrue
  <1>1. Spec => []BreaksAreStale
    BY StaleOfTwo, StaleOfOne
  <1> QED
    BY <1>1, RecordsAreTrue, PTL

-----------------------------------------------------------------------------
(* While every run is asked for the same modules, the fetch state was written for all of them,   *)
(* and a run that probes, or was told 304, finds it there.                                       *)
SameModules == \A s, t \in Settings : s.mods = t.mods
(* A run that rests on the fetch state: it probes with its ETag, or was told 304. *)
RestsOnState(p) == work[p] = "probe" \/ (work[p] = "done" /\ way[p] = "notModified")
(* The fetch state is that of all modules, and there for whoever rests on it. *)
ProbesKnow ==
    /\ fstate # NoTree => \A p \in Pids : vouched = Required(p)
    /\ \A p \in Pids : RestsOnState(p) => fstate # NoTree

(* Under the lock, the fetch state stays for whoever rests on it. *)
LEMMA ProbeStep ==
    ASSUME SameModules, LockTypeOK, ProvisionTypes, MutualExclusion, HoldersWork, ProbesKnow, [Next]_vars
    PROVE  ProbesKnow'
  <1> USE DEF ProvisionTypes, RunTypes, lockVars, RestsOnState
  <1>1. ProvisionTypes'
    BY ProvisionTyped
  <1>2. \A p \in Pids : cfg[p] \in Settings /\ cfg'[p] \in Settings
    BY <1>1
  <1>3. \A p, q \in Pids : cfg[p].mods = cfg'[q].mods /\ cfg[p].mods = cfg[q].mods
    BY <1>2 DEF SameModules
  <1>4. \A p, q \in Pids : Required(p) = Required(q)' /\ Required(p) = Required(q)
    BY <1>3 DEF Required
  <1>5. CASE UNCHANGED <<fstate, vouched>>
    <2>1. \A p \in Pids : RestsOnState(p)' => fstate # NoTree
      <3>1. CASE UNCHANGED <<work, way>>
        BY <3>1 DEF ProbesKnow
      <3>2. ASSUME NEW p \in Pids, Run(p) \/ Killed(p) \/ Return(p)
            PROVE  \A q \in Pids : RestsOnState(q)' => fstate # NoTree
        BY <3>2 DEF Run, Killed, Return, Forget, Do, ProbesKnow
      <3>3. ASSUME NEW p \in Pids, Decide(p) \/ Probe(p)
            PROVE  \A q \in Pids : RestsOnState(q)' => fstate # NoTree
        BY <3>3 DEF Decide, Probe, At, Do, End, ends, ProbesKnow
      <3>4. ASSUME NEW p \in Pids, FaultStep(p)
            PROVE  \A q \in Pids : RestsOnState(q)' => fstate # NoTree
        <4>1. Fallback(p)
          BY <3>4 DEF FaultStep, ProbeFailed, FetchFailed, ClearFailed, InstallFailed
        <4> QED
          BY <4>1 DEF Fallback, End, Do, ProbesKnow
      <3>5. ASSUME NEW p \in Pids, Fetch(p) \/ ClearState(p) \/ ClearCommit(p) \/ Install(p) \/ RecordCommit(p)
            PROVE  \A q \in Pids : RestsOnState(q)' => fstate # NoTree
        BY <3>5 DEF Fetch, ClearState, ClearCommit, Install, RecordCommit, At, Do, ends, ProbesKnow
      <3>6. ASSUME NEW p \in Pids, Verify(p) \/ RecordState(p)
            PROVE  \A q \in Pids : RestsOnState(q)' => fstate # NoTree
        BY <3>6 DEF Verify, RecordState, Fallback, At, Do, End, ends, ProbesKnow
      <3> QED
        BY <3>1, <3>2, <3>3, <3>4, <3>5, <3>6 DEF Next, WorkStep, Move, Wait, vars, provVars
    <2> QED
      BY <1>4, <1>5, <2>1 DEF ProbesKnow
  <1>6. ASSUME NEW p \in Pids, ClearState(p) \/ RecordState(p)
        PROVE  ProbesKnow'
    <2>1. \A q \in Pids \ {p} : work[q] \in {"idle", "decide"}
      BY <1>6 DEF ClearState, RecordState, At, MutualExclusion, HoldersWork
    <2>2. \A q \in Pids : ~RestsOnState(q)'
      BY <1>6, <2>1 DEF ClearState, RecordState, Do, End
    <2>3. fstate' = NoTree \/ vouched' = Required(p)
      BY <1>6 DEF ClearState, RecordState
    <2> QED
      BY <1>4, <2>2, <2>3 DEF ProbesKnow
  <1>7. UNCHANGED <<fstate, vouched>> \/ \E p \in Pids : ClearState(p) \/ RecordState(p)
    BY DEF Next, WorkStep, FaultStep, Move, Run, Wait, Killed, Return, Forget, Decide, Probe, Fetch,
       ClearCommit, Install, Verify, RecordCommit, ProbeFailed, FetchFailed, ClearFailed, InstallFailed,
       vars, provVars
  <1> QED
    BY <1>5, <1>6, <1>7

(* A run that upstream answered with 304 leaves every asset it needs of the confirmed tree, for  *)
(* any processes and failures, as long as all runs are asked for the same modules and no lock is *)
(* broken that was taken since (validateProvisionUpstream).                                      *)
THEOREM ConfirmedIsCurrent ==
    ASSUME SameModules
    PROVE  Spec /\ []BreaksAreStale => []NotModifiedIsCurrent
  <1>1. Init => ProbesKnow
    BY DEF Init, ProbesKnow, RestsOnState
  <1>2. /\ LockTypeOK /\ ProvisionTypes /\ MutualExclusion /\ TreeInv /\ ProbesKnow /\ [Next]_vars
        => ProbesKnow'
    BY ProbeStep DEF TreeInv
  <1>3. TreeInv /\ ProbesKnow => NotModifiedIsCurrent
    BY DEF TreeInv, TreeIsTrue, StateVouches, ProbesKnow, RestsOnState, NotModifiedIsCurrent, At
  <1> QED
    BY <1>1, <1>2, <1>3, TypesHold, LockExcludes, TreeHolds, PTL DEF Spec
=============================================================================
