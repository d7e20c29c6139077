--------------------------- MODULE SchedulerProofs ---------------------------
(***************************************************************************)
(* What holds of the processes that share a state file for any number of   *)
(* commands, binaries and releases, any interval and any faults.           *)
(***************************************************************************)
EXTENDS Scheduler, TLAPS

(* What the assumption on the constants says of each of them. *)
LEMMA Bounds ==
    /\ MaxTag \in Nat /\ NumBinaries \in Nat \ {0} /\ Interval \in Nat \ {0}
    /\ MaxCommands \in Nat /\ MaxFaults \in Nat
    /\ Longest \in Nat /\ Interval <= Longest /\ ShortDelay \in 0..Longest
    /\ 1 \in Binaries /\ 0 \in Tags /\ Tags \subseteq Nat
    /\ NoBackup \notin Tags /\ NoBackup \in Nat
    /\ Commands \subseteq Procs /\ Daemon \in Procs /\ Daemon \notin Commands /\ Nobody \notin Procs
  BY ConstantsAssumption DEF ConstantsAssumption, Longest, ShortDelay, Binaries, Tags, Procs, Nobody, NoBackup

(* What a state read from the file and rewritten is. *)
LEMMA StateFacts ==
    /\ NoState \in States
    /\ \A s \in States : s.result \in Results /\ s.applied \in Tags /\ s.next \in 0..Interval
    /\ \A r \in Results, t \in Tags, n \in 0..Interval :
          [result |-> r, applied |-> t, next |-> n] \in States
    /\ \A s \in States : [s EXCEPT !.next = Less(@)] \in States
    /\ \A s \in States : [s EXCEPT !.result = "error", !.next = Interval] \in States
  <1>1. NoState \in States
    BY Bounds DEF States, NoState, Results
  <1>2. ASSUME NEW s \in States
        PROVE  /\ s.result \in Results /\ s.applied \in Tags /\ s.next \in 0..Interval
               /\ [s EXCEPT !.next = Less(@)] \in States
               /\ [s EXCEPT !.result = "error", !.next = Interval] \in States
    <2>1. s.result \in Results /\ s.applied \in Tags /\ s.next \in 0..Interval
      BY DEF States
    <2>2. Less(s.next) \in 0..Interval /\ Interval \in 0..Interval /\ "error" \in Results
      BY <2>1, Bounds DEF Less, Results
    <2>3. [s EXCEPT !.next = Less(@)] \in States
      BY <2>2 DEF States
    <2>4. [s EXCEPT !.result = "error", !.next = Interval] \in States
      BY <2>2 DEF States
    <2> QED
      BY <2>1, <2>3, <2>4
  <1>3. \A r \in Results, t \in Tags, n \in 0..Interval :
          [result |-> r, applied |-> t, next |-> n] \in States
    BY DEF States
  <1> QED
    BY <1>1, <1>2, <1>3

(* The steps a process may be at. *)
Labels == {"idle", "down", "arm", "wait", "gate", "reload", "lock", "recover",
           "check", "checkLoad", "checkSave", "fetch", "install", "commit", "saveLoad", "save",
           "errLoad", "errSave"}

(* What a process remembers, and what the operators that the actions share make of it. *)
MemoryOK ==
    /\ idx \in [Procs -> Binaries] /\ seen \in [Procs -> [Binaries -> Tags]]
    /\ target \in [Procs -> Tags] /\ held \in [Procs -> States]

(* The world and its bounds; and the processes with their lock. *)
WorldOK ==
    /\ latest \in Tags /\ bin \in [Binaries -> Tags] /\ ever \subseteq Tags
    /\ undo \in [Binaries -> Tags \cup {NoBackup}]
    /\ enabled \in Switches /\ mode \in Modes /\ timer \in 0..Longest
    /\ commands \in 0..MaxCommands /\ faults \in 0..MaxFaults
RunsOK ==
    /\ state \in States /\ since \in 0..Interval /\ lock \in Procs \cup {Nobody}
    /\ pc \in [Procs -> Labels] /\ kind \in [Procs -> {"check", "apply", "dry"}] /\ ver \in [Procs -> Tags]
TypedParts == WorldOK /\ RunsOK /\ MemoryOK /\ warrant \in BOOLEAN /\ blind \in BOOLEAN

(* The types of what the actions have in common: moving on, forgetting, releasing, recording, failing. *)
LEMMA SharedTypes ==
    ASSUME TypeOK, NEW p \in Procs
    PROVE  /\ MemoryOK /\ (UNCHANGED <<idx, seen, target, held>> => MemoryOK')
           /\ Clear(p) => MemoryOK'
           /\ \A label \in Labels : Goto(p, label) => pc' \in [Procs -> Labels]
           /\ Failed(p) \in Labels /\ Returned(p) \in Labels /\ Status(p) \in Results
           /\ Release(p) => lock' \in Procs \cup {Nobody}
           /\ Recorded(p) => since' \in 0..Interval
           /\ Begun(p) \in Labels
           /\ \A label \in Labels : NextOption(p, label) => /\ pc' \in [Procs -> Labels]
                                                           /\ idx' \in [Procs -> Binaries]
           /\ RollBack(p) => bin' \in [Binaries -> Tags] /\ undo' \in [Binaries -> Tags \cup {NoBackup}]
           /\ Fault => commands' \in 0..MaxCommands /\ faults' \in 0..MaxFaults
  <1>1. MemoryOK
    BY DEF TypeOK, MemoryOK
  <1>2. UNCHANGED <<idx, seen, target, held>> => MemoryOK'
    BY <1>1 DEF MemoryOK
  <1>3. ASSUME Clear(p) PROVE MemoryOK'
    <2>1. idx' \in [Procs -> Binaries]
      BY <1>1, <1>3, Bounds DEF MemoryOK, Clear
    <2>2. [b \in Binaries |-> 0] \in [Binaries -> Tags]
      BY Bounds
    <2>3. seen' \in [Procs -> [Binaries -> Tags]]
      BY <1>1, <1>3, <2>2 DEF MemoryOK, Clear
    <2>4. target' \in [Procs -> Tags]
      BY <1>1, <1>3, Bounds DEF MemoryOK, Clear
    <2>5. held' \in [Procs -> States]
      BY <1>1, <1>3, StateFacts DEF MemoryOK, Clear
    <2> QED
      BY <2>1, <2>3, <2>4, <2>5 DEF MemoryOK
  <1>4. \A label \in Labels : Goto(p, label) => pc' \in [Procs -> Labels]
    BY DEF TypeOK, Goto, Labels
  <1>5. Failed(p) \in Labels /\ Returned(p) \in Labels /\ Status(p) \in Results
    BY DEF Failed, Returned, Status, Labels, Results
  <1>6. Release(p) => lock' \in Procs \cup {Nobody}
    BY DEF TypeOK, Release
  <1>7. Recorded(p) => since' \in 0..Interval
    BY Bounds DEF TypeOK, Recorded
  <1>8. Fault => commands' \in 0..MaxCommands /\ faults' \in 0..MaxFaults
    BY Bounds DEF TypeOK, Fault
  <1>9. Begun(p) \in Labels
    BY DEF Begun, Labels
  <1>10. ASSUME NEW label \in Labels, NextOption(p, label)
         PROVE  pc' \in [Procs -> Labels] /\ idx' \in [Procs -> Binaries]
    <2>1. pc[p] \in Labels /\ pc \in [Procs -> Labels] /\ idx \in [Procs -> Binaries]
      BY DEF TypeOK, Labels
    <2>2. pc' \in [Procs -> Labels]
      BY <1>10, <2>1 DEF NextOption, Goto
    <2>3. idx[p] < NumBinaries => idx[p] + 1 \in Binaries
      BY <2>1, Bounds DEF Binaries
    <2>4. (IF idx[p] < NumBinaries THEN idx[p] + 1 ELSE 1) \in Binaries
      BY <2>3, Bounds
    <2>5. idx' = [idx EXCEPT ![p] = IF idx[p] < NumBinaries THEN idx[p] + 1 ELSE 1]
      BY <1>10, <2>1 DEF NextOption
    <2> QED
      BY <2>1, <2>2, <2>4, <2>5
  <1>11. ASSUME RollBack(p)
         PROVE  bin' \in [Binaries -> Tags] /\ undo' \in [Binaries -> Tags \cup {NoBackup}]
    <2>1. bin \in [Binaries -> Tags] /\ undo \in [Binaries -> Tags \cup {NoBackup}]
      BY DEF TypeOK
    <2>2. CASE Installing(p)
      <3>1. PICK lost \in SUBSET Binaries :
              /\ bin' = [b \in Binaries |->
                           IF b \in lost \/ undo[b] = NoBackup THEN bin[b] ELSE undo[b]]
              /\ undo' = [b \in Binaries |-> IF b \in lost THEN undo[b] ELSE NoBackup]
        BY <1>11, <2>2 DEF RollBack
      <3>2. \A b \in Binaries : undo[b] # NoBackup => undo[b] \in Tags
        BY <2>1
      <3> QED
        BY <2>1, <3>1, <3>2
    <2>3. CASE ~Installing(p)
      BY <1>11, <2>1, <2>3 DEF RollBack, installed
    <2> QED
      BY <2>2, <2>3
  <1> QED
    BY <1>1, <1>2, <1>3, <1>4, <1>5, <1>6, <1>7, <1>8, <1>9, <1>10, <1>11

(* Every variable keeps to its type, and the counters to their bounds. *)
THEOREM TypeCorrect == Spec => []TypeOK
  <1>1. Init => TypeOK
    <2> SUFFICES ASSUME Init PROVE TypeOK
      OBVIOUS
    <2>1. /\ latest \in Tags /\ bin \in [Binaries -> Tags] /\ state \in States
          /\ undo \in [Binaries -> Tags \cup {NoBackup}]
      BY Bounds, StateFacts DEF Init
    <2>2. /\ pc \in [Procs -> Labels] /\ kind \in [Procs -> {"check", "apply", "dry"}]
          /\ ver \in [Procs -> Tags]
      BY Bounds DEF Init, Labels
    <2>3. MemoryOK
      BY Bounds, StateFacts DEF Init, MemoryOK
    <2>4. lock \in Procs \cup {Nobody} /\ enabled \in Switches /\ mode \in Modes
          /\ warrant \in BOOLEAN /\ blind \in BOOLEAN
      BY DEF Init
    <2>5. /\ timer \in 0..Longest /\ since \in 0..Interval /\ ever \subseteq Tags
          /\ commands \in 0..MaxCommands /\ faults \in 0..MaxFaults
      BY Bounds DEF Init
    <2> QED
      BY <2>1, <2>2, <2>3, <2>4, <2>5 DEF TypeOK, MemoryOK, Labels
  <1>2. TypeOK /\ [Next]_vars => TypeOK'
    <2> SUFFICES ASSUME TypeOK, [Next]_vars PROVE TypeOK'
      OBVIOUS
    <2> USE DEF installed, disk, hooks, procs, bounds, history
    <2>0. TypedParts
      BY DEF TypeOK, TypedParts, WorldOK, RunsOK, MemoryOK, Labels
    <2> SUFFICES TypedParts'
      BY DEF TypeOK, TypedParts, WorldOK, RunsOK, MemoryOK, Labels
    <2>1. CASE Publish
      <3>1. WorldOK'
        BY <2>0, <2>1, Bounds DEF TypedParts, Publish, Tags, WorldOK
      <3>2. RunsOK'
        BY <2>0, <2>1 DEF TypedParts, Publish, Tags, RunsOK
      <3>3. MemoryOK'
        BY <2>0, <2>1 DEF TypedParts, Publish, MemoryOK
      <3>4. warrant' \in BOOLEAN /\ blind' \in BOOLEAN
        BY <2>0, <2>1 DEF TypedParts, Publish, Tags
      <3> QED
        BY <3>1, <3>2, <3>3, <3>4 DEF TypedParts
    <2>2. CASE Reconfigure
      <3>1. WorldOK'
        BY <2>0, <2>2 DEF TypedParts, Reconfigure, WorldOK
      <3>2. RunsOK'
        BY <2>0, <2>2 DEF TypedParts, Reconfigure, RunsOK
      <3>3. MemoryOK'
        BY <2>0, <2>2 DEF TypedParts, Reconfigure, MemoryOK
      <3>4. warrant' \in BOOLEAN /\ blind' \in BOOLEAN
        BY <2>0, <2>2 DEF TypedParts, Reconfigure
      <3> QED
        BY <3>1, <3>2, <3>3, <3>4 DEF TypedParts
    <2>3. CASE Tick
      <3>1. WorldOK'
        BY <2>0, <2>3, Bounds DEF TypedParts, Tick, Less, WorldOK
      <3>2. RunsOK'
        <4>1. state' \in States
          BY <2>0, <2>3, StateFacts DEF TypedParts, Tick, RunsOK
        <4>2. since' \in 0..Interval
          BY <2>0, <2>3, Bounds DEF TypedParts, Tick, RunsOK
        <4> QED
          BY <2>0, <2>3, <4>1, <4>2 DEF TypedParts, Tick, RunsOK
      <3>3. MemoryOK'
        BY <2>0, <2>3, StateFacts DEF TypedParts, Tick, MemoryOK
      <3>4. warrant' \in BOOLEAN /\ blind' \in BOOLEAN
        BY <2>0, <2>3 DEF TypedParts, Tick
      <3> QED
        BY <3>1, <3>2, <3>3, <3>4 DEF TypedParts
    <2>4. CASE Arm
      <3>1. WorldOK'
        <4>1. state.next \in 0..Interval
          BY <2>0, StateFacts DEF TypedParts, RunsOK
        <4>2. timer' \in {state.next, ShortDelay}
          BY <2>4 DEF Arm
        <4>3. timer' \in 0..Longest
          BY <4>1, <4>2, Bounds
        <4>4. commands' \in 0..MaxCommands /\ faults' \in 0..MaxFaults
          BY <2>0, <2>4, SharedTypes, Bounds DEF Arm, TypedParts, WorldOK
        <4> QED
          BY <2>0, <2>4, <4>3, <4>4 DEF TypedParts, Arm, WorldOK
      <3>2. RunsOK'
        BY <2>0, <2>4, SharedTypes, Bounds DEF TypedParts, Arm, Labels, RunsOK
      <3>3. MemoryOK'
        BY <2>0, <2>4 DEF TypedParts, Arm, MemoryOK
      <3>4. warrant' \in BOOLEAN /\ blind' \in BOOLEAN
        BY <2>0, <2>4 DEF TypedParts, Arm, Labels
      <3> QED
        BY <3>1, <3>2, <3>3, <3>4 DEF TypedParts
    <2>5. CASE Fire \/ RunScheduledUpdate \/ StopForRelaunch \/ LoopAgain
      <3>1. WorldOK'
        <4>1. commands' \in 0..MaxCommands /\ faults' \in 0..MaxFaults
          BY <2>0, <2>5, SharedTypes, Bounds
             DEF TypedParts, Fire, RunScheduledUpdate, StopForRelaunch, LoopAgain, WorldOK
        <4> QED
          BY <2>0, <2>5, <4>1 DEF TypedParts, Fire, RunScheduledUpdate, StopForRelaunch, LoopAgain, Labels, WorldOK
      <3>2. RunsOK'
        BY <2>0, <2>5, SharedTypes, Bounds DEF TypedParts, Fire, RunScheduledUpdate, StopForRelaunch, LoopAgain, Labels, RunsOK
      <3>3. MemoryOK'
        BY <2>0, <2>5 DEF TypedParts, Fire, RunScheduledUpdate, StopForRelaunch, LoopAgain, MemoryOK
      <3>4. warrant' \in BOOLEAN /\ blind' \in BOOLEAN
        BY <2>0, <2>5 DEF TypedParts, Fire, RunScheduledUpdate, StopForRelaunch, LoopAgain, Labels
      <3> QED
        BY <3>1, <3>2, <3>3, <3>4 DEF TypedParts
    <2>6. CASE Relaunch
      <3>1. WorldOK'
        BY <2>0, <2>6 DEF TypedParts, Relaunch, Labels, WorldOK
      <3>2. RunsOK'
        BY <2>0, <2>6, SharedTypes, Bounds DEF TypedParts, Relaunch, Labels, WorldOK, RunsOK
      <3>3. MemoryOK'
        BY <2>0, <2>6 DEF TypedParts, Relaunch, MemoryOK
      <3>4. warrant' \in BOOLEAN /\ blind' \in BOOLEAN
        BY <2>0, <2>6 DEF TypedParts, Relaunch, Labels, WorldOK
      <3> QED
        BY <3>1, <3>2, <3>3, <3>4 DEF TypedParts
    <2>7. CASE Panic
      <3>1. WorldOK'
        BY <2>0, <2>7, SharedTypes, Bounds DEF TypedParts, Panic, Labels, WorldOK
      <3>2. RunsOK'
        BY <2>0, <2>7, SharedTypes, Bounds DEF TypedParts, Panic, Labels, RunsOK
      <3>3. MemoryOK'
        BY <2>0, <2>7, SharedTypes, Bounds DEF TypedParts, Panic, Labels
      <3>4. warrant' \in BOOLEAN /\ blind' \in BOOLEAN
        BY <2>0, <2>7 DEF TypedParts, Panic, Labels
      <3> QED
        BY <3>1, <3>2, <3>3, <3>4 DEF TypedParts
    <2>8. ASSUME NEW c \in Commands, StartCommand(c) PROVE TypedParts'
      <3>1. WorldOK'
        BY <2>0, <2>8, Bounds DEF TypedParts, StartCommand, Labels, WorldOK
      <3>2. RunsOK'
        BY <2>0, <2>8, SharedTypes, Bounds, ConstantsAssumption DEF TypedParts, StartCommand, Labels, WorldOK, RunsOK
      <3>3. MemoryOK'
        BY <2>0, <2>8, SharedTypes, Bounds DEF TypedParts, StartCommand, Labels, WorldOK
      <3>4. warrant' \in BOOLEAN /\ blind' \in BOOLEAN
        BY <2>0, <2>8 DEF TypedParts, StartCommand, Labels, WorldOK
      <3> QED
        BY <3>1, <3>2, <3>3, <3>4 DEF TypedParts
    <2>9. ASSUME NEW p \in Procs, Acquire(p) \/ Busy(p) PROVE TypedParts'
      <3>1. WorldOK'
        BY <2>0, <2>9, SharedTypes DEF TypedParts, Acquire, Busy, Labels, WorldOK
      <3>2. RunsOK'
        BY <2>0, <2>9, SharedTypes DEF TypedParts, Acquire, Busy, Labels, RunsOK
      <3>3. MemoryOK'
        BY <2>0, <2>9, SharedTypes DEF TypedParts, Acquire, Busy, Labels
      <3>4. warrant' \in BOOLEAN /\ blind' \in BOOLEAN
        BY <2>0, <2>9 DEF TypedParts, Acquire, Busy, Labels
      <3> QED
        BY <3>1, <3>2, <3>3, <3>4 DEF TypedParts
    <2>10. ASSUME NEW p \in Procs, CheckFetch(p) PROVE TypedParts'
      <3>1. WorldOK'
        BY <2>0, <2>10 DEF TypedParts, CheckFetch, Labels, WorldOK
      <3>2. RunsOK'
        BY <2>0, <2>10, SharedTypes DEF TypedParts, CheckFetch, Labels, RunsOK
      <3>3. MemoryOK'
        <4>1. latest \in Tags /\ idx[p] \in Binaries /\ seen \in [Procs -> [Binaries -> Tags]]
          BY <2>0 DEF TypedParts, WorldOK, MemoryOK
        <4>2. seen' = [seen EXCEPT ![p] = [seen[p] EXCEPT ![idx[p]] = latest]]
          BY <2>10 DEF CheckFetch
        <4>3. seen' \in [Procs -> [Binaries -> Tags]]
          BY <4>1, <4>2
        <4> QED
          BY <2>0, <2>10, <4>3 DEF TypedParts, CheckFetch, MemoryOK
      <3>4. warrant' \in BOOLEAN /\ blind' \in BOOLEAN
        BY <2>0, <2>10 DEF TypedParts, CheckFetch, Labels
      <3> QED
        BY <3>1, <3>2, <3>3, <3>4 DEF TypedParts
    <2>11. ASSUME NEW p \in Procs, Load(p) PROVE TypedParts'
      <3>1. WorldOK'
        BY <2>0, <2>11, SharedTypes DEF TypedParts, Load, Labels, WorldOK
      <3>2. RunsOK'
        BY <2>0, <2>11, SharedTypes DEF TypedParts, Load, Labels, RunsOK
      <3>3. MemoryOK'
        BY <2>0, <2>11, StateFacts DEF TypedParts, Load, RunsOK, MemoryOK
      <3>4. warrant' \in BOOLEAN /\ blind' \in BOOLEAN
        BY <2>0, <2>11 DEF TypedParts, Load, Labels
      <3> QED
        BY <3>1, <3>2, <3>3, <3>4 DEF TypedParts
    <2>12. ASSUME NEW p \in Procs, CheckSave(p) PROVE TypedParts'
      <3>1. WorldOK'
        BY <2>0, <2>12 DEF TypedParts, CheckSave, Labels, MemoryOK, WorldOK
      <3>2. RunsOK'
        <4>1. state' \in States
          <5>1. held[p] \in States /\ target[p] \in Tags
            BY <2>0 DEF TypedParts, MemoryOK
          <5>2. held[p].applied \in Tags
            BY <5>1 DEF States
          <5>3. "check" \in Results
            BY SharedTypes DEF Results
          <5>4. Interval \in 0..Interval
            BY Bounds
          <5>5. PICK t \in Tags : state' = [result |-> "check", applied |-> t, next |-> Interval]
            BY <2>12, <5>1, <5>2 DEF CheckSave
          <5> QED
            BY <5>3, <5>4, <5>5, StateFacts
        <4>2. pc' \in [Procs -> Labels]
          BY <2>12, SharedTypes DEF CheckSave, Labels
        <4>3. since' \in 0..Interval /\ lock' \in Procs \cup {Nobody}
          BY <2>0, <2>12, SharedTypes DEF TypedParts, RunsOK, CheckSave
        <4> QED
          BY <2>0, <2>12, <4>1, <4>2, <4>3 DEF TypedParts, CheckSave, RunsOK
      <3>3. MemoryOK'
        <4>1. CASE Clear(p)
          BY <4>1, SharedTypes
        <4>2. ASSUME UNCHANGED <<seen, target, held>>,
                     idx' \in [Procs -> Binaries]
              PROVE  MemoryOK'
          BY <2>0, <4>2 DEF TypedParts, MemoryOK
        <4>3. idx[p] < NumBinaries => [idx EXCEPT ![p] = @ + 1] \in [Procs -> Binaries]
          BY <2>0, Bounds DEF TypedParts, MemoryOK, Binaries
        <4>4. [idx EXCEPT ![p] = 1] \in [Procs -> Binaries]
          BY <2>0, Bounds DEF TypedParts, MemoryOK
        <4> QED
          BY <2>12, <4>1, <4>2, <4>3, <4>4 DEF CheckSave
      <3>4. warrant' \in BOOLEAN /\ blind' \in BOOLEAN
        BY <2>0, <2>12 DEF TypedParts, CheckSave, Labels, MemoryOK
      <3> QED
        BY <3>1, <3>2, <3>3, <3>4 DEF TypedParts
    <2>13. ASSUME NEW p \in Procs, Fetch(p) PROVE TypedParts'
      <3>1. WorldOK'
        BY <2>0, <2>13 DEF TypedParts, Fetch, Labels, WorldOK
      <3>2. RunsOK'
        BY <2>0, <2>13, SharedTypes DEF TypedParts, Fetch, Labels, WorldOK, RunsOK
      <3>3. MemoryOK'
        BY <2>0, <2>13 DEF TypedParts, Fetch, Labels, WorldOK, MemoryOK
      <3>4. warrant' \in BOOLEAN /\ blind' \in BOOLEAN
        BY <2>0, <2>13 DEF TypedParts, Fetch, Labels, WorldOK
      <3> QED
        BY <3>1, <3>2, <3>3, <3>4 DEF TypedParts
    <2>14. ASSUME NEW p \in Procs, Install(p) \/ Recover(p) PROVE TypedParts'
      <3>0. idx[p] \in Binaries /\ target[p] \in Tags /\ bin[idx[p]] \in Tags
            /\ (undo[idx[p]] # NoBackup => undo[idx[p]] \in Tags)
        BY <2>0 DEF TypedParts, WorldOK, MemoryOK
      <3>1. WorldOK'
        <4>1. CASE Install(p)
          BY <2>0, <3>0, <4>1 DEF TypedParts, Install, WorldOK
        <4>2. CASE Recover(p)
          BY <2>0, <3>0, <4>2 DEF TypedParts, Recover, WorldOK
        <4> QED
          BY <2>14, <4>1, <4>2
      <3>2. pc' \in [Procs -> Labels] /\ idx' \in [Procs -> Binaries]
        BY <2>14, SharedTypes DEF Install, Recover, Labels
      <3>3. RunsOK' /\ MemoryOK'
        BY <2>0, <2>14, <3>2 DEF TypedParts, Install, Recover, RunsOK, MemoryOK
      <3>4. warrant' \in BOOLEAN /\ blind' \in BOOLEAN
        BY <2>0, <2>14 DEF TypedParts, Install, Recover
      <3> QED
        BY <3>1, <3>3, <3>4 DEF TypedParts
    <2>21. ASSUME NEW p \in Procs, DryInstall(p) \/ Commit(p) PROVE TypedParts'
      <3>1. WorldOK'
        <4>1. CASE DryInstall(p)
          BY <2>0, <4>1 DEF TypedParts, DryInstall, WorldOK
        <4>2. CASE Commit(p)
          BY <2>0, <4>2 DEF TypedParts, Commit, WorldOK, MemoryOK
        <4> QED
          BY <2>21, <4>1, <4>2
      <3>2. RunsOK'
        BY <2>0, <2>21, SharedTypes DEF TypedParts, DryInstall, Commit, Labels, RunsOK
      <3>3. MemoryOK'
        BY <2>0, <2>21, SharedTypes DEF TypedParts, DryInstall, Commit, Labels
      <3>4. warrant' \in BOOLEAN /\ blind' \in BOOLEAN
        BY <2>0, <2>21 DEF TypedParts, DryInstall, Commit
      <3> QED
        BY <3>1, <3>2, <3>3, <3>4 DEF TypedParts
    <2>22. CASE RelaunchFailed
      <3>1. WorldOK'
        BY <2>0, <2>22, SharedTypes, Bounds DEF TypedParts, RelaunchFailed, WorldOK
      <3>2. RunsOK' /\ MemoryOK'
        BY <2>0, <2>22 DEF TypedParts, RelaunchFailed, RunsOK, MemoryOK
      <3>3. warrant' \in BOOLEAN /\ blind' \in BOOLEAN
        BY <2>0, <2>22 DEF TypedParts, RelaunchFailed
      <3> QED
        BY <3>1, <3>2, <3>3 DEF TypedParts
    <2>15. ASSUME NEW p \in Procs, Save(p) PROVE TypedParts'
      <3>1. WorldOK'
        BY <2>0, <2>15 DEF TypedParts, Save, Labels, MemoryOK, WorldOK
      <3>2. RunsOK'
        <4>1. state' \in States
          <5>1. held[p] \in States /\ target[p] \in Tags
            BY <2>0 DEF TypedParts, MemoryOK
          <5>2. held[p].applied \in Tags
            BY <5>1 DEF States
          <5>3. Status(p) \in Results
            BY SharedTypes
          <5>4. Interval \in 0..Interval
            BY Bounds
          <5>5. PICK t \in Tags : state' = [result |-> Status(p), applied |-> t, next |-> Interval]
            BY <2>15, <5>1, <5>2 DEF Save
          <5> QED
            BY <5>3, <5>4, <5>5, StateFacts
        <4>2. pc' \in [Procs -> Labels]
          BY <2>15, SharedTypes DEF Save, Labels
        <4>3. since' \in 0..Interval /\ lock' \in Procs \cup {Nobody}
          BY <2>0, <2>15, SharedTypes DEF TypedParts, RunsOK, Save
        <4> QED
          BY <2>0, <2>15, <4>1, <4>2, <4>3 DEF TypedParts, Save, RunsOK
      <3>3. MemoryOK'
        <4>1. CASE Clear(p)
          BY <4>1, SharedTypes
        <4>2. ASSUME UNCHANGED <<seen, target, held>>,
                     idx' \in [Procs -> Binaries]
              PROVE  MemoryOK'
          BY <2>0, <4>2 DEF TypedParts, MemoryOK
        <4>3. idx[p] < NumBinaries => [idx EXCEPT ![p] = @ + 1] \in [Procs -> Binaries]
          BY <2>0, Bounds DEF TypedParts, MemoryOK, Binaries
        <4>4. [idx EXCEPT ![p] = 1] \in [Procs -> Binaries]
          BY <2>0, Bounds DEF TypedParts, MemoryOK
        <4> QED
          BY <2>15, <4>1, <4>2, <4>3, <4>4 DEF Save
      <3>4. warrant' \in BOOLEAN /\ blind' \in BOOLEAN
        BY <2>0, <2>15 DEF TypedParts, Save, Labels, MemoryOK
      <3> QED
        BY <3>1, <3>2, <3>3, <3>4 DEF TypedParts
    <2>16. ASSUME NEW p \in Procs, ErrSave(p) PROVE TypedParts'
      <3>1. WorldOK'
        BY <2>0, <2>16 DEF TypedParts, ErrSave, Labels, MemoryOK, WorldOK
      <3>2. RunsOK'
        <4>1. state' \in States
          BY <2>0, <2>16, StateFacts DEF TypedParts, ErrSave, MemoryOK
        <4>2. pc' \in [Procs -> Labels]
          BY <2>16, SharedTypes DEF ErrSave, Labels
        <4>3. since' \in 0..Interval /\ lock' \in Procs \cup {Nobody}
          BY <2>16, SharedTypes DEF ErrSave
        <4> QED
          BY <2>0, <2>16, <4>1, <4>2, <4>3 DEF TypedParts, ErrSave, RunsOK
      <3>3. MemoryOK'
        BY <2>0, <2>16, SharedTypes DEF TypedParts, ErrSave, Labels, MemoryOK
      <3>4. warrant' \in BOOLEAN /\ blind' \in BOOLEAN
        BY <2>0, <2>16 DEF TypedParts, ErrSave, Labels, MemoryOK
      <3> QED
        BY <3>1, <3>2, <3>3, <3>4 DEF TypedParts
    <2>17. ASSUME NEW p \in Procs, ErrSaveFailed(p) PROVE TypedParts'
      <3>1. WorldOK'
        BY <2>0, <2>17, SharedTypes DEF TypedParts, ErrSaveFailed, Labels, WorldOK
      <3>2. RunsOK'
        BY <2>0, <2>17, SharedTypes DEF TypedParts, ErrSaveFailed, Labels, RunsOK
      <3>3. MemoryOK'
        BY <2>0, <2>17, SharedTypes DEF TypedParts, ErrSaveFailed, Labels
      <3>4. warrant' \in BOOLEAN /\ blind' \in BOOLEAN
        BY <2>0, <2>17 DEF TypedParts, ErrSaveFailed, Labels
      <3> QED
        BY <3>1, <3>2, <3>3, <3>4 DEF TypedParts
    <2>18. ASSUME NEW p \in Procs, CheckFetchFailed(p) \/ StepFailed(p) PROVE TypedParts'
      <3>1. WorldOK'
        BY <2>0, <2>18, SharedTypes DEF TypedParts, CheckFetchFailed, StepFailed, Labels, WorldOK
      <3>2. RunsOK'
        BY <2>0, <2>18, SharedTypes DEF TypedParts, CheckFetchFailed, StepFailed, Labels, RunsOK
      <3>3. MemoryOK'
        BY <2>0, <2>18, SharedTypes DEF TypedParts, CheckFetchFailed, StepFailed, Labels
      <3>4. warrant' \in BOOLEAN /\ blind' \in BOOLEAN
        BY <2>0, <2>18 DEF TypedParts, CheckFetchFailed, StepFailed, Labels
      <3> QED
        BY <3>1, <3>2, <3>3, <3>4 DEF TypedParts
    <2>19. ASSUME NEW p \in Procs, Kill(p) PROVE TypedParts'
      <3>1. WorldOK'
        BY <2>0, <2>19, SharedTypes, Bounds DEF TypedParts, Kill, Labels, WorldOK
      <3>2. RunsOK'
        BY <2>0, <2>19, SharedTypes DEF TypedParts, Kill, Labels, RunsOK
      <3>3. MemoryOK'
        BY <2>0, <2>19, SharedTypes DEF TypedParts, Kill, Labels
      <3>4. warrant' \in BOOLEAN /\ blind' \in BOOLEAN
        BY <2>0, <2>19 DEF TypedParts, Kill, Labels
      <3> QED
        BY <3>1, <3>2, <3>3, <3>4 DEF TypedParts
    <2>20. CASE UNCHANGED vars
      <3>1. WorldOK'
        BY <2>0, <2>20 DEF TypedParts, vars, WorldOK
      <3>2. RunsOK'
        BY <2>0, <2>20 DEF TypedParts, vars, RunsOK
      <3>3. MemoryOK'
        BY <2>0, <2>20 DEF TypedParts, vars, MemoryOK
      <3>4. warrant' \in BOOLEAN /\ blind' \in BOOLEAN
        BY <2>0, <2>20 DEF TypedParts, vars
      <3> QED
        BY <3>1, <3>2, <3>3, <3>4 DEF TypedParts
    <2> QED
      BY <2>1, <2>2, <2>3, <2>4, <2>5, <2>6, <2>7, <2>8, <2>9, <2>10, <2>11, <2>12, <2>13, <2>14, <2>15, <2>16, <2>17, <2>18, <2>19, <2>20,
         <2>21, <2>22
         DEF Next, DaemonStep, RunStep, FaultStep
  <1> QED
    BY <1>1, <1>2, PTL DEF Spec

-----------------------------------------------------------------------------
(* The steps of a Check, and those of an update around its checks. *)
Checking == {"check", "checkLoad", "checkSave"}
Updating == {"recover", "fetch", "install", "commit", "saveLoad", "save"}

(* Only who holds the lock updates, and who holds it is at an update or at recording its error. *)
UpdatesAreLocked ==
    /\ \A p \in Procs : pc[p] \in Updating \/ (pc[p] \in Checking /\ kind[p] # "check") => lock = p
    /\ \A p \in Procs : lock = p => /\ pc[p] \in Checking \cup Updating \cup {"errLoad", "errSave"}
                                    /\ kind[p] # "check"
    /\ \A p \in Procs : pc[p] = "lock" => kind[p] # "check"

(* A run begins with its first option, and so does its install. *)
FirstOptionFirst == \A p \in Procs : ~Working(p) \/ pc[p] \in {"lock", "fetch"} => idx[p] = 1

(* The options whose binaries an install has renamed over. *)
Renamed(p) == IF pc[p] = "install" THEN {b \in Available(p) : b < idx[p]} ELSE Available(p)

(* Nothing is left to undo once an apply is past its recovery, but what it installs itself. *)
BackupsOf(p) ==
    /\ Installing(p) =>
         \A b \in Binaries : IF b \in Renamed(p) THEN undo[b] # NoBackup /\ bin[b] = target[p]
                             ELSE undo[b] = NoBackup
    /\ pc[p] \in Checking \cup {"fetch", "saveLoad", "save"} /\ kind[p] = "apply" =>
         \A b \in Binaries : undo[b] = NoBackup
    /\ pc[p] = "commit" => kind[p] = "apply"
    /\ pc[p] = "recover" => kind[p] = "apply" /\ \A b \in Binaries : b < idx[p] => undo[b] = NoBackup
BackupsOK == \A p \in Procs : BackupsOf(p)

(* The releases that a recovery would leave. *)
Kept == [b \in Binaries |-> Effective(b)]

(* Tags only grow: nothing on the disk, staged or running is newer than the newest release, and  *)
(* no install is older than what it replaces.                                                    *)
TagsGrow ==
    /\ \A b \in Binaries : bin[b] <= latest /\ Kept[b] <= latest
    /\ \A p \in Procs : target[p] <= latest /\ ver[p] <= latest
    /\ \A p \in Procs : pc[p] \in {"install", "commit"} => \A b \in Binaries : Kept[b] <= target[p]

(* A daemon of a development build has not been told to update. *)
DevIsTold == DevVersion /\ ver[Daemon] = 0 /\ Working(Daemon) => kind[Daemon] = "check"

(* No applied tag, in the file or about to be written to it, was never installed. *)
TagsWereInstalled ==
    /\ 0 \in ever /\ state.applied \in ever /\ \A p \in Procs : held[p].applied \in ever
    /\ \A p \in Procs : pc[p] \in {"saveLoad", "save"} /\ kind[p] # "dry" /\ Available(p) # {}
                            => target[p] \in ever

(* The file's next check is no earlier than an interval after the daemon's last run, and so is   *)
(* what its timer was set to, unless it could not read the file.                                 *)
Pace == IF blind THEN ShortDelay ELSE Interval
NextIsPaced ==
    /\ state.next + since >= Interval
    /\ pc[Daemon] = "wait" => timer + since >= Pace
    /\ pc[Daemon] = "gate" => since >= Pace

(* The daemon comes back to its loop with an applied update only if one was recorded since it     *)
(* was started.                                                                                  *)
AppliedIsWarranted == pc[Daemon] = "reload" /\ state.result = "applied" => warrant

(* Every step leaves updating to the holder of the lock. *)
LEMMA LockedStep ==
    ASSUME TypeOK, UpdatesAreLocked, [Next]_vars
    PROVE  UpdatesAreLocked'
  <1> USE DEF installed, disk, hooks, procs, bounds, history
  <1>1. CASE Publish
    BY <1>1, Bounds, ConstantsAssumption DEF Publish, Goto, TypeOK, UpdatesAreLocked, Checking, Updating
  <1>2. CASE Reconfigure
    BY <1>2, Bounds, ConstantsAssumption DEF Reconfigure, Goto, TypeOK, UpdatesAreLocked, Checking, Updating
  <1>3. CASE Tick
    BY <1>3, Bounds, ConstantsAssumption DEF Tick, Goto, TypeOK, UpdatesAreLocked, Checking, Updating
  <1>4. CASE Arm
    BY <1>4, Bounds, ConstantsAssumption DEF Arm, Fault, Goto, TypeOK, UpdatesAreLocked, Checking, Updating
  <1>5. CASE Fire
    BY <1>5, Bounds, ConstantsAssumption DEF Fire, Goto, TypeOK, UpdatesAreLocked, Checking, Updating
  <1>6. CASE RunScheduledUpdate
    <2>1. lock # Daemon /\ UNCHANGED lock
      BY <1>6, Bounds DEF RunScheduledUpdate, UpdatesAreLocked, Checking, Updating
    <2>2. \/ Goto(Daemon, "reload") /\ UNCHANGED kind
          \/ kind' = [kind EXCEPT ![Daemon] = "check"] /\ Goto(Daemon, "check")
          \/ kind' = [kind EXCEPT ![Daemon] = "apply"] /\ Goto(Daemon, "lock")
      BY <1>6 DEF RunScheduledUpdate
    <2> QED
      BY <2>1, <2>2, Bounds DEF Goto, TypeOK, UpdatesAreLocked, Checking, Updating
  <1>7. CASE StopForRelaunch
    BY <1>7, Bounds, ConstantsAssumption DEF StopForRelaunch, Goto, TypeOK, UpdatesAreLocked, Checking, Updating
  <1>8. CASE LoopAgain
    BY <1>8, Bounds, ConstantsAssumption DEF LoopAgain, Fault, Goto, TypeOK, UpdatesAreLocked, Checking, Updating
  <1>9. CASE Relaunch
    BY <1>9, Bounds, ConstantsAssumption DEF Relaunch, Goto, TypeOK, UpdatesAreLocked, Checking, Updating
  <1>10. CASE RelaunchFailed
    BY <1>10, Bounds, ConstantsAssumption DEF RelaunchFailed, Fault, Goto, TypeOK, UpdatesAreLocked, Checking, Updating
  <1>11. CASE Panic
    BY <1>11, Bounds, ConstantsAssumption DEF Panic, Release, Clear, Fault, Working, Goto, TypeOK, UpdatesAreLocked, Checking, Updating
  <1>12. ASSUME NEW c \in Commands, StartCommand(c) PROVE UpdatesAreLocked'
    BY <1>12, Bounds, ConstantsAssumption DEF StartCommand, Goto, TypeOK, UpdatesAreLocked, Checking, Updating
  <1>13. ASSUME NEW p \in Procs, Acquire(p) PROVE UpdatesAreLocked'
    BY <1>13, Bounds, ConstantsAssumption DEF Acquire, Begun, Goto, TypeOK, UpdatesAreLocked, Checking, Updating
  <1>14. ASSUME NEW p \in Procs, Busy(p) PROVE UpdatesAreLocked'
    BY <1>14, Bounds, ConstantsAssumption DEF Busy, Fault, Goto, TypeOK, UpdatesAreLocked, Checking, Updating
  <1>15. ASSUME NEW p \in Procs, Recover(p) PROVE UpdatesAreLocked'
    BY <1>15, Bounds, ConstantsAssumption DEF Recover, NextOption, Goto, TypeOK, UpdatesAreLocked, Checking, Updating
  <1>16. ASSUME NEW p \in Procs, CheckFetch(p) PROVE UpdatesAreLocked'
    BY <1>16, Bounds, ConstantsAssumption DEF CheckFetch, Goto, TypeOK, UpdatesAreLocked, Checking, Updating
  <1>17. ASSUME NEW p \in Procs, Load(p) PROVE UpdatesAreLocked'
    BY <1>17, Bounds, ConstantsAssumption DEF Load, Fault, Goto, TypeOK, UpdatesAreLocked, Checking, Updating
  <1>18. ASSUME NEW p \in Procs, CheckSave(p) PROVE UpdatesAreLocked'
    BY <1>18, Bounds, ConstantsAssumption DEF CheckSave, Returned, Clear, Recorded, Goto, TypeOK, UpdatesAreLocked, Checking, Updating
  <1>19. ASSUME NEW p \in Procs, Fetch(p) PROVE UpdatesAreLocked'
    BY <1>19, Bounds, ConstantsAssumption DEF Fetch, Goto, TypeOK, UpdatesAreLocked, Checking, Updating
  <1>20. ASSUME NEW p \in Procs, Install(p) PROVE UpdatesAreLocked'
    BY <1>20, Bounds, ConstantsAssumption DEF Install, NextOption, Goto, TypeOK, UpdatesAreLocked, Checking, Updating
  <1>21. ASSUME NEW p \in Procs, DryInstall(p) PROVE UpdatesAreLocked'
    BY <1>21, Bounds, ConstantsAssumption DEF DryInstall, Goto, TypeOK, UpdatesAreLocked, Checking, Updating
  <1>22. ASSUME NEW p \in Procs, Commit(p) PROVE UpdatesAreLocked'
    BY <1>22, Bounds, ConstantsAssumption DEF Commit, Goto, TypeOK, UpdatesAreLocked, Checking, Updating
  <1>23. ASSUME NEW p \in Procs, Save(p) PROVE UpdatesAreLocked'
    BY <1>23, Bounds, ConstantsAssumption DEF Save, Returned, Clear, Release, Recorded, Goto, TypeOK, UpdatesAreLocked, Checking, Updating
  <1>24. ASSUME NEW p \in Procs, ErrSave(p) PROVE UpdatesAreLocked'
    BY <1>24, Bounds, ConstantsAssumption DEF ErrSave, Failed, Clear, Release, Recorded, Goto, TypeOK, UpdatesAreLocked, Checking, Updating
  <1>25. ASSUME NEW p \in Procs, ErrSaveFailed(p) PROVE UpdatesAreLocked'
    BY <1>25, Bounds, ConstantsAssumption DEF ErrSaveFailed, Failed, Clear, Release, Fault, Goto, TypeOK, UpdatesAreLocked, Checking, Updating
  <1>26. ASSUME NEW p \in Procs, CheckFetchFailed(p) PROVE UpdatesAreLocked'
    BY <1>26, Bounds, ConstantsAssumption DEF CheckFetchFailed, Fault, Goto, TypeOK, UpdatesAreLocked, Checking, Updating
  <1>27. ASSUME NEW p \in Procs, StepFailed(p) PROVE UpdatesAreLocked'
    BY <1>27, Bounds, ConstantsAssumption DEF StepFailed, Failed, Clear, Release, Fault, Goto, TypeOK, UpdatesAreLocked, Checking, Updating
  <1>28. ASSUME NEW p \in Procs, Kill(p) PROVE UpdatesAreLocked'
    BY <1>28, Bounds, ConstantsAssumption DEF Kill, Clear, Release, Fault, Goto, TypeOK, UpdatesAreLocked, Checking, Updating
  <1>29. CASE UNCHANGED vars
    BY <1>29, Bounds, ConstantsAssumption DEF vars, TypeOK, UpdatesAreLocked, Checking, Updating
  <1> QED
    BY <1>1, <1>2, <1>3, <1>4, <1>5, <1>6, <1>7, <1>8, <1>9, <1>10, <1>11, <1>12, <1>13, <1>14,
       <1>15, <1>16, <1>17, <1>18, <1>19, <1>20, <1>21, <1>22, <1>23, <1>24, <1>25, <1>26,
       <1>27, <1>28, <1>29
       DEF Next, DaemonStep, RunStep, FaultStep

(* Every way out of a run forgets the option it was at. *)
LEMMA FirstStep ==
    ASSUME TypeOK, FirstOptionFirst, [Next]_vars
    PROVE  FirstOptionFirst'
  <1> USE DEF installed, disk, hooks, procs, bounds, history
  <1>1. CASE Publish
    BY <1>1, Bounds DEF Publish, Goto, TypeOK, FirstOptionFirst, Working
  <1>2. CASE Reconfigure
    BY <1>2, Bounds DEF Reconfigure, Goto, TypeOK, FirstOptionFirst, Working
  <1>3. CASE Tick
    BY <1>3, Bounds DEF Tick, Goto, TypeOK, FirstOptionFirst, Working
  <1>4. CASE Arm
    BY <1>4, Bounds DEF Arm, Fault, Goto, TypeOK, FirstOptionFirst, Working
  <1>5. CASE Fire
    BY <1>5, Bounds DEF Fire, Goto, TypeOK, FirstOptionFirst, Working
  <1>6. CASE RunScheduledUpdate
    BY <1>6, Bounds DEF RunScheduledUpdate, Goto, TypeOK, FirstOptionFirst, Working
  <1>7. CASE StopForRelaunch
    BY <1>7, Bounds DEF StopForRelaunch, Goto, TypeOK, FirstOptionFirst, Working
  <1>8. CASE LoopAgain
    BY <1>8, Bounds DEF LoopAgain, Fault, Goto, TypeOK, FirstOptionFirst, Working
  <1>9. CASE Relaunch
    BY <1>9, Bounds DEF Relaunch, Goto, TypeOK, FirstOptionFirst, Working
  <1>10. CASE RelaunchFailed
    BY <1>10, Bounds DEF RelaunchFailed, Fault, Goto, TypeOK, FirstOptionFirst, Working
  <1>11. CASE Panic
    BY <1>11, Bounds DEF Panic, Release, Clear, Fault, Working, Goto, TypeOK, FirstOptionFirst, Working
  <1>12. ASSUME NEW c \in Commands, StartCommand(c) PROVE FirstOptionFirst'
    BY <1>12, Bounds DEF StartCommand, Goto, TypeOK, FirstOptionFirst, Working
  <1>13. ASSUME NEW p \in Procs, Acquire(p) PROVE FirstOptionFirst'
    BY <1>13, Bounds DEF Acquire, Begun, Goto, TypeOK, FirstOptionFirst, Working
  <1>14. ASSUME NEW p \in Procs, Busy(p) PROVE FirstOptionFirst'
    BY <1>14, Bounds DEF Busy, Fault, Goto, TypeOK, FirstOptionFirst, Working
  <1>15. ASSUME NEW p \in Procs, Recover(p) PROVE FirstOptionFirst'
    BY <1>15, Bounds DEF Recover, NextOption, Goto, TypeOK, FirstOptionFirst, Working
  <1>16. ASSUME NEW p \in Procs, CheckFetch(p) PROVE FirstOptionFirst'
    BY <1>16, Bounds DEF CheckFetch, Goto, TypeOK, FirstOptionFirst, Working
  <1>17. ASSUME NEW p \in Procs, Load(p) PROVE FirstOptionFirst'
    BY <1>17, Bounds DEF Load, Fault, Goto, TypeOK, FirstOptionFirst, Working
  <1>18. ASSUME NEW p \in Procs, CheckSave(p) PROVE FirstOptionFirst'
    BY <1>18, Bounds DEF CheckSave, Returned, Clear, Recorded, Goto, TypeOK, FirstOptionFirst, Working
  <1>19. ASSUME NEW p \in Procs, Fetch(p) PROVE FirstOptionFirst'
    BY <1>19, Bounds DEF Fetch, Goto, TypeOK, FirstOptionFirst, Working
  <1>20. ASSUME NEW p \in Procs, Install(p) PROVE FirstOptionFirst'
    BY <1>20, Bounds DEF Install, NextOption, Goto, TypeOK, FirstOptionFirst, Working
  <1>21. ASSUME NEW p \in Procs, DryInstall(p) PROVE FirstOptionFirst'
    BY <1>21, Bounds DEF DryInstall, Goto, TypeOK, FirstOptionFirst, Working
  <1>22. ASSUME NEW p \in Procs, Commit(p) PROVE FirstOptionFirst'
    BY <1>22, Bounds DEF Commit, Goto, TypeOK, FirstOptionFirst, Working
  <1>23. ASSUME NEW p \in Procs, Save(p) PROVE FirstOptionFirst'
    BY <1>23, Bounds DEF Save, Returned, Clear, Release, Recorded, Goto, TypeOK, FirstOptionFirst, Working
  <1>24. ASSUME NEW p \in Procs, ErrSave(p) PROVE FirstOptionFirst'
    BY <1>24, Bounds DEF ErrSave, Failed, Clear, Release, Recorded, Goto, TypeOK, FirstOptionFirst, Working
  <1>25. ASSUME NEW p \in Procs, ErrSaveFailed(p) PROVE FirstOptionFirst'
    BY <1>25, Bounds DEF ErrSaveFailed, Failed, Clear, Release, Fault, Goto, TypeOK, FirstOptionFirst, Working
  <1>26. ASSUME NEW p \in Procs, CheckFetchFailed(p) PROVE FirstOptionFirst'
    BY <1>26, Bounds DEF CheckFetchFailed, Fault, Goto, TypeOK, FirstOptionFirst, Working
  <1>27. ASSUME NEW p \in Procs, StepFailed(p) PROVE FirstOptionFirst'
    BY <1>27, Bounds DEF StepFailed, Failed, Clear, Release, Fault, Goto, TypeOK, FirstOptionFirst, Working
  <1>28. ASSUME NEW p \in Procs, Kill(p) PROVE FirstOptionFirst'
    BY <1>28, Bounds DEF Kill, Clear, Release, Fault, Goto, TypeOK, FirstOptionFirst, Working
  <1>29. CASE UNCHANGED vars
    BY <1>29, Bounds DEF vars, TypeOK, FirstOptionFirst, Working
  <1> QED
    BY <1>1, <1>2, <1>3, <1>4, <1>5, <1>6, <1>7, <1>8, <1>9, <1>10, <1>11, <1>12, <1>13, <1>14,
       <1>15, <1>16, <1>17, <1>18, <1>19, <1>20, <1>21, <1>22, <1>23, <1>24, <1>25, <1>26,
       <1>27, <1>28, <1>29
       DEF Next, DaemonStep, RunStep, FaultStep

(* What a recovery would leave only changes with a commit: an option that is put back, by a       *)
(* recovery or a failure, was to be put back.                                                     *)
LEMMA KeptStays ==
    ASSUME UNCHANGED installed
    PROVE  UNCHANGED Kept
  BY DEF installed, Kept, Effective

LEMMA KeptOverRollBack ==
    ASSUME TypeOK, NEW p \in Procs, RollBack(p)
    PROVE  UNCHANGED Kept
  <1>1. CASE Installing(p)
    <2>1. PICK lost \in SUBSET Binaries :
            /\ bin' = [b \in Binaries |->
                         IF b \in lost \/ undo[b] = NoBackup THEN bin[b] ELSE undo[b]]
            /\ undo' = [b \in Binaries |-> IF b \in lost THEN undo[b] ELSE NoBackup]
      BY <1>1 DEF RollBack
    <2>2. ASSUME NEW b \in Binaries PROVE Effective(b)' = Effective(b)
      BY <2>1 DEF Effective
    <2> QED
      BY <2>2 DEF Kept
  <1>2. CASE ~Installing(p)
    BY <1>2, KeptStays DEF RollBack
  <1> QED
    BY <1>1, <1>2

LEMMA KeptOverRecover ==
    ASSUME TypeOK, NEW p \in Procs, Recover(p)
    PROVE  UNCHANGED Kept
  <1>1. ASSUME NEW b \in Binaries PROVE Effective(b)' = Effective(b)
    <2>1. bin \in [Binaries -> Tags] /\ undo \in [Binaries -> Tags \cup {NoBackup}] /\ idx[p] \in Binaries
      BY DEF TypeOK
    <2>2. /\ bin' = [bin EXCEPT ![idx[p]] = IF undo[idx[p]] = NoBackup THEN bin[idx[p]] ELSE undo[idx[p]]]
          /\ undo' = [undo EXCEPT ![idx[p]] = NoBackup]
      BY <2>1 DEF Recover
    <2>3. CASE b = idx[p]
      BY <2>1, <2>2, <2>3 DEF Effective
    <2>4. CASE b # idx[p]
      BY <2>1, <2>2, <2>4 DEF Effective
    <2> QED
      BY <2>3, <2>4
  <1> QED
    BY <1>1 DEF Kept

LEMMA KeptOverInstall ==
    ASSUME TypeOK, BackupsOK, NEW p \in Procs, Install(p)
    PROVE  UNCHANGED Kept
  <1>1. bin \in [Binaries -> Tags] /\ undo \in [Binaries -> Tags \cup {NoBackup}] /\ idx[p] \in Binaries
    BY DEF TypeOK
  <1>2. CASE idx[p] \in Available(p)
    <2>1. /\ bin' = [bin EXCEPT ![idx[p]] = target[p]]
          /\ undo' = [undo EXCEPT ![idx[p]] = bin[idx[p]]]
      BY <1>2 DEF Install
    <2>2. pc[p] = "install" /\ Installing(p)
      BY DEF Install, Installing
    <2>3. idx[p] \notin Renamed(p)
      BY <1>1, <2>2, Bounds DEF Renamed, Binaries
    <2>4. undo[idx[p]] = NoBackup
      BY <1>1, <2>2, <2>3 DEF BackupsOK, BackupsOf
    <2>5. ASSUME NEW b \in Binaries PROVE Effective(b)' = Effective(b)
      <3>1. CASE b = idx[p]
        BY <1>1, <2>1, <2>4, <3>1, Bounds DEF Effective
      <3>2. CASE b # idx[p]
        BY <1>1, <2>1, <3>2 DEF Effective
      <3> QED
        BY <3>1, <3>2
    <2> QED
      BY <2>5 DEF Kept
  <1>3. CASE idx[p] \notin Available(p)
    BY <1>3, KeptStays DEF Install
  <1> QED
    BY <1>2, <1>3

LEMMA KeptAtCommit ==
    ASSUME TypeOK, UpdatesAreLocked, BackupsOK, NEW p \in Procs, Commit(p), kind[p] = "apply"
    PROVE  /\ Kept' = [b \in Binaries |-> IF b \in Available(p) THEN target[p] ELSE Kept[b]]
           /\ undo' = [b \in Binaries |-> NoBackup]
  <1>1. pc[p] = "commit" /\ Installing(p) /\ Renamed(p) = Available(p)
    BY DEF Commit, Installing, Renamed
  <1>2. \A b \in Binaries : IF b \in Available(p) THEN undo[b] # NoBackup /\ bin[b] = target[p]
                             ELSE undo[b] = NoBackup
    BY <1>1 DEF BackupsOK, BackupsOf
  <1>3. UNCHANGED bin /\ undo' = [b \in Binaries |-> IF b \in Available(p) THEN NoBackup ELSE undo[b]]
    BY DEF Commit
  <1>4. ASSUME NEW b \in Binaries
        PROVE  Effective(b)' = IF b \in Available(p) THEN target[p] ELSE Effective(b)
    BY <1>2, <1>3 DEF Effective
  <1> QED
    BY <1>2, <1>3, <1>4 DEF Kept

(* A process that stays where it is finds the backups as it left them, if the others leave them.  *)
LEMMA BackupsOfOther ==
    ASSUME NEW q \in Procs, BackupsOf(q), UNCHANGED installed, pc'[q] = pc[q], kind'[q] = kind[q],
           ver'[q] = ver[q], idx'[q] = idx[q], seen'[q] = seen[q], target'[q] = target[q]
    PROVE  BackupsOf(q)'
  <1>1. Available(q)' = Available(q)
    BY DEF Available, Newer
  <1>2. Renamed(q)' = Renamed(q) /\ Installing(q)' = Installing(q)
    BY <1>1 DEF Renamed, Installing
  <1> QED
    BY <1>1, <1>2 DEF BackupsOf, installed

(* A process that has nothing to do with installs does not care for them.                         *)
LEMMA BackupsLeft ==
    ASSUME TypeOK, NEW q \in Procs,
           \/ pc'[q] \notin {"recover", "install", "commit", "fetch", "saveLoad", "save"} \cup Checking
           \/ pc'[q] \notin {"recover", "commit"} /\ kind'[q] # "apply"
    PROVE  BackupsOf(q)'
  BY DEF BackupsOf, Installing

(* So it is for the others, when a process moves on without a touch of the disk.                  *)
LEMMA BackupsAside ==
    ASSUME TypeOK, BackupsOK, NEW p \in Procs, NEW label, Goto(p, label), UNCHANGED installed, BackupsOf(p)',
           \A q \in Procs \ {p} : /\ kind'[q] = kind[q] /\ ver'[q] = ver[q] /\ idx'[q] = idx[q]
                                  /\ seen'[q] = seen[q] /\ target'[q] = target[q]
    PROVE  BackupsOK'
  <1>1. ASSUME NEW q \in Procs \ {p} PROVE BackupsOf(q)'
    <2>1. pc'[q] = pc[q]
      BY DEF Goto, TypeOK
    <2> QED
      BY <2>1, BackupsOfOther DEF BackupsOK
  <1> QED
    BY <1>1 DEF BackupsOK

(* And so it is when the holder of the lock touches the disk: the others have no part in it.      *)
LEMMA BackupsUnderLock ==
    ASSUME TypeOK, UpdatesAreLocked, BackupsOK, NEW p \in Procs, lock = p, NEW label, Goto(p, label), BackupsOf(p)',
           \A q \in Procs \ {p} : kind'[q] = kind[q]
    PROVE  BackupsOK'
  <1>1. ASSUME NEW q \in Procs \ {p} PROVE BackupsOf(q)'
    <2>1. pc'[q] = pc[q]
      BY DEF Goto, TypeOK
    <2>2. lock # q
      BY <1>1
    <2>3. pc[q] \notin Updating /\ (pc[q] \in Checking => kind[q] = "check")
      BY <2>2 DEF UpdatesAreLocked
    <2> QED
      BY <2>1, <2>3 DEF BackupsOf, Installing, Updating, Checking
  <1> QED
    BY <1>1 DEF BackupsOK

(* No step leaves anything to undo where an apply believes there is nothing. *)
LEMMA BackupsStep ==
    ASSUME TypeOK, UpdatesAreLocked, FirstOptionFirst, BackupsOK, [Next]_vars
    PROVE  BackupsOK'
  <1> USE DEF disk, hooks, procs, bounds, history
  <1>1. CASE Publish
    <2>1. UNCHANGED <<installed, pc, kind, ver, idx, seen, target>>
      BY <1>1 DEF Publish
    <2> QED
      BY <2>1, BackupsOfOther DEF BackupsOK
  <1>2. CASE Reconfigure
    <2>1. UNCHANGED <<installed, pc, kind, ver, idx, seen, target>>
      BY <1>2 DEF Reconfigure
    <2> QED
      BY <2>1, BackupsOfOther DEF BackupsOK
  <1>3. CASE Tick
    <2>1. UNCHANGED <<installed, pc, kind, ver, idx, seen, target>>
      BY <1>3 DEF Tick
    <2> QED
      BY <2>1, BackupsOfOther DEF BackupsOK
  <1>4. CASE Arm
    <2>1. UNCHANGED installed
      BY <1>4 DEF Arm
    <2>2. PICK label : Goto(Daemon, label) /\ label \notin Updating \cup Checking
      BY <1>4 DEF Arm, Updating, Checking
    <2>3. pc'[Daemon] \notin Updating \cup Checking
      BY <2>2, Bounds DEF Goto, TypeOK
    <2>4. BackupsOf(Daemon)'
      BY <2>3, BackupsLeft, Bounds DEF Updating
    <2>9. \A q \in Procs \ {Daemon} : /\ kind'[q] = kind[q] /\ ver'[q] = ver[q] /\ idx'[q] = idx[q]
                                  /\ seen'[q] = seen[q] /\ target'[q] = target[q]
      BY <1>4 DEF Arm, TypeOK
    <2> QED
      BY <2>1, <2>2, <2>4, <2>9, BackupsAside, Bounds
  <1>5. CASE Fire
    <2>1. UNCHANGED installed
      BY <1>5 DEF Fire
    <2>2. PICK label : Goto(Daemon, label) /\ label \notin Updating \cup Checking
      BY <1>5 DEF Fire, Updating, Checking
    <2>3. pc'[Daemon] \notin Updating \cup Checking
      BY <2>2, Bounds DEF Goto, TypeOK
    <2>4. BackupsOf(Daemon)'
      BY <2>3, BackupsLeft, Bounds DEF Updating
    <2>9. \A q \in Procs \ {Daemon} : /\ kind'[q] = kind[q] /\ ver'[q] = ver[q] /\ idx'[q] = idx[q]
                                  /\ seen'[q] = seen[q] /\ target'[q] = target[q]
      BY <1>5 DEF Fire, TypeOK
    <2> QED
      BY <2>1, <2>2, <2>4, <2>9, BackupsAside, Bounds
  <1>6. CASE RunScheduledUpdate
    <2>1. UNCHANGED installed /\ \E label : Goto(Daemon, label)
      BY <1>6 DEF RunScheduledUpdate
    <2>2. \/ Goto(Daemon, "reload")
          \/ Goto(Daemon, "check") /\ kind' = [kind EXCEPT ![Daemon] = "check"]
          \/ Goto(Daemon, "lock")
      BY <1>6 DEF RunScheduledUpdate
    <2>3. \/ pc'[Daemon] \in {"reload", "lock"}
          \/ pc'[Daemon] = "check" /\ kind'[Daemon] = "check"
      BY <2>2, Bounds DEF Goto, TypeOK
    <2>4. BackupsOf(Daemon)'
      BY <2>3, BackupsLeft, Bounds DEF Checking
    <2>9. \A q \in Procs \ {Daemon} : /\ kind'[q] = kind[q] /\ ver'[q] = ver[q] /\ idx'[q] = idx[q]
                                  /\ seen'[q] = seen[q] /\ target'[q] = target[q]
      BY <1>6 DEF RunScheduledUpdate, TypeOK
    <2> QED
      BY <2>1, <2>4, <2>9, BackupsAside, Bounds
  <1>7. CASE StopForRelaunch
    <2>1. UNCHANGED installed
      BY <1>7 DEF StopForRelaunch
    <2>2. PICK label : Goto(Daemon, label) /\ label \notin Updating \cup Checking
      BY <1>7 DEF StopForRelaunch, Updating, Checking
    <2>3. pc'[Daemon] \notin Updating \cup Checking
      BY <2>2, Bounds DEF Goto, TypeOK
    <2>4. BackupsOf(Daemon)'
      BY <2>3, BackupsLeft, Bounds DEF Updating
    <2>9. \A q \in Procs \ {Daemon} : /\ kind'[q] = kind[q] /\ ver'[q] = ver[q] /\ idx'[q] = idx[q]
                                  /\ seen'[q] = seen[q] /\ target'[q] = target[q]
      BY <1>7 DEF StopForRelaunch, TypeOK
    <2> QED
      BY <2>1, <2>2, <2>4, <2>9, BackupsAside, Bounds
  <1>8. CASE LoopAgain
    <2>1. UNCHANGED installed
      BY <1>8 DEF LoopAgain
    <2>2. PICK label : Goto(Daemon, label) /\ label \notin Updating \cup Checking
      BY <1>8 DEF LoopAgain, Updating, Checking
    <2>3. pc'[Daemon] \notin Updating \cup Checking
      BY <2>2, Bounds DEF Goto, TypeOK
    <2>4. BackupsOf(Daemon)'
      BY <2>3, BackupsLeft, Bounds DEF Updating
    <2>9. \A q \in Procs \ {Daemon} : /\ kind'[q] = kind[q] /\ ver'[q] = ver[q] /\ idx'[q] = idx[q]
                                  /\ seen'[q] = seen[q] /\ target'[q] = target[q]
      BY <1>8 DEF LoopAgain, TypeOK
    <2> QED
      BY <2>1, <2>2, <2>4, <2>9, BackupsAside, Bounds
  <1>9. CASE Relaunch
    <2>1. UNCHANGED installed
      BY <1>9 DEF Relaunch
    <2>2. PICK label : Goto(Daemon, label) /\ label \notin Updating \cup Checking
      BY <1>9 DEF Relaunch, Updating, Checking
    <2>3. pc'[Daemon] \notin Updating \cup Checking
      BY <2>2, Bounds DEF Goto, TypeOK
    <2>4. BackupsOf(Daemon)'
      BY <2>3, BackupsLeft, Bounds DEF Updating
    <2>9. \A q \in Procs \ {Daemon} : /\ kind'[q] = kind[q] /\ ver'[q] = ver[q] /\ idx'[q] = idx[q]
                                  /\ seen'[q] = seen[q] /\ target'[q] = target[q]
      BY <1>9 DEF Relaunch, TypeOK
    <2> QED
      BY <2>1, <2>2, <2>4, <2>9, BackupsAside, Bounds
  <1>10. CASE RelaunchFailed
    <2>1. UNCHANGED <<installed, pc, kind, ver, idx, seen, target>>
      BY <1>10 DEF RelaunchFailed
    <2> QED
      BY <2>1, BackupsOfOther DEF BackupsOK
  <1>11. CASE Panic
    <2>1. UNCHANGED installed
      BY <1>11 DEF Panic
    <2>2. PICK label : Goto(Daemon, label) /\ label \notin Updating \cup Checking
      BY <1>11 DEF Panic, Updating, Checking
    <2>3. pc'[Daemon] \notin Updating \cup Checking
      BY <2>2, Bounds DEF Goto, TypeOK
    <2>4. BackupsOf(Daemon)'
      BY <2>3, BackupsLeft, Bounds DEF Updating
    <2>9. \A q \in Procs \ {Daemon} : /\ kind'[q] = kind[q] /\ ver'[q] = ver[q] /\ idx'[q] = idx[q]
                                  /\ seen'[q] = seen[q] /\ target'[q] = target[q]
      BY <1>11 DEF Panic, TypeOK, Clear
    <2> QED
      BY <2>1, <2>2, <2>4, <2>9, BackupsAside, Bounds
  <1>12. ASSUME NEW c \in Commands, StartCommand(c) PROVE BackupsOK'
    <2>1. UNCHANGED installed /\ \E label : Goto(c, label)
      BY <1>12 DEF StartCommand
    <2>2. \/ Goto(c, "check") /\ kind' = [kind EXCEPT ![c] = "check"]
          \/ Goto(c, "lock")
      BY <1>12 DEF StartCommand
    <2>3. \/ pc'[c] = "lock"
          \/ pc'[c] = "check" /\ kind'[c] = "check"
      BY <2>2, Bounds DEF Goto, TypeOK
    <2>4. BackupsOf(c)'
      BY <2>3, BackupsLeft, Bounds DEF Checking
    <2>9. \A q \in Procs \ {c} : /\ kind'[q] = kind[q] /\ ver'[q] = ver[q] /\ idx'[q] = idx[q]
                                  /\ seen'[q] = seen[q] /\ target'[q] = target[q]
      BY <1>12 DEF StartCommand, TypeOK
    <2> QED
      BY <2>1, <2>4, <2>9, BackupsAside, Bounds
  <1>13. ASSUME NEW p \in Procs, Acquire(p) PROVE BackupsOK'
    <2>1. pc[p] = "lock" /\ Goto(p, Begun(p)) /\ UNCHANGED <<installed, kind, idx>>
      BY <1>13 DEF Acquire
    <2>2. kind[p] \in {"apply", "dry"} /\ idx[p] = 1
      BY <2>1 DEF UpdatesAreLocked, FirstOptionFirst, TypeOK
    <2>3. pc'[p] = Begun(p)
      BY <2>1, SharedTypes DEF Goto, TypeOK
    <2>4. ASSUME kind[p] = "dry" PROVE BackupsOf(p)'
      <3>1. pc'[p] = "check" /\ kind'[p] = "dry"
        BY <2>1, <2>3, <2>4 DEF Begun
      <3> QED
        BY <3>1, BackupsLeft
    <2>5. ASSUME kind[p] = "apply" PROVE BackupsOf(p)'
      <3>1. pc'[p] = "recover" /\ kind'[p] = "apply" /\ idx'[p] = 1
        BY <2>1, <2>2, <2>3, <2>5 DEF Begun
      <3>2. \A b \in Binaries : ~(b < 1)
        BY Bounds DEF Binaries
      <3> QED
        BY <3>1, <3>2 DEF BackupsOf, Installing, Checking
    <2>9. \A q \in Procs \ {p} : /\ kind'[q] = kind[q] /\ ver'[q] = ver[q] /\ idx'[q] = idx[q]
                                  /\ seen'[q] = seen[q] /\ target'[q] = target[q]
      BY <1>13 DEF Acquire, TypeOK
    <2> QED
      BY <2>1, <2>2, <2>4, <2>5, <2>9, BackupsAside
  <1>14. ASSUME NEW p \in Procs, Busy(p) PROVE BackupsOK'
    <2>1. UNCHANGED installed
      BY <1>14 DEF Busy
    <2>2. PICK label : Goto(p, label) /\ label \notin Updating \cup Checking
      BY <1>14 DEF Busy, Updating, Checking
    <2>3. pc'[p] \notin Updating \cup Checking
      BY <2>2, Bounds DEF Goto, TypeOK
    <2>4. BackupsOf(p)'
      BY <2>3, BackupsLeft, Bounds DEF Updating
    <2>9. \A q \in Procs \ {p} : /\ kind'[q] = kind[q] /\ ver'[q] = ver[q] /\ idx'[q] = idx[q]
                                  /\ seen'[q] = seen[q] /\ target'[q] = target[q]
      BY <1>14 DEF Busy, TypeOK
    <2> QED
      BY <2>1, <2>2, <2>4, <2>9, BackupsAside, Bounds
  <1>15. ASSUME NEW p \in Procs, Recover(p) PROVE BackupsOK'
    <2>1. pc[p] = "recover" /\ NextOption(p, "check") /\ UNCHANGED kind
          /\ undo' = [undo EXCEPT ![idx[p]] = NoBackup]
      BY <1>15 DEF Recover
    <2>2. idx[p] \in Binaries /\ undo \in [Binaries -> Tags \cup {NoBackup}]
      BY DEF TypeOK
    <2>3. /\ pc'[p] = IF idx[p] < NumBinaries THEN "recover" ELSE "check"
          /\ idx'[p] = IF idx[p] < NumBinaries THEN idx[p] + 1 ELSE 1
          /\ \E label : Goto(p, label)
      BY <2>1 DEF NextOption, Goto, TypeOK
    <2>4. kind[p] = "apply" /\ lock = p /\ \A b \in Binaries : b < idx[p] => undo[b] = NoBackup
      BY <2>1 DEF BackupsOK, BackupsOf, UpdatesAreLocked, Updating
    <2>5. \A b \in Binaries : b <= idx[p] => undo'[b] = NoBackup
      <3>1. \A b \in Binaries : b <= idx[p] => b = idx[p] \/ b < idx[p]
        BY <2>2, Bounds DEF Binaries
      <3> QED
        BY <2>1, <2>2, <2>4, <3>1
    <2>6. CASE idx[p] < NumBinaries
      <3>1. pc'[p] = "recover" /\ \A b \in Binaries : b < idx'[p] => b <= idx[p]
        BY <2>2, <2>3, <2>6, Bounds DEF Binaries
      <3>2. BackupsOf(p)'
        BY <2>1, <2>4, <2>5, <3>1 DEF BackupsOf, Installing, Checking
      <3> QED
        BY <2>1, <2>3, <2>4, <3>2, BackupsUnderLock
    <2>7. CASE ~(idx[p] < NumBinaries)
      <3>1. pc'[p] = "check" /\ \A b \in Binaries : b <= idx[p]
        BY <2>2, <2>3, <2>7, Bounds DEF Binaries
      <3>2. BackupsOf(p)'
        BY <2>5, <3>1 DEF BackupsOf, Installing
      <3> QED
        BY <2>1, <2>3, <2>4, <3>2, BackupsUnderLock
    <2> QED
      BY <2>6, <2>7
  <1>16. ASSUME NEW p \in Procs, CheckFetch(p) PROVE BackupsOK'
    <2>1. UNCHANGED <<installed, kind>> /\ Goto(p, "checkLoad") /\ pc[p] = "check"
      BY <1>16 DEF CheckFetch
    <2>2. pc'[p] = "checkLoad"
      BY <2>1 DEF Goto, TypeOK
    <2>3. BackupsOf(p)'
      BY <2>1, <2>2 DEF installed, BackupsOK, BackupsOf, Installing, Checking
    <2>9. \A q \in Procs \ {p} : /\ kind'[q] = kind[q] /\ ver'[q] = ver[q] /\ idx'[q] = idx[q]
                                  /\ seen'[q] = seen[q] /\ target'[q] = target[q]
      BY <1>16 DEF CheckFetch, TypeOK
    <2> QED
      BY <2>1, <2>3, <2>9, BackupsAside
  <1>17. ASSUME NEW p \in Procs, Load(p) PROVE BackupsOK'
    <2>1. UNCHANGED <<installed, kind>>
      BY <1>17 DEF Load
    <2>2. PICK label : /\ Goto(p, label) /\ label \in {"checkSave", "save", "errSave"}
                       /\ label # "errSave" => pc[p] \in {"checkLoad", "saveLoad"}
      BY <1>17 DEF Load
    <2>3. pc'[p] = label
      BY <2>2 DEF Goto, TypeOK
    <2>4. BackupsOf(p)'
      BY <2>1, <2>2, <2>3 DEF installed, BackupsOK, BackupsOf, Installing, Checking
    <2>9. \A q \in Procs \ {p} : /\ kind'[q] = kind[q] /\ ver'[q] = ver[q] /\ idx'[q] = idx[q]
                                  /\ seen'[q] = seen[q] /\ target'[q] = target[q]
      BY <1>17 DEF Load, TypeOK
    <2> QED
      BY <2>1, <2>2, <2>4, <2>9, BackupsAside
  <1>18. ASSUME NEW p \in Procs, CheckSave(p) PROVE BackupsOK'
    <2>1. UNCHANGED <<installed, kind>> /\ pc[p] = "checkSave"
      BY <1>18 DEF CheckSave
    <2>2. PICK label : Goto(p, label) /\ label \in {"reload", "idle", "check", "saveLoad", "fetch"}
      BY <1>18 DEF CheckSave, Returned
    <2>3. pc'[p] = label
      BY <2>2 DEF Goto, TypeOK
    <2>4. BackupsOf(p)'
      BY <2>1, <2>2, <2>3 DEF installed, BackupsOK, BackupsOf, Installing, Checking
    <2>9. \A q \in Procs \ {p} : /\ kind'[q] = kind[q] /\ ver'[q] = ver[q] /\ idx'[q] = idx[q]
                                  /\ seen'[q] = seen[q] /\ target'[q] = target[q]
      BY <1>18 DEF CheckSave, TypeOK, Clear
    <2> QED
      BY <2>1, <2>2, <2>4, <2>9, BackupsAside
  <1>19. ASSUME NEW p \in Procs, Fetch(p) PROVE BackupsOK'
    <2>1. UNCHANGED <<installed, kind, idx>> /\ Goto(p, "install") /\ pc[p] = "fetch"
      BY <1>19 DEF Fetch
    <2>2. pc'[p] = "install" /\ idx'[p] = 1
      BY <2>1 DEF Goto, TypeOK, FirstOptionFirst
    <2>3. Renamed(p)' = {}
      BY <2>2, Bounds DEF Renamed, Available, Binaries
    <2>4. BackupsOf(p)'
      BY <2>1, <2>2, <2>3 DEF installed, BackupsOK, BackupsOf, Installing, Checking
    <2>9. \A q \in Procs \ {p} : /\ kind'[q] = kind[q] /\ ver'[q] = ver[q] /\ idx'[q] = idx[q]
                                  /\ seen'[q] = seen[q] /\ target'[q] = target[q]
      BY <1>19 DEF Fetch, TypeOK
    <2> QED
      BY <2>1, <2>4, <2>9, BackupsAside
  <1>20. ASSUME NEW p \in Procs, Install(p) PROVE BackupsOK'
    <2>1. /\ pc[p] = "install" /\ kind[p] = "apply" /\ NextOption(p, "commit")
          /\ UNCHANGED <<kind, ver, seen, target>>
      BY <1>20 DEF Install
    <2>2. /\ idx[p] \in Binaries /\ undo \in [Binaries -> Tags \cup {NoBackup}]
          /\ bin \in [Binaries -> Tags]
      BY DEF TypeOK
    <2>3. /\ pc'[p] = IF idx[p] < NumBinaries THEN "install" ELSE "commit"
          /\ idx'[p] = IF idx[p] < NumBinaries THEN idx[p] + 1 ELSE 1
          /\ \E label : Goto(p, label)
      BY <2>1 DEF NextOption, Goto, TypeOK
    <2>4. lock = p /\ Installing(p) /\ Available(p)' = Available(p)
      BY <2>1 DEF UpdatesAreLocked, Updating, Installing, Available, Newer
    <2>5. Renamed(p)' = Renamed(p) \cup (Available(p) \cap {idx[p]})
      <3>1. Available(p) \subseteq Binaries
        BY DEF Available
      <3>2. \A b \in Binaries : (b < idx[p] + 1 <=> b < idx[p] \/ b = idx[p]) /\ (b <= NumBinaries)
        BY <2>2, Bounds DEF Binaries
      <3>3. CASE idx[p] < NumBinaries
        BY <2>1, <2>3, <2>4, <3>1, <3>2, <3>3 DEF Renamed
      <3>4. CASE ~(idx[p] < NumBinaries)
        <4>1. \A b \in Binaries : b < idx[p] \/ b = idx[p]
          BY <2>2, <3>4, Bounds DEF Binaries
        <4> QED
          BY <2>1, <2>3, <2>4, <3>1, <3>4, <4>1 DEF Renamed
      <3> QED
        BY <3>3, <3>4
    <2>6. ASSUME NEW b \in Binaries
          PROVE  IF b \in Renamed(p)' THEN undo'[b] # NoBackup /\ bin'[b] = target'[p]
                 ELSE undo'[b] = NoBackup
      <3>1. IF b \in Renamed(p) THEN undo[b] # NoBackup /\ bin[b] = target[p] ELSE undo[b] = NoBackup
        BY <2>4 DEF BackupsOK, BackupsOf
      <3>2. CASE b = idx[p] /\ idx[p] \in Available(p)
        <4>1. undo'[b] = bin[b] /\ bin'[b] = target[p]
          BY <1>20, <2>2, <3>2 DEF Install
        <4> QED
          BY <2>1, <2>2, <2>5, <3>2, <4>1, Bounds
      <3>3. CASE ~(b = idx[p] /\ idx[p] \in Available(p))
        <4>1. undo'[b] = undo[b] /\ bin'[b] = bin[b]
          BY <1>20, <2>2, <3>3 DEF Install, installed
        <4> QED
          BY <2>1, <2>5, <3>1, <3>3, <4>1
      <3> QED
        BY <3>2, <3>3
    <2>7. BackupsOf(p)'
      BY <2>1, <2>3, <2>6 DEF BackupsOf, Checking
    <2> QED
      BY <2>1, <2>3, <2>4, <2>7, BackupsUnderLock
  <1>21. ASSUME NEW p \in Procs, DryInstall(p) PROVE BackupsOK'
    <2>1. UNCHANGED <<installed, kind>> /\ Goto(p, "saveLoad") /\ kind[p] = "dry"
      BY <1>21 DEF DryInstall
    <2>2. pc'[p] \notin {"recover", "commit"} /\ kind'[p] # "apply"
      BY <2>1 DEF Goto, TypeOK
    <2>3. BackupsOf(p)'
      BY <2>2, BackupsLeft
    <2>9. \A q \in Procs \ {p} : /\ kind'[q] = kind[q] /\ ver'[q] = ver[q] /\ idx'[q] = idx[q]
                                  /\ seen'[q] = seen[q] /\ target'[q] = target[q]
      BY <1>21 DEF DryInstall, TypeOK
    <2> QED
      BY <2>1, <2>3, <2>9, BackupsAside
  <1>22. ASSUME NEW p \in Procs, Commit(p) PROVE BackupsOK'
    <2>1. pc[p] = "commit" /\ Goto(p, "saveLoad") /\ UNCHANGED kind
      BY <1>22 DEF Commit
    <2>2. lock = p /\ pc'[p] = "saveLoad"
      BY <2>1 DEF UpdatesAreLocked, Updating, Goto, TypeOK
    <2>3. BackupsOf(p)'
      <3>1. CASE kind[p] = "apply"
        <4>1. \A b \in Binaries : undo'[b] = NoBackup
          BY <1>22, <3>1, KeptAtCommit
        <4> QED
          BY <2>2, <4>1 DEF BackupsOf, Installing
      <3>2. CASE kind[p] # "apply"
        BY <2>1, <2>2, <3>2, BackupsLeft
      <3> QED
        BY <3>1, <3>2
    <2> QED
      BY <2>1, <2>2, <2>3, BackupsUnderLock
  <1>23. ASSUME NEW p \in Procs, Save(p) PROVE BackupsOK'
    <2>1. UNCHANGED <<installed, kind>> /\ pc[p] = "save"
      BY <1>23 DEF Save
    <2>2. PICK label : Goto(p, label) /\ label \in {"reload", "idle", "saveLoad"}
      BY <1>23 DEF Save, Returned
    <2>3. pc'[p] = label
      BY <2>2 DEF Goto, TypeOK
    <2>4. BackupsOf(p)'
      BY <2>1, <2>2, <2>3 DEF installed, BackupsOK, BackupsOf, Installing, Checking
    <2>9. \A q \in Procs \ {p} : /\ kind'[q] = kind[q] /\ ver'[q] = ver[q] /\ idx'[q] = idx[q]
                                  /\ seen'[q] = seen[q] /\ target'[q] = target[q]
      BY <1>23 DEF Save, TypeOK, Clear
    <2> QED
      BY <2>1, <2>2, <2>4, <2>9, BackupsAside
  <1>24. ASSUME NEW p \in Procs, ErrSave(p) PROVE BackupsOK'
    <2>1. UNCHANGED installed
      BY <1>24 DEF ErrSave
    <2>2. PICK label : Goto(p, label) /\ label \notin Updating \cup Checking
      BY <1>24 DEF ErrSave, Updating, Checking, Failed
    <2>3. pc'[p] \notin Updating \cup Checking
      BY <2>2, Bounds DEF Goto, TypeOK
    <2>4. BackupsOf(p)'
      BY <2>3, BackupsLeft, Bounds DEF Updating
    <2>9. \A q \in Procs \ {p} : /\ kind'[q] = kind[q] /\ ver'[q] = ver[q] /\ idx'[q] = idx[q]
                                  /\ seen'[q] = seen[q] /\ target'[q] = target[q]
      BY <1>24 DEF ErrSave, TypeOK, Clear
    <2> QED
      BY <2>1, <2>2, <2>4, <2>9, BackupsAside, Bounds
  <1>25. ASSUME NEW p \in Procs, ErrSaveFailed(p) PROVE BackupsOK'
    <2>1. UNCHANGED installed
      BY <1>25 DEF ErrSaveFailed
    <2>2. PICK label : Goto(p, label) /\ label \notin Updating \cup Checking
      BY <1>25 DEF ErrSaveFailed, Updating, Checking, Failed
    <2>3. pc'[p] \notin Updating \cup Checking
      BY <2>2, Bounds DEF Goto, TypeOK
    <2>4. BackupsOf(p)'
      BY <2>3, BackupsLeft, Bounds DEF Updating
    <2>9. \A q \in Procs \ {p} : /\ kind'[q] = kind[q] /\ ver'[q] = ver[q] /\ idx'[q] = idx[q]
                                  /\ seen'[q] = seen[q] /\ target'[q] = target[q]
      BY <1>25 DEF ErrSaveFailed, TypeOK, Clear
    <2> QED
      BY <2>1, <2>2, <2>4, <2>9, BackupsAside, Bounds
  <1>26. ASSUME NEW p \in Procs, CheckFetchFailed(p) PROVE BackupsOK'
    <2>1. UNCHANGED installed
      BY <1>26 DEF CheckFetchFailed
    <2>2. PICK label : Goto(p, label) /\ label \notin Updating \cup Checking
      BY <1>26 DEF CheckFetchFailed, Updating, Checking
    <2>3. pc'[p] \notin Updating \cup Checking
      BY <2>2, Bounds DEF Goto, TypeOK
    <2>4. BackupsOf(p)'
      BY <2>3, BackupsLeft, Bounds DEF Updating
    <2>9. \A q \in Procs \ {p} : /\ kind'[q] = kind[q] /\ ver'[q] = ver[q] /\ idx'[q] = idx[q]
                                  /\ seen'[q] = seen[q] /\ target'[q] = target[q]
      BY <1>26 DEF CheckFetchFailed, TypeOK
    <2> QED
      BY <2>1, <2>2, <2>4, <2>9, BackupsAside, Bounds
  <1>27. ASSUME NEW p \in Procs, StepFailed(p) PROVE BackupsOK'
    <2>1. PICK label : Goto(p, label) /\ label \notin Updating \cup Checking
      BY <1>27 DEF StepFailed, Updating, Checking, Failed
    <2>2. pc'[p] \notin Updating \cup Checking
      BY <2>1 DEF Goto, TypeOK
    <2>3. BackupsOf(p)'
      BY <2>2, BackupsLeft DEF Updating
    <2>9. \A q \in Procs \ {p} : /\ kind'[q] = kind[q] /\ ver'[q] = ver[q] /\ idx'[q] = idx[q]
                                  /\ seen'[q] = seen[q] /\ target'[q] = target[q]
      BY <1>27 DEF StepFailed, TypeOK, Clear
    <2>4. CASE Installing(p)
      <3>1. lock = p
        BY <2>4 DEF Installing, UpdatesAreLocked, Updating
      <3> QED
        BY <2>1, <2>3, <2>9, <3>1, BackupsUnderLock
    <2>5. CASE ~Installing(p)
      <3>1. UNCHANGED installed
        BY <1>27, <2>5 DEF StepFailed, RollBack
      <3> QED
        BY <2>1, <2>3, <2>9, <3>1, BackupsAside
    <2> QED
      BY <2>4, <2>5
  <1>28. ASSUME NEW p \in Procs, Kill(p) PROVE BackupsOK'
    <2>1. UNCHANGED installed
      BY <1>28 DEF Kill
    <2>2. PICK label : Goto(p, label) /\ label \notin Updating \cup Checking
      BY <1>28 DEF Kill, Updating, Checking
    <2>3. pc'[p] \notin Updating \cup Checking
      BY <2>2, Bounds DEF Goto, TypeOK
    <2>4. BackupsOf(p)'
      BY <2>3, BackupsLeft, Bounds DEF Updating
    <2>9. \A q \in Procs \ {p} : /\ kind'[q] = kind[q] /\ ver'[q] = ver[q] /\ idx'[q] = idx[q]
                                  /\ seen'[q] = seen[q] /\ target'[q] = target[q]
      BY <1>28 DEF Kill, TypeOK, Clear
    <2> QED
      BY <2>1, <2>2, <2>4, <2>9, BackupsAside, Bounds
  <1>29. CASE UNCHANGED vars
    <2>1. UNCHANGED <<installed, pc, kind, ver, idx, seen, target>>
      BY <1>29 DEF vars
    <2> QED
      BY <2>1, BackupsOfOther DEF BackupsOK
  <1> QED
    BY <1>1, <1>2, <1>3, <1>4, <1>5, <1>6, <1>7, <1>8, <1>9, <1>10, <1>11, <1>12, <1>13, <1>14,
       <1>15, <1>16, <1>17, <1>18, <1>19, <1>20, <1>21, <1>22, <1>23, <1>24, <1>25, <1>26,
       <1>27, <1>28, <1>29
       DEF Next, DaemonStep, RunStep, FaultStep

(* Only the commit of an apply changes what a recovery would leave. *)
LEMMA KeptStep ==
    ASSUME TypeOK, BackupsOK, [Next]_vars
    PROVE  UNCHANGED Kept \/ \E p \in Procs : Commit(p) /\ kind[p] = "apply"
  <1> USE DEF disk, hooks, procs, bounds, history
  <1>1. ASSUME NEW p \in Procs, Recover(p) PROVE UNCHANGED Kept
    BY <1>1, KeptOverRecover
  <1>2. ASSUME NEW p \in Procs, Install(p) PROVE UNCHANGED Kept
    BY <1>2, KeptOverInstall
  <1>3. ASSUME NEW p \in Procs, StepFailed(p) PROVE UNCHANGED Kept
    BY <1>3, KeptOverRollBack DEF StepFailed
  <1>4. ASSUME NEW p \in Procs, Commit(p) PROVE kind[p] = "apply"
    BY <1>4 DEF Commit, BackupsOK, BackupsOf
  <1>5. \/ UNCHANGED installed
        \/ \E p \in Procs : Recover(p) \/ Install(p) \/ StepFailed(p) \/ Commit(p)
    <2>1. Publish \/ Reconfigure \/ Tick \/ RelaunchFailed \/ Panic \/ UNCHANGED vars => UNCHANGED installed
      BY DEF Publish, Reconfigure, Tick, RelaunchFailed, Panic, vars
    <2>2. DaemonStep => UNCHANGED installed
      BY DEF DaemonStep, Arm, Fire, RunScheduledUpdate, StopForRelaunch, LoopAgain, Relaunch
    <2>3. \A c \in Commands : StartCommand(c) => UNCHANGED installed
      BY DEF StartCommand
    <2>4. ASSUME NEW p \in Procs, RunStep(p) \/ FaultStep(p)
          PROVE  UNCHANGED installed \/ Recover(p) \/ Install(p) \/ StepFailed(p) \/ Commit(p)
      BY <2>4 DEF RunStep, FaultStep, Acquire, Busy, CheckFetch, Load, CheckSave, Fetch, DryInstall, Save,
                  ErrSave, CheckFetchFailed, ErrSaveFailed, Kill
    <2> QED
      BY <2>1, <2>2, <2>3, <2>4 DEF Next
  <1> QED
    BY <1>1, <1>2, <1>3, <1>4, <1>5, KeptStays

(* The releases on the disk, remembered or started are natural numbers. *)
LEMMA TagTypes ==
    ASSUME TypeOK
    PROVE  /\ latest \in Nat
           /\ \A b \in Binaries : bin[b] \in Nat /\ Kept[b] \in Nat
           /\ \A b \in Binaries : Kept[b] \in {bin[b], undo[b]} /\ (undo[b] # NoBackup => Kept[b] = undo[b])
           /\ \A q \in Procs : ver[q] \in Nat /\ target[q] \in Nat
  <1>1. /\ latest \in Tags /\ bin \in [Binaries -> Tags] /\ undo \in [Binaries -> Tags \cup {NoBackup}]
        /\ \A q \in Procs : ver[q] \in Tags /\ target[q] \in Tags
    BY DEF TypeOK
  <1>2. ASSUME NEW b \in Binaries
        PROVE  /\ bin[b] \in Tags /\ Kept[b] \in Tags /\ Kept[b] \in {bin[b], undo[b]}
               /\ undo[b] # NoBackup => Kept[b] = undo[b]
    BY <1>1 DEF Kept, Effective
  <1> QED
    BY <1>1, <1>2, Bounds

(* Where nothing newer is staged or put on the disk, nothing outgrows what it may be replaced by. *)
LEMMA NothingStaged ==
    ASSUME TypeOK, TypeOK', TagsGrow, UNCHANGED Kept, latest <= latest',
           \A b \in Binaries : bin'[b] <= latest,
           \A q \in Procs : ver'[q] <= latest,
           \A q \in Procs : target'[q] \in {0, target[q]},
           \A q \in Procs : pc'[q] \in {"install", "commit"} =>
                              pc[q] \in {"install", "commit"} /\ target'[q] = target[q]
    PROVE  TagsGrow'
  <1>1. /\ latest \in Nat /\ latest' \in Nat
        /\ \A b \in Binaries : bin'[b] \in Nat /\ Kept[b] \in Nat
        /\ \A q \in Procs : ver'[q] \in Nat /\ target[q] \in Nat
    BY TagTypes, Bounds DEF TypeOK, Tags
  <1>2. ASSUME NEW b \in Binaries PROVE bin'[b] <= latest' /\ Kept'[b] <= latest'
    BY <1>1 DEF TagsGrow
  <1>3. ASSUME NEW q \in Procs PROVE target'[q] <= latest' /\ ver'[q] <= latest'
    <2>1. target[q] <= latest /\ 0 <= latest /\ ver'[q] <= latest
      BY <1>1 DEF TagsGrow
    <2>2. target'[q] = 0 \/ target'[q] = target[q]
      OBVIOUS
    <2> QED
      BY <1>1, <2>1, <2>2
  <1>4. ASSUME NEW q \in Procs, pc'[q] \in {"install", "commit"}, NEW b \in Binaries
        PROVE  Kept'[b] <= target'[q]
    <2>1. pc[q] \in {"install", "commit"} /\ target'[q] = target[q]
      BY <1>4
    <2> QED
      BY <2>1 DEF TagsGrow
  <1> QED
    BY <1>2, <1>3, <1>4 DEF TagsGrow

(* So it is for a step that touches neither the disk nor the releases. *)
LEMMA NothingTouched ==
    ASSUME TypeOK, TypeOK', TagsGrow, UNCHANGED <<installed, latest>>,
           \A q \in Procs : ver'[q] \in {ver[q], bin[1]},
           \A q \in Procs : target'[q] \in {0, target[q]},
           \A q \in Procs : pc'[q] \in {"install", "commit"} =>
                              pc[q] \in {"install", "commit"} /\ target'[q] = target[q]
    PROVE  TagsGrow'
  <1>1. UNCHANGED Kept /\ bin' = bin /\ latest' = latest
    BY KeptStays DEF installed
  <1>2. latest \in Nat /\ bin[1] <= latest /\ \A b \in Binaries : bin'[b] <= latest
    BY <1>1, TagTypes, Bounds DEF TagsGrow
  <1>3. \A q \in Procs : ver'[q] <= latest
    BY <1>2 DEF TagsGrow
  <1>4. latest <= latest'
    BY <1>1, <1>2
  <1> QED
    BY <1>1, <1>2, <1>3, <1>4, NothingStaged

(* A process that moves on to something else than an install stages nothing. *)
LEMMA MemoryFades ==
    ASSUME TypeOK, NEW p \in Procs, NEW label, Goto(p, label), label \notin {"install", "commit"},
           Clear(p) \/ UNCHANGED target
    PROVE  /\ \A q \in Procs : target'[q] \in {0, target[q]}
           /\ \A q \in Procs : pc'[q] \in {"install", "commit"} =>
                                 pc[q] \in {"install", "commit"} /\ target'[q] = target[q]
  BY DEF TypeOK, Goto, Clear

(* No step installs, stages or starts a tag out of order: what is staged was looked up under the lock. *)
LEMMA GrowStep ==
    ASSUME TypeOK, TypeOK', UpdatesAreLocked, BackupsOK, TagsGrow, [Next]_vars
    PROVE  TagsGrow'
  <1> USE DEF disk, hooks, procs, bounds, history
  <1>1. CASE Publish
    <2>1. UNCHANGED <<installed, pc, ver, target>> /\ latest' = latest + 1
      BY <1>1 DEF Publish
    <2>2. latest <= latest' /\ UNCHANGED Kept /\ \A b \in Binaries : bin'[b] <= latest
      BY <2>1, TagTypes, KeptStays DEF installed, TagsGrow
    <2>3. \A q \in Procs : ver'[q] <= latest
      BY <2>1 DEF TagsGrow
    <2> QED
      BY <2>1, <2>2, <2>3, NothingStaged
  <1>2. CASE Reconfigure
    <2>1. UNCHANGED <<installed, latest, pc, ver, target>>
      BY <1>2 DEF Reconfigure
    <2> QED
      BY <2>1, NothingTouched
  <1>3. CASE Tick
    <2>1. UNCHANGED <<installed, latest, pc, ver, target>>
      BY <1>3 DEF Tick
    <2> QED
      BY <2>1, NothingTouched
  <1>4. CASE Arm
    <2>1. UNCHANGED <<installed, latest>>
      BY <1>4 DEF Arm
    <2>2. PICK label : Goto(Daemon, label) /\ label \notin {"install", "commit"} /\ (Clear(Daemon) \/ UNCHANGED target)
      BY <1>4 DEF Arm
    <2>3. \A q \in Procs : ver'[q] \in {ver[q], bin[1]}
      BY <1>4, Bounds DEF Arm, TypeOK
    <2> QED
      BY <2>1, <2>2, <2>3, MemoryFades, NothingTouched, Bounds
  <1>5. CASE Fire
    <2>1. UNCHANGED <<installed, latest>>
      BY <1>5 DEF Fire
    <2>2. PICK label : Goto(Daemon, label) /\ label \notin {"install", "commit"} /\ (Clear(Daemon) \/ UNCHANGED target)
      BY <1>5 DEF Fire
    <2>3. \A q \in Procs : ver'[q] \in {ver[q], bin[1]}
      BY <1>5, Bounds DEF Fire, TypeOK
    <2> QED
      BY <2>1, <2>2, <2>3, MemoryFades, NothingTouched, Bounds
  <1>6. CASE RunScheduledUpdate
    <2>1. UNCHANGED <<installed, latest>>
      BY <1>6 DEF RunScheduledUpdate
    <2>2. PICK label : Goto(Daemon, label) /\ label \notin {"install", "commit"} /\ (Clear(Daemon) \/ UNCHANGED target)
      BY <1>6 DEF RunScheduledUpdate
    <2>3. \A q \in Procs : ver'[q] \in {ver[q], bin[1]}
      BY <1>6, Bounds DEF RunScheduledUpdate, TypeOK
    <2> QED
      BY <2>1, <2>2, <2>3, MemoryFades, NothingTouched, Bounds
  <1>7. CASE StopForRelaunch
    <2>1. UNCHANGED <<installed, latest>>
      BY <1>7 DEF StopForRelaunch
    <2>2. PICK label : Goto(Daemon, label) /\ label \notin {"install", "commit"} /\ (Clear(Daemon) \/ UNCHANGED target)
      BY <1>7 DEF StopForRelaunch
    <2>3. \A q \in Procs : ver'[q] \in {ver[q], bin[1]}
      BY <1>7, Bounds DEF StopForRelaunch, TypeOK
    <2> QED
      BY <2>1, <2>2, <2>3, MemoryFades, NothingTouched, Bounds
  <1>8. CASE LoopAgain
    <2>1. UNCHANGED <<installed, latest>>
      BY <1>8 DEF LoopAgain
    <2>2. PICK label : Goto(Daemon, label) /\ label \notin {"install", "commit"} /\ (Clear(Daemon) \/ UNCHANGED target)
      BY <1>8 DEF LoopAgain
    <2>3. \A q \in Procs : ver'[q] \in {ver[q], bin[1]}
      BY <1>8, Bounds DEF LoopAgain, TypeOK
    <2> QED
      BY <2>1, <2>2, <2>3, MemoryFades, NothingTouched, Bounds
  <1>9. CASE Relaunch
    <2>1. UNCHANGED <<installed, latest>>
      BY <1>9 DEF Relaunch
    <2>2. PICK label : Goto(Daemon, label) /\ label \notin {"install", "commit"} /\ (Clear(Daemon) \/ UNCHANGED target)
      BY <1>9 DEF Relaunch
    <2>3. \A q \in Procs : ver'[q] \in {ver[q], bin[1]}
      BY <1>9, Bounds DEF Relaunch, TypeOK
    <2> QED
      BY <2>1, <2>2, <2>3, MemoryFades, NothingTouched, Bounds
  <1>10. CASE RelaunchFailed
    <2>1. UNCHANGED <<installed, latest, pc, ver, target>>
      BY <1>10 DEF RelaunchFailed
    <2> QED
      BY <2>1, NothingTouched
  <1>11. CASE Panic
    <2>1. UNCHANGED <<installed, latest>>
      BY <1>11 DEF Panic
    <2>2. PICK label : Goto(Daemon, label) /\ label \notin {"install", "commit"} /\ (Clear(Daemon) \/ UNCHANGED target)
      BY <1>11 DEF Panic
    <2>3. \A q \in Procs : ver'[q] \in {ver[q], bin[1]}
      BY <1>11, Bounds DEF Panic, TypeOK
    <2> QED
      BY <2>1, <2>2, <2>3, MemoryFades, NothingTouched, Bounds
  <1>12. ASSUME NEW c \in Commands, StartCommand(c) PROVE TagsGrow'
    <2>1. UNCHANGED <<installed, latest>>
      BY <1>12 DEF StartCommand
    <2>2. PICK label : Goto(c, label) /\ label \notin {"install", "commit"} /\ (Clear(c) \/ UNCHANGED target)
      BY <1>12 DEF StartCommand
    <2>3. \A q \in Procs : ver'[q] \in {ver[q], bin[1]}
      BY <1>12, Bounds DEF StartCommand, TypeOK
    <2> QED
      BY <2>1, <2>2, <2>3, MemoryFades, NothingTouched, Bounds
  <1>13. ASSUME NEW p \in Procs, Acquire(p) PROVE TagsGrow'
    <2>1. UNCHANGED <<installed, latest>>
      BY <1>13 DEF Acquire
    <2>2. PICK label : Goto(p, label) /\ label \notin {"install", "commit"} /\ (Clear(p) \/ UNCHANGED target)
      BY <1>13 DEF Acquire, Begun
    <2>3. \A q \in Procs : ver'[q] \in {ver[q], bin[1]}
      BY <1>13, Bounds DEF Acquire, TypeOK
    <2> QED
      BY <2>1, <2>2, <2>3, MemoryFades, NothingTouched, Bounds
  <1>14. ASSUME NEW p \in Procs, Busy(p) PROVE TagsGrow'
    <2>1. UNCHANGED <<installed, latest>>
      BY <1>14 DEF Busy
    <2>2. PICK label : Goto(p, label) /\ label \notin {"install", "commit"} /\ (Clear(p) \/ UNCHANGED target)
      BY <1>14 DEF Busy
    <2>3. \A q \in Procs : ver'[q] \in {ver[q], bin[1]}
      BY <1>14, Bounds DEF Busy, TypeOK
    <2> QED
      BY <2>1, <2>2, <2>3, MemoryFades, NothingTouched, Bounds
  <1>15. ASSUME NEW p \in Procs, Recover(p) PROVE TagsGrow'
    <2>1. pc[p] = "recover" /\ NextOption(p, "check") /\ UNCHANGED <<latest, ver, target>>
      BY <1>15 DEF Recover
    <2>2. UNCHANGED Kept
      BY <1>15, KeptOverRecover
    <2>3. PICK label : Goto(p, label) /\ label \in {"recover", "check"}
      BY <2>1 DEF NextOption
    <2>4. ASSUME NEW b \in Binaries PROVE bin'[b] <= latest
      <3>1. bin' = [bin EXCEPT ![idx[p]] = IF undo[idx[p]] = NoBackup THEN bin[idx[p]] ELSE undo[idx[p]]]
        BY <1>15 DEF Recover, TypeOK
      <3>2. bin'[b] \in {bin[b], Kept[b]}
        BY <3>1 DEF TypeOK, Kept, Effective
      <3> QED
        BY <3>2 DEF TagsGrow
    <2>5. latest <= latest'
      BY <2>1, TagTypes
    <2>6. \A q \in Procs : ver'[q] <= latest
      BY <2>1 DEF TagsGrow
    <2> QED
      BY <2>1, <2>2, <2>3, <2>4, <2>5, <2>6, MemoryFades, NothingStaged
  <1>16. ASSUME NEW p \in Procs, CheckFetch(p) PROVE TagsGrow'
    <2>1. UNCHANGED <<installed, latest>>
      BY <1>16 DEF CheckFetch
    <2>2. PICK label : Goto(p, label) /\ label \notin {"install", "commit"} /\ (Clear(p) \/ UNCHANGED target)
      BY <1>16 DEF CheckFetch
    <2>3. \A q \in Procs : ver'[q] \in {ver[q], bin[1]}
      BY <1>16, Bounds DEF CheckFetch, TypeOK
    <2> QED
      BY <2>1, <2>2, <2>3, MemoryFades, NothingTouched, Bounds
  <1>17. ASSUME NEW p \in Procs, Load(p) PROVE TagsGrow'
    <2>1. UNCHANGED <<installed, latest>>
      BY <1>17 DEF Load
    <2>2. PICK label : Goto(p, label) /\ label \notin {"install", "commit"} /\ (Clear(p) \/ UNCHANGED target)
      BY <1>17 DEF Load
    <2>3. \A q \in Procs : ver'[q] \in {ver[q], bin[1]}
      BY <1>17, Bounds DEF Load, TypeOK
    <2> QED
      BY <2>1, <2>2, <2>3, MemoryFades, NothingTouched, Bounds
  <1>18. ASSUME NEW p \in Procs, CheckSave(p) PROVE TagsGrow'
    <2>1. UNCHANGED <<installed, latest>>
      BY <1>18 DEF CheckSave
    <2>2. PICK label : Goto(p, label) /\ label \notin {"install", "commit"} /\ (Clear(p) \/ UNCHANGED target)
      BY <1>18 DEF CheckSave, Returned
    <2>3. \A q \in Procs : ver'[q] \in {ver[q], bin[1]}
      BY <1>18, Bounds DEF CheckSave, TypeOK
    <2> QED
      BY <2>1, <2>2, <2>3, MemoryFades, NothingTouched, Bounds
  <1>19. ASSUME NEW p \in Procs, Fetch(p) PROVE TagsGrow'
    <2>1. pc[p] = "fetch" /\ Goto(p, "install") /\ UNCHANGED <<installed, latest, ver>>
          /\ target' = [target EXCEPT ![p] = latest]
      BY <1>19 DEF Fetch
    <2>2. UNCHANGED Kept /\ UNCHANGED bin
      BY <2>1, KeptStays DEF installed
    <2>3. \A q \in Procs : target'[q] \in {latest, target[q]} /\ target'[p] = latest
      BY <2>1 DEF TypeOK
    <2>4. \A q \in Procs \ {p} : target'[q] = target[q] /\ pc'[q] = pc[q]
      BY <2>1 DEF TypeOK, Goto
    <2>5. ASSUME NEW q \in Procs, pc'[q] \in {"install", "commit"}, NEW b \in Binaries PROVE Kept'[b] <= target'[q]
      <3>1. CASE q = p
        BY <2>2, <2>3, <3>1 DEF TagsGrow
      <3>2. CASE q # p
        BY <2>2, <2>4, <2>5, <3>2 DEF TagsGrow
      <3> QED
        BY <3>1, <3>2
    <2>6. \A q \in Procs : target'[q] <= latest'
      BY <2>1, <2>3, TagTypes DEF TagsGrow
    <2> QED
      BY <2>1, <2>2, <2>5, <2>6 DEF TagsGrow
  <1>20. ASSUME NEW p \in Procs, Install(p) PROVE TagsGrow'
    <2>1. pc[p] = "install" /\ NextOption(p, "commit") /\ UNCHANGED <<latest, ver, target>>
      BY <1>20 DEF Install
    <2>2. UNCHANGED Kept /\ latest <= latest'
      BY <1>20, <2>1, KeptOverInstall, TagTypes
    <2>3. \A q \in Procs : q # p => pc'[q] = pc[q]
      BY <2>1 DEF NextOption, Goto, TypeOK
    <2>4. ASSUME NEW b \in Binaries PROVE bin'[b] <= latest
      <3>1. bin'[b] \in {bin[b], target[p]}
        BY <1>20 DEF Install, installed, TypeOK
      <3> QED
        BY <3>1 DEF TagsGrow
    <2>5. \A q \in Procs : ver'[q] <= latest
      BY <2>1 DEF TagsGrow
    <2>6. \A q \in Procs : pc'[q] \in {"install", "commit"} => pc[q] \in {"install", "commit"}
      BY <2>1, <2>3
    <2> QED
      BY <2>1, <2>2, <2>4, <2>5, <2>6, NothingStaged
  <1>21. ASSUME NEW p \in Procs, DryInstall(p) PROVE TagsGrow'
    <2>1. UNCHANGED <<installed, latest>>
      BY <1>21 DEF DryInstall
    <2>2. PICK label : Goto(p, label) /\ label \notin {"install", "commit"} /\ (Clear(p) \/ UNCHANGED target)
      BY <1>21 DEF DryInstall
    <2>3. \A q \in Procs : ver'[q] \in {ver[q], bin[1]}
      BY <1>21, Bounds DEF DryInstall, TypeOK
    <2> QED
      BY <2>1, <2>2, <2>3, MemoryFades, NothingTouched, Bounds
  <1>22. ASSUME NEW p \in Procs, Commit(p) PROVE TagsGrow'
    <2>1. pc[p] = "commit" /\ Goto(p, "saveLoad") /\ UNCHANGED <<latest, bin, ver, target>>
      BY <1>22 DEF Commit
    <2>2. kind[p] = "apply"
      BY <2>1 DEF BackupsOK, BackupsOf
    <2>3. Kept' = [b \in Binaries |-> IF b \in Available(p) THEN target[p] ELSE Kept[b]]
      BY <1>22, <2>2, KeptAtCommit
    <2>4. \A b \in Binaries : Kept'[b] <= latest
      BY <2>3 DEF TagsGrow
    <2>5. lock = p
      BY <2>1 DEF UpdatesAreLocked, Updating
    <2>6. \A q \in Procs : pc'[q] \notin {"install", "commit"}
      BY <2>1, <2>5 DEF UpdatesAreLocked, Updating, Goto, TypeOK
    <2> QED
      BY <2>1, <2>4, <2>6 DEF TagsGrow
  <1>23. ASSUME NEW p \in Procs, Save(p) PROVE TagsGrow'
    <2>1. UNCHANGED <<installed, latest>>
      BY <1>23 DEF Save
    <2>2. PICK label : Goto(p, label) /\ label \notin {"install", "commit"} /\ (Clear(p) \/ UNCHANGED target)
      BY <1>23 DEF Save, Returned
    <2>3. \A q \in Procs : ver'[q] \in {ver[q], bin[1]}
      BY <1>23, Bounds DEF Save, TypeOK
    <2> QED
      BY <2>1, <2>2, <2>3, MemoryFades, NothingTouched, Bounds
  <1>24. ASSUME NEW p \in Procs, ErrSave(p) PROVE TagsGrow'
    <2>1. UNCHANGED <<installed, latest>>
      BY <1>24 DEF ErrSave
    <2>2. PICK label : Goto(p, label) /\ label \notin {"install", "commit"} /\ (Clear(p) \/ UNCHANGED target)
      BY <1>24 DEF ErrSave, Failed
    <2>3. \A q \in Procs : ver'[q] \in {ver[q], bin[1]}
      BY <1>24, Bounds DEF ErrSave, TypeOK
    <2> QED
      BY <2>1, <2>2, <2>3, MemoryFades, NothingTouched, Bounds
  <1>25. ASSUME NEW p \in Procs, ErrSaveFailed(p) PROVE TagsGrow'
    <2>1. UNCHANGED <<installed, latest>>
      BY <1>25 DEF ErrSaveFailed
    <2>2. PICK label : Goto(p, label) /\ label \notin {"install", "commit"} /\ (Clear(p) \/ UNCHANGED target)
      BY <1>25 DEF ErrSaveFailed, Failed
    <2>3. \A q \in Procs : ver'[q] \in {ver[q], bin[1]}
      BY <1>25, Bounds DEF ErrSaveFailed, TypeOK
    <2> QED
      BY <2>1, <2>2, <2>3, MemoryFades, NothingTouched, Bounds
  <1>26. ASSUME NEW p \in Procs, CheckFetchFailed(p) PROVE TagsGrow'
    <2>1. UNCHANGED <<installed, latest>>
      BY <1>26 DEF CheckFetchFailed
    <2>2. PICK label : Goto(p, label) /\ label \notin {"install", "commit"} /\ (Clear(p) \/ UNCHANGED target)
      BY <1>26 DEF CheckFetchFailed
    <2>3. \A q \in Procs : ver'[q] \in {ver[q], bin[1]}
      BY <1>26, Bounds DEF CheckFetchFailed, TypeOK
    <2> QED
      BY <2>1, <2>2, <2>3, MemoryFades, NothingTouched, Bounds
  <1>27. ASSUME NEW p \in Procs, StepFailed(p) PROVE TagsGrow'
    <2>1. PICK label : Goto(p, label) /\ label \notin {"install", "commit"} /\ (Clear(p) \/ UNCHANGED target)
      BY <1>27 DEF StepFailed, Failed
    <2>2. UNCHANGED <<latest, ver>> /\ RollBack(p)
      BY <1>27 DEF StepFailed
    <2>3. ASSUME NEW b \in Binaries PROVE bin'[b] <= latest
      <3>1. bin'[b] \in {bin[b], Kept[b]}
        BY <2>2 DEF RollBack, installed, Kept, Effective
      <3> QED
        BY <3>1 DEF TagsGrow
    <2>4. latest <= latest' /\ UNCHANGED Kept
      BY <2>2, TagTypes, KeptOverRollBack
    <2>5. \A q \in Procs : ver'[q] <= latest
      BY <2>2 DEF TagsGrow
    <2> QED
      BY <2>1, <2>2, <2>3, <2>4, <2>5, MemoryFades, NothingStaged
  <1>28. ASSUME NEW p \in Procs, Kill(p) PROVE TagsGrow'
    <2>1. UNCHANGED <<installed, latest>>
      BY <1>28 DEF Kill
    <2>2. PICK label : Goto(p, label) /\ label \notin {"install", "commit"} /\ (Clear(p) \/ UNCHANGED target)
      BY <1>28 DEF Kill
    <2>3. \A q \in Procs : ver'[q] \in {ver[q], bin[1]}
      BY <1>28, Bounds DEF Kill, TypeOK
    <2> QED
      BY <2>1, <2>2, <2>3, MemoryFades, NothingTouched, Bounds
  <1>29. CASE UNCHANGED vars
    <2>1. UNCHANGED <<installed, latest, pc, ver, target>>
      BY <1>29 DEF vars
    <2> QED
      BY <2>1, NothingTouched
  <1> QED
    BY <1>1, <1>2, <1>3, <1>4, <1>5, <1>6, <1>7, <1>8, <1>9, <1>10, <1>11, <1>12, <1>13, <1>14,
       <1>15, <1>16, <1>17, <1>18, <1>19, <1>20, <1>21, <1>22, <1>23, <1>24, <1>25, <1>26,
       <1>27, <1>28, <1>29
       DEF Next, DaemonStep, RunStep, FaultStep

(* No step tells a daemon of a development build to apply: it stays the build it was started from. *)
LEMMA DevStep ==
    ASSUME TypeOK, DevIsTold, [Next]_vars
    PROVE  DevIsTold'
  <1> USE DEF installed, disk, hooks, procs, bounds, history
  <1>1. CASE Publish
    BY <1>1, Bounds DEF Publish, Goto, TypeOK, DevIsTold, Working, Tags
  <1>2. CASE Reconfigure
    BY <1>2, Bounds DEF Reconfigure, Goto, TypeOK, DevIsTold, Working, Tags
  <1>3. CASE Tick
    BY <1>3, Bounds DEF Tick, Goto, TypeOK, DevIsTold, Working, Tags
  <1>4. CASE Arm
    BY <1>4, Bounds DEF Arm, Fault, Goto, TypeOK, DevIsTold, Working, Tags
  <1>5. CASE Fire
    BY <1>5, Bounds DEF Fire, Goto, TypeOK, DevIsTold, Working, Tags
  <1>6. CASE RunScheduledUpdate
    BY <1>6, Bounds DEF RunScheduledUpdate, Goto, TypeOK, DevIsTold, Working, Tags
  <1>7. CASE StopForRelaunch
    BY <1>7, Bounds DEF StopForRelaunch, Goto, TypeOK, DevIsTold, Working, Tags
  <1>8. CASE LoopAgain
    BY <1>8, Bounds DEF LoopAgain, Fault, Goto, TypeOK, DevIsTold, Working, Tags
  <1>9. CASE Relaunch
    BY <1>9, Bounds DEF Relaunch, Goto, TypeOK, DevIsTold, Working, Tags
  <1>10. CASE RelaunchFailed
    BY <1>10, Bounds DEF RelaunchFailed, Fault, Goto, TypeOK, DevIsTold, Working, Tags
  <1>11. CASE Panic
    BY <1>11, Bounds DEF Panic, Release, Clear, Fault, Goto, TypeOK, DevIsTold, Working, Tags
  <1>12. ASSUME NEW c \in Commands, StartCommand(c) PROVE DevIsTold'
    BY <1>12, Bounds DEF StartCommand, Goto, TypeOK, DevIsTold, Working, Tags
  <1>13. ASSUME NEW p \in Procs, Acquire(p) PROVE DevIsTold'
    BY <1>13, Bounds DEF Acquire, Begun, Goto, TypeOK, DevIsTold, Working, Tags
  <1>14. ASSUME NEW p \in Procs, Busy(p) PROVE DevIsTold'
    BY <1>14, Bounds DEF Busy, Fault, Goto, TypeOK, DevIsTold, Working, Tags
  <1>15. ASSUME NEW p \in Procs, Recover(p) PROVE DevIsTold'
    BY <1>15, Bounds DEF Recover, NextOption, Goto, TypeOK, DevIsTold, Working, Tags
  <1>16. ASSUME NEW p \in Procs, CheckFetch(p) PROVE DevIsTold'
    BY <1>16, Bounds DEF CheckFetch, Goto, TypeOK, DevIsTold, Working, Tags
  <1>17. ASSUME NEW p \in Procs, Load(p) PROVE DevIsTold'
    BY <1>17, Bounds DEF Load, Fault, Goto, TypeOK, DevIsTold, Working, Tags
  <1>18. ASSUME NEW p \in Procs, CheckSave(p) PROVE DevIsTold'
    BY <1>18, Bounds DEF CheckSave, Returned, Clear, Recorded, Goto, TypeOK, DevIsTold, Working, Tags
  <1>19. ASSUME NEW p \in Procs, Fetch(p) PROVE DevIsTold'
    BY <1>19, Bounds DEF Fetch, Goto, TypeOK, DevIsTold, Working, Tags
  <1>20. ASSUME NEW p \in Procs, Install(p) PROVE DevIsTold'
    BY <1>20, Bounds DEF Install, NextOption, Goto, TypeOK, DevIsTold, Working, Tags
  <1>21. ASSUME NEW p \in Procs, DryInstall(p) PROVE DevIsTold'
    BY <1>21, Bounds DEF DryInstall, Goto, TypeOK, DevIsTold, Working, Tags
  <1>22. ASSUME NEW p \in Procs, Commit(p) PROVE DevIsTold'
    BY <1>22, Bounds DEF Commit, Goto, TypeOK, DevIsTold, Working, Tags
  <1>23. ASSUME NEW p \in Procs, Save(p) PROVE DevIsTold'
    BY <1>23, Bounds DEF Save, Returned, Clear, Release, Recorded, Goto, TypeOK, DevIsTold, Working, Tags
  <1>24. ASSUME NEW p \in Procs, ErrSave(p) PROVE DevIsTold'
    BY <1>24, Bounds DEF ErrSave, Failed, Clear, Release, Recorded, Goto, TypeOK, DevIsTold, Working, Tags
  <1>25. ASSUME NEW p \in Procs, ErrSaveFailed(p) PROVE DevIsTold'
    BY <1>25, Bounds DEF ErrSaveFailed, Failed, Clear, Release, Fault, Goto, TypeOK, DevIsTold, Working, Tags
  <1>26. ASSUME NEW p \in Procs, CheckFetchFailed(p) PROVE DevIsTold'
    BY <1>26, Bounds DEF CheckFetchFailed, Fault, Goto, TypeOK, DevIsTold, Working, Tags
  <1>27. ASSUME NEW p \in Procs, StepFailed(p) PROVE DevIsTold'
    BY <1>27, Bounds DEF StepFailed, Failed, Clear, Release, Fault, Goto, TypeOK, DevIsTold, Working, Tags
  <1>28. ASSUME NEW p \in Procs, Kill(p) PROVE DevIsTold'
    BY <1>28, Bounds DEF Kill, Clear, Release, Fault, Goto, TypeOK, DevIsTold, Working, Tags
  <1>29. CASE UNCHANGED vars
    BY <1>29, Bounds DEF vars, TypeOK, DevIsTold, Working, Tags
  <1> QED
    BY <1>1, <1>2, <1>3, <1>4, <1>5, <1>6, <1>7, <1>8, <1>9, <1>10, <1>11, <1>12, <1>13, <1>14,
       <1>15, <1>16, <1>17, <1>18, <1>19, <1>20, <1>21, <1>22, <1>23, <1>24, <1>25, <1>26,
       <1>27, <1>28, <1>29
       DEF Next, DaemonStep, RunStep, FaultStep

(* Steps that read the file at most, and stage or install nothing, keep the applied tags. *)
LEMMA NothingApplied ==
    ASSUME TypeOK, TagsWereInstalled, UNCHANGED ever, state'.applied \in ever,
           \A q \in Procs : held'[q].applied \in ever,
           \A q \in Procs : pc'[q] \in {"saveLoad", "save"} /\ kind'[q] # "dry" /\ Available(q)' # {}
               => /\ pc[q] \in {"saveLoad", "save"} /\ kind[q] # "dry" /\ Available(q) # {}
                  /\ target'[q] = target[q]
    PROVE  TagsWereInstalled'
  BY DEF TagsWereInstalled

(* A state held is one read before, or none. *)
LEMMA HeldFades ==
    ASSUME TypeOK, TagsWereInstalled, NEW p \in Procs, Clear(p) \/ UNCHANGED held
    PROVE  \A q \in Procs : held'[q].applied \in ever
  BY DEF TypeOK, TagsWereInstalled, Clear, NoState

(* A process comes to write an applied tag only from writing one, or from its install. *)
LEMMA SavesFade ==
    ASSUME TypeOK, NEW p \in Procs, NEW label, Goto(p, label), UNCHANGED <<kind, ver>>,
           \/ label \notin {"saveLoad", "save"} /\ (Clear(p) \/ UNCHANGED <<seen, target>>)
           \/ pc[p] \in {"saveLoad", "save"} /\ UNCHANGED <<seen, target>>
    PROVE  \A q \in Procs : pc'[q] \in {"saveLoad", "save"} /\ kind'[q] # "dry" /\ Available(q)' # {}
               => /\ pc[q] \in {"saveLoad", "save"} /\ kind[q] # "dry" /\ Available(q) # {}
                  /\ target'[q] = target[q]
  <1>1. \A q \in Procs \ {p} : pc'[q] = pc[q] /\ seen'[q] = seen[q] /\ target'[q] = target[q]
    BY DEF TypeOK, Goto, Clear
  <1>2. \A q \in Procs \ {p} : Available(q)' = Available(q)
    BY <1>1 DEF Available, Newer
  <1>3. pc'[p] = label
    BY DEF TypeOK, Goto
  <1>4. UNCHANGED seen => Available(p)' = Available(p)
    BY DEF Available, Newer
  <1> QED
    BY <1>1, <1>2, <1>3, <1>4

(* Every step keeps the applied tags, in the file and in memory, among those installed. *)
(* Every step keeps the applied tags, in the file and in memory, among those installed. *)
LEMMA AppliedStep ==
    ASSUME TypeOK, TagsWereInstalled, [Next]_vars
    PROVE  TagsWereInstalled'
  <1> USE DEF installed, disk, hooks, procs, bounds, history
  <1>1. CASE Publish
    BY <1>1, Bounds DEF Publish, Goto, TypeOK, TagsWereInstalled, Available, Newer
  <1>2. CASE Reconfigure
    BY <1>2, Bounds DEF Reconfigure, Goto, TypeOK, TagsWereInstalled, Available, Newer
  <1>3. CASE Tick
    <2>1. state'.applied = state.applied
      <3>1. state \in States
        BY DEF TypeOK
      <3> QED
        BY <1>3, <3>1 DEF Tick, States
    <2>2. \A q \in Procs : held'[q].applied = held[q].applied
      <3>1. \A q \in Procs : held[q] \in States
        BY DEF TypeOK
      <3> QED
        BY <1>3, <3>1 DEF Tick, States
    <2>3. \A q \in Procs : Available(q)' = Available(q)
      BY <1>3 DEF Tick, Available, Newer
    <2>4. UNCHANGED <<pc, kind, target, ever>>
      BY <1>3 DEF Tick
    <2> QED
      BY <2>1, <2>2, <2>3, <2>4 DEF TagsWereInstalled
  <1>4. CASE Arm
    BY <1>4, Bounds DEF Arm, Fault, Goto, TypeOK, TagsWereInstalled, Available, Newer
  <1>5. CASE Fire
    BY <1>5, Bounds DEF Fire, Goto, TypeOK, TagsWereInstalled, Available, Newer
  <1>6. CASE RunScheduledUpdate
    BY <1>6, Bounds DEF RunScheduledUpdate, Goto, TypeOK, TagsWereInstalled, Available, Newer
  <1>7. CASE StopForRelaunch
    BY <1>7, Bounds DEF StopForRelaunch, Goto, TypeOK, TagsWereInstalled, Available, Newer
  <1>8. CASE LoopAgain
    BY <1>8, Bounds DEF LoopAgain, Fault, Goto, TypeOK, TagsWereInstalled, Available, Newer
  <1>9. CASE Relaunch
    BY <1>9, Bounds DEF Relaunch, Goto, TypeOK, TagsWereInstalled, Available, Newer
  <1>10. CASE RelaunchFailed
    BY <1>10, Bounds DEF RelaunchFailed, Fault, Goto, TypeOK, TagsWereInstalled, Available, Newer
  <1>11. CASE Panic
    <2>1. /\ Goto(Daemon, "arm") /\ Clear(Daemon) /\ UNCHANGED <<kind, ver, ever>>
      BY <1>11 DEF Panic
    <2>2. state'.applied \in ever
      BY <1>11 DEF Panic, TagsWereInstalled
    <2> QED
      BY <2>1, <2>2, Bounds, NothingApplied, HeldFades, SavesFade
  <1>12. ASSUME NEW c \in Commands, StartCommand(c) PROVE TagsWereInstalled'
    BY <1>12, Bounds DEF StartCommand, Goto, TypeOK, TagsWereInstalled, Available, Newer
  <1>13. ASSUME NEW p \in Procs, Acquire(p) PROVE TagsWereInstalled'
    <2>1. PICK label : Goto(p, label) /\ label \notin {"saveLoad", "save"}
      BY <1>13 DEF Acquire, Begun
    <2>2. UNCHANGED <<state, kind, ver, seen, target, held, ever>>
      BY <1>13 DEF Acquire
    <2>3. state'.applied \in ever
      BY <2>2 DEF TagsWereInstalled
    <2> QED
      BY <2>1, <2>2, <2>3, NothingApplied, HeldFades, SavesFade
  <1>14. ASSUME NEW p \in Procs, Busy(p) PROVE TagsWereInstalled'
    BY <1>14, Bounds DEF Busy, Fault, Goto, TypeOK, TagsWereInstalled, Available, Newer
  <1>15. ASSUME NEW p \in Procs, Recover(p) PROVE TagsWereInstalled'
    <2>1. PICK label : Goto(p, label) /\ label \notin {"saveLoad", "save"}
      BY <1>15 DEF Recover, NextOption
    <2>2. UNCHANGED <<state, kind, ver, seen, target, held, ever>>
      BY <1>15 DEF Recover
    <2>3. state'.applied \in ever
      BY <2>2 DEF TagsWereInstalled
    <2> QED
      BY <2>1, <2>2, <2>3, NothingApplied, HeldFades, SavesFade
  <1>16. ASSUME NEW p \in Procs, CheckFetch(p) PROVE TagsWereInstalled'
    BY <1>16, Bounds DEF CheckFetch, Goto, TypeOK, TagsWereInstalled, Available, Newer
  <1>17. ASSUME NEW p \in Procs, Load(p) PROVE TagsWereInstalled'
    <2>1. UNCHANGED <<state, kind, ver, seen, target, ever>>
      BY <1>17 DEF Load
    <2>2. held'[p] \in {state, NoState} /\ \A q \in Procs \ {p} : held'[q] = held[q]
      BY <1>17 DEF Load, TypeOK
    <2>3. \A q \in Procs : held'[q].applied \in ever
      BY <2>2 DEF TagsWereInstalled, NoState
    <2>4. PICK label : /\ Goto(p, label) /\ label \in {"checkSave", "save", "errSave"}
                       /\ label = "save" => pc[p] = "saveLoad"
      BY <1>17 DEF Load
    <2>5. \/ label \notin {"saveLoad", "save"}
          \/ pc[p] \in {"saveLoad", "save"}
      BY <2>4
    <2>6. state'.applied \in ever
      BY <2>1 DEF TagsWereInstalled
    <2> QED
      BY <2>1, <2>3, <2>4, <2>5, <2>6, NothingApplied, SavesFade
  <1>18. ASSUME NEW p \in Procs, CheckSave(p) PROVE TagsWereInstalled'
    <2>1. state'.applied = held[p].applied /\ UNCHANGED <<kind, ver, ever>>
      BY <1>18 DEF CheckSave
    <2>2. CASE kind[p] = "check"
      <3>1. Goto(p, Returned(p)) /\ Clear(p)
        BY <1>18, <2>2 DEF CheckSave
      <3>2. Returned(p) \notin {"saveLoad", "save"}
        BY DEF Returned
      <3> QED
        BY <2>1, <3>1, <3>2, NothingApplied, HeldFades, SavesFade DEF TagsWereInstalled
    <2>3. CASE kind[p] # "check"
      <3>1. UNCHANGED <<seen, target, held>>
        BY <1>18, <2>3 DEF CheckSave
      <3>2. \A q \in Procs : Available(q)' = Available(q)
        BY <2>1, <3>1 DEF Available, Newer
      <3>3. \A q \in Procs \ {p} : pc'[q] = pc[q]
        BY <1>18 DEF CheckSave, Goto, TypeOK
      <3>4. pc'[p] = "saveLoad" => Available(p) = {}
        BY <1>18, <2>3 DEF CheckSave, Goto, TypeOK
      <3>5. pc'[p] # "save"
        BY <1>18, <2>3 DEF CheckSave, Goto, TypeOK
      <3> QED
        BY <2>1, <3>1, <3>2, <3>3, <3>4, <3>5 DEF TagsWereInstalled
    <2> QED
      BY <2>2, <2>3
  <1>19. ASSUME NEW p \in Procs, Fetch(p) PROVE TagsWereInstalled'
    BY <1>19, Bounds DEF Fetch, Goto, TypeOK, TagsWereInstalled, Available, Newer
  <1>20. ASSUME NEW p \in Procs, Install(p) PROVE TagsWereInstalled'
    <2>1. PICK label : Goto(p, label) /\ label \notin {"saveLoad", "save"}
      BY <1>20 DEF Install, NextOption
    <2>2. UNCHANGED <<state, kind, ver, seen, target, held, ever>>
      BY <1>20 DEF Install
    <2>3. state'.applied \in ever
      BY <2>2 DEF TagsWereInstalled
    <2> QED
      BY <2>1, <2>2, <2>3, NothingApplied, HeldFades, SavesFade
  <1>21. ASSUME NEW p \in Procs, DryInstall(p) PROVE TagsWereInstalled'
    <2>1. kind[p] = "dry" /\ Goto(p, "saveLoad") /\ UNCHANGED <<state, kind, ver, seen, target, held, ever>>
      BY <1>21 DEF DryInstall
    <2>2. \A q \in Procs : Available(q)' = Available(q)
      BY <2>1 DEF Available, Newer
    <2>3. \A q \in Procs \ {p} : pc'[q] = pc[q]
      BY <2>1 DEF Goto, TypeOK
    <2> QED
      BY <2>1, <2>2, <2>3 DEF TagsWereInstalled
  <1>22. ASSUME NEW p \in Procs, Commit(p) PROVE TagsWereInstalled'
    <2>1. Goto(p, "saveLoad") /\ UNCHANGED <<state, kind, ver, seen, target, held>>
          /\ ever' = ever \cup {target[p]}
      BY <1>22 DEF Commit
    <2>2. \A q \in Procs : Available(q)' = Available(q)
      BY <2>1 DEF Available, Newer
    <2>3. \A q \in Procs \ {p} : pc'[q] = pc[q]
      BY <2>1 DEF Goto, TypeOK
    <2> QED
      BY <2>1, <2>2, <2>3 DEF TagsWereInstalled
  <1>23. ASSUME NEW p \in Procs, Save(p) PROVE TagsWereInstalled'
    <2>1. UNCHANGED <<kind, ver, ever>> /\ pc[p] = "save"
      BY <1>23 DEF Save
    <2>2. state'.applied \in ever
      <3>1. Status(p) = "applied" => target[p] \in ever
        BY <2>1 DEF Status, TagsWereInstalled
      <3>2. state'.applied = IF Status(p) = "applied" THEN target[p] ELSE held[p].applied
        BY <1>23 DEF Save
      <3> QED
        BY <3>1, <3>2 DEF TagsWereInstalled
    <2>3. CASE Goto(p, "saveLoad") /\ UNCHANGED <<seen, target, held>>
      BY <2>1, <2>2, <2>3, NothingApplied, HeldFades, SavesFade
    <2>4. CASE Goto(p, Returned(p)) /\ Clear(p)
      <3>1. Returned(p) \notin {"saveLoad", "save"}
        BY DEF Returned
      <3> QED
        BY <2>1, <2>2, <2>4, <3>1, NothingApplied, HeldFades, SavesFade
    <2> QED
      BY <1>23, <2>3, <2>4 DEF Save
  <1>24. ASSUME NEW p \in Procs, ErrSave(p) PROVE TagsWereInstalled'
    <2>1. PICK label : /\ Goto(p, label) /\ UNCHANGED <<kind, ver, ever>>
                       /\ label \notin {"saveLoad", "save"} /\ (Clear(p) \/ UNCHANGED <<seen, target, held>>)
      BY <1>24 DEF ErrSave, Failed
    <2>2. state'.applied = held[p].applied
      <3>1. held[p] \in States
        BY DEF TypeOK
      <3> QED
        BY <1>24, <3>1 DEF ErrSave, States
    <2> QED
      BY <2>1, <2>2, NothingApplied, HeldFades, SavesFade DEF TagsWereInstalled
  <1>25. ASSUME NEW p \in Procs, ErrSaveFailed(p) PROVE TagsWereInstalled'
    <2>1. PICK label : /\ Goto(p, label) /\ UNCHANGED <<kind, ver, ever>>
                       /\ label \notin {"saveLoad", "save"} /\ (Clear(p) \/ UNCHANGED <<seen, target, held>>)
      BY <1>25 DEF ErrSaveFailed, Failed
    <2>2. state'.applied \in ever
      BY <1>25 DEF ErrSaveFailed, TagsWereInstalled
    <2> QED
      BY <2>1, <2>2, NothingApplied, HeldFades, SavesFade
  <1>26. ASSUME NEW p \in Procs, CheckFetchFailed(p) PROVE TagsWereInstalled'
    BY <1>26, Bounds DEF CheckFetchFailed, Fault, Goto, TypeOK, TagsWereInstalled, Available, Newer
  <1>27. ASSUME NEW p \in Procs, StepFailed(p) PROVE TagsWereInstalled'
    <2>1. PICK label : /\ Goto(p, label) /\ UNCHANGED <<kind, ver, ever>>
                       /\ label \notin {"saveLoad", "save"} /\ (Clear(p) \/ UNCHANGED <<seen, target, held>>)
      BY <1>27 DEF StepFailed, Failed
    <2>2. state'.applied \in ever
      BY <1>27 DEF StepFailed, TagsWereInstalled
    <2> QED
      BY <2>1, <2>2, NothingApplied, HeldFades, SavesFade
  <1>28. ASSUME NEW p \in Procs, Kill(p) PROVE TagsWereInstalled'
    <2>1. PICK label : /\ Goto(p, label) /\ UNCHANGED <<kind, ver, ever>>
                       /\ label \notin {"saveLoad", "save"} /\ (Clear(p) \/ UNCHANGED <<seen, target, held>>)
      BY <1>28 DEF Kill
    <2>2. state'.applied \in ever
      BY <1>28 DEF Kill, TagsWereInstalled
    <2> QED
      BY <2>1, <2>2, NothingApplied, HeldFades, SavesFade
  <1>29. CASE UNCHANGED vars
    BY <1>29, Bounds DEF vars, TypeOK, TagsWereInstalled, Available, Newer
  <1> QED
    BY <1>1, <1>2, <1>3, <1>4, <1>5, <1>6, <1>7, <1>8, <1>9, <1>10, <1>11, <1>12, <1>13, <1>14,
       <1>15, <1>16, <1>17, <1>18, <1>19, <1>20, <1>21, <1>22, <1>23, <1>24, <1>25, <1>26,
       <1>27, <1>28, <1>29
       DEF Next, DaemonStep, RunStep, FaultStep

(* The clocks are natural numbers. *)
LEMMA ClockTypes ==
    ASSUME TypeOK
    PROVE  /\ state.next \in Nat /\ timer \in Nat /\ since \in Nat
           /\ since <= Interval /\ Interval \in Nat
  <1>1. state \in States /\ timer \in 0..Longest /\ since \in 0..Interval
    BY DEF TypeOK
  <1>2. state.next \in 0..Interval
    BY <1>1 DEF States
  <1> QED
    BY <1>1, <1>2, Bounds

(* A run that records itself puts the file's next check an interval ahead. *)
LEMMA RecordIsPaced ==
    ASSUME TypeOK, NextIsPaced, NEW p \in Procs, NEW label, Goto(p, label), Recorded(p),
           label \notin {"wait", "gate"}, state'.next = Interval, UNCHANGED <<timer, blind>>
    PROVE  NextIsPaced'
  <1>1. since' \in {0, since} /\ (p # Daemon => since' = since)
    BY DEF Recorded
  <1>2. since' \in Nat
    BY <1>1, ClockTypes
  <1>3. state'.next + since' >= Interval
    BY <1>2, ClockTypes
  <1>4. pc'[Daemon] \in {"wait", "gate"} => pc'[Daemon] = pc[Daemon] /\ p # Daemon
    BY Bounds DEF Goto, TypeOK
  <1> QED
    BY <1>1, <1>3, <1>4 DEF NextIsPaced, Pace

(* While the scheduler is enabled, no step brings the next run closer than an interval after the last, *)
(* or than the initial delay if the file could not be read.                                           *)
LEMMA PacedStep ==
    ASSUME pc[Daemon] = "arm" => enabled, TypeOK, NextIsPaced, [Next]_vars
    PROVE  NextIsPaced'
  <1> USE DEF installed, disk, hooks, procs, bounds, history
  <1>1. CASE Publish
    BY <1>1, Bounds DEF Publish, Goto, TypeOK, NextIsPaced, Pace
  <1>2. CASE Reconfigure
    BY <1>2, Bounds DEF Reconfigure, Goto, TypeOK, NextIsPaced, Pace
  <1>3. CASE Tick
    <2>0. UNCHANGED blind /\ ShortDelay \in Nat /\ ShortDelay <= Interval
      BY <1>3, Bounds DEF Tick, ShortDelay
    <2>1. state.next \in Nat /\ since \in Nat /\ since <= Interval /\ timer \in Nat
      BY ClockTypes
    <2>2. state'.next = Less(state.next) /\ timer' = Less(timer) /\ UNCHANGED pc
      BY <1>3 DEF Tick, TypeOK, States
    <2>3. since' = IF since < Interval THEN since + 1 ELSE since
      BY <1>3 DEF Tick
    <2>4. state'.next + since' >= Interval
      BY <2>1, <2>2, <2>3, Bounds DEF NextIsPaced, Less
    <2>5. Pace \in Nat /\ Pace <= Interval /\ Pace' = Pace
      BY <2>0, Bounds DEF Pace
    <2>6. pc[Daemon] = "wait" => timer' + since' >= Pace
      <3>1. timer + since >= Pace => timer' + since' >= Pace
        BY <2>1, <2>2, <2>3, <2>5, Bounds DEF Less
      <3> QED
        BY <3>1 DEF NextIsPaced
    <2>7. pc[Daemon] = "gate" => since' >= Pace
      <3>1. since >= Pace => since' >= Pace
        BY <2>1, <2>3, <2>5, Bounds
      <3> QED
        BY <3>1 DEF NextIsPaced
    <2> QED
      BY <2>2, <2>4, <2>5, <2>6, <2>7 DEF NextIsPaced
  <1>4. CASE Arm
    <2>1. state.next \in Nat /\ since \in Nat
      BY ClockTypes
    <2>2. pc'[Daemon] = "wait" /\ UNCHANGED <<state, since>>
      BY <1>4, Bounds DEF Arm, Goto, TypeOK
    <2>3. enabled
      BY <1>4 DEF Arm
    <2>4. \/ timer' = (IF state.next > 0 THEN state.next ELSE ShortDelay) /\ blind' = FALSE
          \/ timer' = ShortDelay /\ blind' = TRUE
      BY <1>4, <2>3 DEF Arm
    <2>5. timer' + since >= Pace'
      BY <2>1, <2>4, Bounds DEF NextIsPaced, ShortDelay, Pace
    <2> QED
      BY <2>2, <2>5 DEF NextIsPaced
  <1>5. CASE Fire
    <2>1. pc'[Daemon] = "gate" /\ UNCHANGED <<state, since, blind>> /\ timer = 0 /\ pc[Daemon] = "wait"
      BY <1>5, Bounds DEF Fire, Goto, TypeOK
    <2>2. since \in Nat /\ Pace \in Nat /\ Pace' = Pace
      BY <2>1, ClockTypes DEF Pace, ShortDelay
    <2>3. since >= Pace
      BY <2>1, <2>2 DEF NextIsPaced
    <2> QED
      BY <2>1, <2>2, <2>3 DEF NextIsPaced
  <1>6. CASE RunScheduledUpdate
    BY <1>6, Bounds DEF RunScheduledUpdate, Goto, TypeOK, NextIsPaced, Pace
  <1>7. CASE StopForRelaunch
    BY <1>7, Bounds DEF StopForRelaunch, Goto, TypeOK, NextIsPaced, Pace
  <1>8. CASE LoopAgain
    BY <1>8, Bounds DEF LoopAgain, Fault, Goto, TypeOK, NextIsPaced, Pace
  <1>9. CASE Relaunch
    BY <1>9, Bounds DEF Relaunch, Goto, TypeOK, NextIsPaced, Pace
  <1>10. CASE RelaunchFailed
    BY <1>10, Bounds DEF RelaunchFailed, Fault, Goto, TypeOK, NextIsPaced, Pace
  <1>11. CASE Panic
    BY <1>11, Bounds DEF Panic, Release, Clear, Fault, Working, Goto, TypeOK, NextIsPaced, Pace
  <1>12. ASSUME NEW c \in Commands, StartCommand(c) PROVE NextIsPaced'
    BY <1>12, Bounds DEF StartCommand, Goto, TypeOK, NextIsPaced, Pace
  <1>13. ASSUME NEW p \in Procs, Acquire(p) PROVE NextIsPaced'
    BY <1>13, Bounds DEF Acquire, Begun, Goto, TypeOK, NextIsPaced, Pace
  <1>14. ASSUME NEW p \in Procs, Busy(p) PROVE NextIsPaced'
    BY <1>14, Bounds DEF Busy, Fault, Goto, TypeOK, NextIsPaced, Pace
  <1>15. ASSUME NEW p \in Procs, Recover(p) PROVE NextIsPaced'
    <2>1. \E label : Goto(p, label) /\ label \notin {"wait", "gate"}
      BY <1>15 DEF Recover, Install, NextOption
    <2>2. UNCHANGED <<state, timer, since, blind>>
      BY <1>15 DEF Recover, Install
    <2>3. pc'[Daemon] \in {"wait", "gate"} => pc'[Daemon] = pc[Daemon]
      BY <2>1, Bounds DEF Goto, TypeOK
    <2> QED
      BY <2>2, <2>3 DEF NextIsPaced, Pace
  <1>16. ASSUME NEW p \in Procs, CheckFetch(p) PROVE NextIsPaced'
    BY <1>16, Bounds DEF CheckFetch, Goto, TypeOK, NextIsPaced, Pace
  <1>17. ASSUME NEW p \in Procs, Load(p) PROVE NextIsPaced'
    BY <1>17, Bounds DEF Load, Fault, Goto, TypeOK, NextIsPaced, Pace
  <1>18. ASSUME NEW p \in Procs, CheckSave(p) PROVE NextIsPaced'
    <2>1. PICK label : Goto(p, label) /\ label \notin {"wait", "gate"}
      BY <1>18 DEF CheckSave, Returned
    <2>2. state'.next = Interval
      BY <1>18 DEF CheckSave
    <2>3. Recorded(p) /\ UNCHANGED <<timer, blind>>
      BY <1>18 DEF CheckSave
    <2> QED
      BY <2>1, <2>2, <2>3, RecordIsPaced
  <1>19. ASSUME NEW p \in Procs, Fetch(p) PROVE NextIsPaced'
    BY <1>19, Bounds DEF Fetch, Goto, TypeOK, NextIsPaced, Pace
  <1>20. ASSUME NEW p \in Procs, Install(p) PROVE NextIsPaced'
    <2>1. \E label : Goto(p, label) /\ label \notin {"wait", "gate"}
      BY <1>20 DEF Recover, Install, NextOption
    <2>2. UNCHANGED <<state, timer, since, blind>>
      BY <1>20 DEF Recover, Install
    <2>3. pc'[Daemon] \in {"wait", "gate"} => pc'[Daemon] = pc[Daemon]
      BY <2>1, Bounds DEF Goto, TypeOK
    <2> QED
      BY <2>2, <2>3 DEF NextIsPaced, Pace
  <1>21. ASSUME NEW p \in Procs, DryInstall(p) PROVE NextIsPaced'
    BY <1>21, Bounds DEF DryInstall, Goto, TypeOK, NextIsPaced, Pace
  <1>22. ASSUME NEW p \in Procs, Commit(p) PROVE NextIsPaced'
    BY <1>22, Bounds DEF Commit, Goto, TypeOK, NextIsPaced, Pace
  <1>23. ASSUME NEW p \in Procs, Save(p) PROVE NextIsPaced'
    <2>1. PICK label : Goto(p, label) /\ label \notin {"wait", "gate"}
      BY <1>23 DEF Save, Returned
    <2>2. state'.next = Interval
      BY <1>23 DEF Save
    <2>3. Recorded(p) /\ UNCHANGED <<timer, blind>>
      BY <1>23 DEF Save
    <2> QED
      BY <2>1, <2>2, <2>3, RecordIsPaced
  <1>24. ASSUME NEW p \in Procs, ErrSave(p) PROVE NextIsPaced'
    <2>1. PICK label : Goto(p, label) /\ label \notin {"wait", "gate"}
      BY <1>24 DEF ErrSave, Failed
    <2>2. state'.next = Interval
      <3>1. held[p] \in States
        BY DEF TypeOK
      <3> QED
        BY <1>24, <3>1 DEF ErrSave, States
    <2>3. Recorded(p) /\ UNCHANGED <<timer, blind>>
      BY <1>24 DEF ErrSave
    <2> QED
      BY <2>1, <2>2, <2>3, RecordIsPaced
  <1>25. ASSUME NEW p \in Procs, ErrSaveFailed(p) PROVE NextIsPaced'
    BY <1>25, Bounds DEF ErrSaveFailed, Failed, Clear, Release, Fault, Goto, TypeOK, NextIsPaced, Pace
  <1>26. ASSUME NEW p \in Procs, CheckFetchFailed(p) PROVE NextIsPaced'
    BY <1>26, Bounds DEF CheckFetchFailed, Fault, Goto, TypeOK, NextIsPaced, Pace
  <1>27. ASSUME NEW p \in Procs, StepFailed(p) PROVE NextIsPaced'
    BY <1>27, Bounds DEF StepFailed, Failed, Clear, Release, Fault, Goto, TypeOK, NextIsPaced, Pace
  <1>28. ASSUME NEW p \in Procs, Kill(p) PROVE NextIsPaced'
    BY <1>28, Bounds DEF Kill, Clear, Release, Fault, Goto, TypeOK, NextIsPaced, Pace
  <1>29. CASE UNCHANGED vars
    BY <1>29, Bounds DEF vars, TypeOK, NextIsPaced, Pace
  <1> QED
    BY <1>1, <1>2, <1>3, <1>4, <1>5, <1>6, <1>7, <1>8, <1>9, <1>10, <1>11, <1>12, <1>13, <1>14,
       <1>15, <1>16, <1>17, <1>18, <1>19, <1>20, <1>21, <1>22, <1>23, <1>24, <1>25, <1>26,
       <1>27, <1>28, <1>29
       DEF Next, DaemonStep, RunStep, FaultStep

(* While the scheduler is enabled, no run ends at the loop with an applied update it did not record. *)
LEMMA WarrantStep ==
    ASSUME pc[Daemon] = "gate" => enabled /\ mode # "other", TypeOK, AppliedIsWarranted, [Next]_vars
    PROVE  AppliedIsWarranted'
  <1> USE DEF installed, disk, hooks, procs, bounds, history
  <1>1. CASE Publish
    BY <1>1, Bounds DEF Publish, Goto, TypeOK, AppliedIsWarranted
  <1>2. CASE Reconfigure
    BY <1>2, Bounds DEF Reconfigure, Goto, TypeOK, AppliedIsWarranted
  <1>3. CASE Tick
    BY <1>3, Bounds DEF Tick, Goto, TypeOK, AppliedIsWarranted
  <1>4. CASE Arm
    BY <1>4, Bounds DEF Arm, Fault, Goto, TypeOK, AppliedIsWarranted
  <1>5. CASE Fire
    BY <1>5, Bounds DEF Fire, Goto, TypeOK, AppliedIsWarranted
  <1>6. CASE RunScheduledUpdate
    BY <1>6, Bounds DEF RunScheduledUpdate, Goto, TypeOK, AppliedIsWarranted
  <1>7. CASE StopForRelaunch
    BY <1>7, Bounds DEF StopForRelaunch, Goto, TypeOK, AppliedIsWarranted
  <1>8. CASE LoopAgain
    BY <1>8, Bounds DEF LoopAgain, Fault, Goto, TypeOK, AppliedIsWarranted
  <1>9. CASE Relaunch
    BY <1>9, Bounds DEF Relaunch, Goto, TypeOK, AppliedIsWarranted
  <1>10. CASE RelaunchFailed
    BY <1>10, Bounds DEF RelaunchFailed, Fault, Goto, TypeOK, AppliedIsWarranted
  <1>11. CASE Panic
    BY <1>11, Bounds DEF Panic, Release, Clear, Fault, Working, Goto, TypeOK, AppliedIsWarranted
  <1>12. ASSUME NEW c \in Commands, StartCommand(c) PROVE AppliedIsWarranted'
    BY <1>12, Bounds DEF StartCommand, Goto, TypeOK, AppliedIsWarranted
  <1>13. ASSUME NEW p \in Procs, Acquire(p) PROVE AppliedIsWarranted'
    BY <1>13, Bounds DEF Acquire, Begun, Goto, TypeOK, AppliedIsWarranted
  <1>14. ASSUME NEW p \in Procs, Busy(p) PROVE AppliedIsWarranted'
    BY <1>14, Bounds DEF Busy, Fault, Goto, TypeOK, AppliedIsWarranted
  <1>15. ASSUME NEW p \in Procs, Recover(p) PROVE AppliedIsWarranted'
    BY <1>15, Bounds DEF Recover, NextOption, Goto, TypeOK, AppliedIsWarranted
  <1>16. ASSUME NEW p \in Procs, CheckFetch(p) PROVE AppliedIsWarranted'
    BY <1>16, Bounds DEF CheckFetch, Goto, TypeOK, AppliedIsWarranted
  <1>17. ASSUME NEW p \in Procs, Load(p) PROVE AppliedIsWarranted'
    BY <1>17, Bounds DEF Load, Fault, Goto, TypeOK, AppliedIsWarranted
  <1>18. ASSUME NEW p \in Procs, CheckSave(p) PROVE AppliedIsWarranted'
    BY <1>18, Bounds DEF CheckSave, Returned, Clear, Recorded, Goto, TypeOK, AppliedIsWarranted
  <1>19. ASSUME NEW p \in Procs, Fetch(p) PROVE AppliedIsWarranted'
    BY <1>19, Bounds DEF Fetch, Goto, TypeOK, AppliedIsWarranted
  <1>20. ASSUME NEW p \in Procs, Install(p) PROVE AppliedIsWarranted'
    BY <1>20, Bounds DEF Install, NextOption, Goto, TypeOK, AppliedIsWarranted
  <1>21. ASSUME NEW p \in Procs, DryInstall(p) PROVE AppliedIsWarranted'
    BY <1>21, Bounds DEF DryInstall, Goto, TypeOK, AppliedIsWarranted
  <1>22. ASSUME NEW p \in Procs, Commit(p) PROVE AppliedIsWarranted'
    BY <1>22, Bounds DEF Commit, Goto, TypeOK, AppliedIsWarranted
  <1>23. ASSUME NEW p \in Procs, Save(p) PROVE AppliedIsWarranted'
    BY <1>23, Bounds DEF Save, Returned, Clear, Release, Recorded, Goto, TypeOK, AppliedIsWarranted
  <1>24. ASSUME NEW p \in Procs, ErrSave(p) PROVE AppliedIsWarranted'
    BY <1>24, Bounds DEF ErrSave, Failed, Clear, Release, Recorded, Goto, TypeOK, AppliedIsWarranted
  <1>25. ASSUME NEW p \in Procs, ErrSaveFailed(p) PROVE AppliedIsWarranted'
    BY <1>25, Bounds DEF ErrSaveFailed, Failed, Clear, Release, Fault, Goto, TypeOK, AppliedIsWarranted
  <1>26. ASSUME NEW p \in Procs, CheckFetchFailed(p) PROVE AppliedIsWarranted'
    BY <1>26, Bounds DEF CheckFetchFailed, Fault, Goto, TypeOK, AppliedIsWarranted
  <1>27. ASSUME NEW p \in Procs, StepFailed(p) PROVE AppliedIsWarranted'
    BY <1>27, Bounds DEF StepFailed, Failed, Clear, Release, Fault, Goto, TypeOK, AppliedIsWarranted
  <1>28. ASSUME NEW p \in Procs, Kill(p) PROVE AppliedIsWarranted'
    BY <1>28, Bounds DEF Kill, Clear, Release, Fault, Goto, TypeOK, AppliedIsWarranted
  <1>29. CASE UNCHANGED vars
    BY <1>29, Bounds DEF vars, TypeOK, AppliedIsWarranted
  <1> QED
    BY <1>1, <1>2, <1>3, <1>4, <1>5, <1>6, <1>7, <1>8, <1>9, <1>10, <1>11, <1>12, <1>13, <1>14,
       <1>15, <1>16, <1>17, <1>18, <1>19, <1>20, <1>21, <1>22, <1>23, <1>24, <1>25, <1>26,
       <1>27, <1>28, <1>29
       DEF Next, DaemonStep, RunStep, FaultStep

-----------------------------------------------------------------------------
(* The parts of the invariants hold at first. *)
LEMMA InitialFacts ==
    Init => /\ UpdatesAreLocked /\ FirstOptionFirst /\ BackupsOK /\ TagsGrow /\ DevIsTold
            /\ TagsWereInstalled /\ NextIsPaced /\ AppliedIsWarranted
  <1> SUFFICES ASSUME Init
               PROVE  /\ UpdatesAreLocked /\ FirstOptionFirst /\ BackupsOK /\ TagsGrow /\ DevIsTold
                      /\ TagsWereInstalled /\ NextIsPaced /\ AppliedIsWarranted
    OBVIOUS
  <1>1. \A p \in Procs : pc[p] \in {"arm", "idle"}
    BY DEF Init
  <1>2. UpdatesAreLocked
    BY <1>1, Bounds DEF Init, UpdatesAreLocked, Checking, Updating
  <1>3. FirstOptionFirst
    BY DEF Init, FirstOptionFirst
  <1>4. BackupsOK
    BY <1>1 DEF BackupsOK, BackupsOf, Installing, Checking
  <1>5. TagsGrow
    <2>1. \A b \in Binaries : bin[b] = 0 /\ Kept[b] = 0
      BY DEF Init, Kept, Effective
    <2> QED
      BY <1>1, <2>1, Bounds DEF Init, TagsGrow
  <1>6. DevIsTold
    BY Bounds DEF Init, DevIsTold
  <1>7. TagsWereInstalled
    BY <1>1, Bounds DEF Init, TagsWereInstalled, NoState
  <1>8. NextIsPaced
    BY <1>1, Bounds DEF Init, NextIsPaced, NoState
  <1>9. AppliedIsWarranted
    BY Bounds DEF Init, AppliedIsWarranted, NoState
  <1> QED
    BY <1>2, <1>3, <1>4, <1>5, <1>6, <1>7, <1>8, <1>9

(* What is invariant whatever the switches: the types, the lock, the backups and the tags. *)
SafetyInv ==
    /\ TypeOK /\ UpdatesAreLocked /\ FirstOptionFirst /\ BackupsOK /\ TagsGrow /\ DevIsTold
    /\ TagsWereInstalled

(* The inductive invariant holds throughout. *)
LEMMA SafetyInvariant == Spec => []SafetyInv
  <1>1. TypeOK /\ UpdatesAreLocked /\ [Next]_vars => UpdatesAreLocked'
    BY LockedStep
  <1>2. TypeOK /\ FirstOptionFirst /\ [Next]_vars => FirstOptionFirst'
    BY FirstStep
  <1>3. TypeOK /\ UpdatesAreLocked /\ FirstOptionFirst /\ BackupsOK /\ [Next]_vars => BackupsOK'
    BY BackupsStep
  <1>4. TypeOK /\ TypeOK' /\ UpdatesAreLocked /\ BackupsOK /\ TagsGrow /\ [Next]_vars => TagsGrow'
    BY GrowStep
  <1>5. TypeOK /\ DevIsTold /\ [Next]_vars => DevIsTold'
    BY DevStep
  <1>6. TypeOK /\ TagsWereInstalled /\ [Next]_vars => TagsWereInstalled'
    BY AppliedStep
  <1> QED
    BY <1>1, <1>2, <1>3, <1>4, <1>5, <1>6, InitialFacts, TypeCorrect, PTL DEF Spec, SafetyInv

(* The state file never names an applied tag whose install was not committed, whatever reads,    *)
(* writes, failures and deaths of however many processes come in between (saveApplySetState,     *)
(* Check).                                                                                       *)
THEOREM AppliedIsInstalled == Spec => []AppliedWasInstalled
  <1>1. SafetyInv => AppliedWasInstalled
    BY DEF SafetyInv, TagsWereInstalled, AppliedWasInstalled
  <1> QED
    BY <1>1, SafetyInvariant, PTL

(* A daemon that runs a development build is never past the fallback to Check of                 *)
(* runScheduledUpdate: it holds no lock, so it is at no update.                                  *)
THEOREM DevChecksOnly == Spec => []DevDaemonOnlyChecks
  <1>1. SafetyInv => DevDaemonOnlyChecks
    <2>1. SUFFICES ASSUME SafetyInv, DevVersion, ver[Daemon] = 0
                   PROVE  lock # Daemon /\ (Working(Daemon) => kind[Daemon] = "check")
      BY DEF DevDaemonOnlyChecks
    <2>2. Working(Daemon) => kind[Daemon] = "check"
      BY <2>1 DEF SafetyInv, DevIsTold
    <2>3. lock = Daemon => Working(Daemon) /\ kind[Daemon] # "check"
      BY <2>1, Bounds DEF SafetyInv, UpdatesAreLocked, Working, Checking, Updating
    <2> QED
      BY <2>2, <2>3
  <1> QED
    BY <1>1, SafetyInvariant, PTL

(* While releases only move forward, no step of any process takes a binary back behind a          *)
(* committed install: not an update, whose tag is looked up again under the lock, nor a failure,  *)
(* a death, or the recovery that undoes what was not committed (ApplyAll).                        *)
THEOREM NoDowngrade == Spec => NeverDowngrades
  <1>1. ASSUME SafetyInv, [Next]_vars
        PROVE  [\A b \in Binaries : Effective(b)' >= Effective(b)]_vars
    <2>1. \A b \in Binaries : Kept[b] = Effective(b) /\ Kept'[b] = Effective(b)'
      BY DEF Kept
    <2>2. CASE UNCHANGED Kept
      <3>1. \A b \in Binaries : Kept'[b] >= Kept[b]
        BY <1>1, <2>2, TagTypes DEF SafetyInv
      <3> QED
        BY <2>1, <3>1
    <2>3. ASSUME NEW p \in Procs, Commit(p), kind[p] = "apply"
          PROVE  \A b \in Binaries : Effective(b)' >= Effective(b)
      <3>1. Kept' = [b \in Binaries |-> IF b \in Available(p) THEN target[p] ELSE Kept[b]]
        BY <1>1, <2>3, KeptAtCommit DEF SafetyInv
      <3>2. \A b \in Binaries : Kept[b] <= target[p]
        BY <1>1, <2>3 DEF Commit, SafetyInv, TagsGrow
      <3>3. target[p] \in Nat /\ \A b \in Binaries : Kept[b] \in Nat
        BY <1>1, TagTypes DEF SafetyInv
      <3>4. \A b \in Binaries : Kept'[b] >= Kept[b]
        BY <3>1, <3>2, <3>3
      <3> QED
        BY <2>1, <3>4
    <2> QED
      BY <1>1, <2>2, <2>3, KeptStep DEF SafetyInv
  <1> QED
    BY <1>1, SafetyInvariant, PTL DEF Spec, NeverDowngrades

(* Unless it is switched off when the timer is set, the daemon begins a run only when an interval *)
(* has passed since it last recorded one, across relaunches, deaths and the writes of every other *)
(* process, or the initial delay where it set its timer without the file, which could not be read *)
(* (nextUpdateDelay, NextCheckAt).                                                                *)
THEOREM RunsArePaced == Spec /\ [](pc[Daemon] = "arm" => enabled) => PacedRuns
  <1>1. TypeOK /\ NextIsPaced /\ (pc[Daemon] = "arm" => enabled) /\ [Next]_vars => NextIsPaced'
    BY PacedStep
  <1>2. NextIsPaced => [pc[Daemon] = "gate" /\ pc'[Daemon] \in {"check", "lock"}
                          => since >= IF blind THEN ShortDelay ELSE Interval]_vars
    BY DEF NextIsPaced, Pace
  <1> QED
    BY <1>1, <1>2, InitialFacts, TypeCorrect, PTL DEF Spec, PacedRuns

(* Unless it is switched off, or told of no known mode, when its timer fires, the daemon leaves   *)
(* for a relaunch only after an update recorded since it was started (runSchedulerLoop's          *)
(* LastResult).                                                                                   *)
THEOREM RelaunchesAreWarranted ==
    Spec /\ [](pc[Daemon] = "gate" => enabled /\ mode # "other") => RelaunchIsWarranted
  <1>1. TypeOK /\ AppliedIsWarranted /\ (pc[Daemon] = "gate" => enabled /\ mode # "other") /\ [Next]_vars
            => AppliedIsWarranted'
    BY WarrantStep
  <1>2. ASSUME TypeOK, AppliedIsWarranted, [Next]_vars
        PROVE  [pc[Daemon] = "reload" /\ pc'[Daemon] = "down" /\ faults' = faults => warrant]_vars
    <2>1. SUFFICES ASSUME pc[Daemon] = "reload", pc'[Daemon] = "down", faults' = faults, state.result # "applied"
                   PROVE  FALSE
      BY <1>2 DEF AppliedIsWarranted
    <2>2. faults \in Nat
      BY <1>2, Bounds DEF TypeOK
    <2>3. ~Fault
      BY <2>1, <2>2 DEF Fault
    <2>4. ASSUME NEW p \in Procs, RunStep(p) PROVE FALSE
      <3>1. PICK label : Goto(p, label) /\ pc[p] # "reload"
        BY <2>4 DEF RunStep, Acquire, Busy, CheckFetch, Load, CheckSave, Recover, Fetch, Install, DryInstall, Commit,
             NextOption, Save, ErrSave
      <3> QED
        BY <1>2, <2>1, <3>1 DEF Goto, TypeOK
    <2>5. ASSUME NEW c \in Commands, StartCommand(c) PROVE FALSE
      <3>1. PICK label : Goto(c, label)
        BY <2>5 DEF StartCommand
      <3> QED
        BY <1>2, <2>1, <3>1, Bounds DEF Goto, TypeOK
    <2>6. CASE DaemonStep
      <3>1. pc[Daemon] = "reload" /\ state.result # "applied" => LoopAgain
        BY <2>1, <2>6 DEF DaemonStep, Arm, Fire, RunScheduledUpdate, StopForRelaunch, Relaunch
      <3> QED
        BY <1>2, <2>1, <3>1, Bounds DEF LoopAgain, Goto, TypeOK
    <2>7. UNCHANGED pc \/ DaemonStep \/ RelaunchFailed \/ Panic \/ (\E c \in Commands : StartCommand(c))
          \/ (\E p \in Procs : RunStep(p) \/ FaultStep(p))
      BY <1>2 DEF Next, Publish, Reconfigure, Tick, vars, procs
    <2>8. Panic \/ RelaunchFailed \/ (\E p \in Procs : FaultStep(p)) => Fault
      BY DEF Panic, RelaunchFailed, FaultStep, CheckFetchFailed, StepFailed, ErrSaveFailed, Kill
    <2> QED
      BY <2>1, <2>3, <2>4, <2>5, <2>6, <2>7, <2>8
  <1> QED
    BY <1>1, <1>2, InitialFacts, TypeCorrect, PTL DEF Spec, RelaunchIsWarranted
-----------------------------------------------------------------------------
(* An update at its look-up or its install goes on as it was, whatever another process does. *)
UpdateStays(q) == pc'[q] \in {"fetch", "install", "commit"} =>
    /\ pc'[q] = pc[q] /\ kind'[q] = kind[q] /\ ver'[q] = ver[q]
    /\ seen'[q] = seen[q] /\ target'[q] = target[q]

(* A process that moves on to something else leaves the updates of the others alone. *)
LEMMA MovesOn ==
    ASSUME TypeOK, NEW p \in Procs, NEW label, Goto(p, label), label \notin {"fetch", "install", "commit"},
           \A q \in Procs \ {p} : /\ kind'[q] = kind[q] /\ ver'[q] = ver[q]
                                  /\ seen'[q] = seen[q] /\ target'[q] = target[q]
    PROVE  \A q \in Procs : UpdateStays(q)
  BY DEF TypeOK, Goto, UpdateStays

(* No step but its own look-up and its install takes an update further. *)
LEMMA UpdatesStay ==
    ASSUME TypeOK, [Next]_vars
    PROVE  \/ \E p \in Procs : Fetch(p) \/ Install(p) \/ CheckSave(p)
           \/ \A q \in Procs : UpdateStays(q)
  <1> DEFINE Stay == \A q \in Procs : UpdateStays(q)
  <1> USE DEF disk, hooks, procs, bounds, history
  <1>1. CASE Publish
    BY <1>1 DEF Publish, UpdateStays
  <1>2. CASE Reconfigure
    BY <1>2 DEF Reconfigure, UpdateStays
  <1>3. CASE Tick
    BY <1>3 DEF Tick, UpdateStays
  <1>4. CASE Arm
    <2>1. \E label : Goto(Daemon, label) /\ label \notin {"fetch", "install", "commit"}
      BY <1>4 DEF Arm
    <2>2. \A q \in Procs \ {Daemon} : /\ kind'[q] = kind[q] /\ ver'[q] = ver[q]
                                   /\ seen'[q] = seen[q] /\ target'[q] = target[q]
      BY <1>4 DEF Arm, TypeOK
    <2> QED
      BY <2>1, <2>2, MovesOn, Bounds
  <1>5. CASE Fire
    <2>1. \E label : Goto(Daemon, label) /\ label \notin {"fetch", "install", "commit"}
      BY <1>5 DEF Fire
    <2>2. \A q \in Procs \ {Daemon} : /\ kind'[q] = kind[q] /\ ver'[q] = ver[q]
                                   /\ seen'[q] = seen[q] /\ target'[q] = target[q]
      BY <1>5 DEF Fire, TypeOK
    <2> QED
      BY <2>1, <2>2, MovesOn, Bounds
  <1>6. CASE RunScheduledUpdate
    <2>1. \E label : Goto(Daemon, label) /\ label \notin {"fetch", "install", "commit"}
      BY <1>6 DEF RunScheduledUpdate
    <2>2. \A q \in Procs \ {Daemon} : /\ kind'[q] = kind[q] /\ ver'[q] = ver[q]
                                   /\ seen'[q] = seen[q] /\ target'[q] = target[q]
      BY <1>6 DEF RunScheduledUpdate, TypeOK
    <2> QED
      BY <2>1, <2>2, MovesOn, Bounds
  <1>7. CASE StopForRelaunch
    <2>1. \E label : Goto(Daemon, label) /\ label \notin {"fetch", "install", "commit"}
      BY <1>7 DEF StopForRelaunch
    <2>2. \A q \in Procs \ {Daemon} : /\ kind'[q] = kind[q] /\ ver'[q] = ver[q]
                                   /\ seen'[q] = seen[q] /\ target'[q] = target[q]
      BY <1>7 DEF StopForRelaunch, TypeOK
    <2> QED
      BY <2>1, <2>2, MovesOn, Bounds
  <1>8. CASE LoopAgain
    <2>1. \E label : Goto(Daemon, label) /\ label \notin {"fetch", "install", "commit"}
      BY <1>8 DEF LoopAgain
    <2>2. \A q \in Procs \ {Daemon} : /\ kind'[q] = kind[q] /\ ver'[q] = ver[q]
                                   /\ seen'[q] = seen[q] /\ target'[q] = target[q]
      BY <1>8 DEF LoopAgain, TypeOK
    <2> QED
      BY <2>1, <2>2, MovesOn, Bounds
  <1>9. CASE Relaunch
    <2>1. \E label : Goto(Daemon, label) /\ label \notin {"fetch", "install", "commit"}
      BY <1>9 DEF Relaunch
    <2>2. \A q \in Procs \ {Daemon} : /\ kind'[q] = kind[q] /\ ver'[q] = ver[q]
                                   /\ seen'[q] = seen[q] /\ target'[q] = target[q]
      BY <1>9 DEF Relaunch, TypeOK
    <2> QED
      BY <2>1, <2>2, MovesOn, Bounds
  <1>10. CASE RelaunchFailed
    BY <1>10 DEF RelaunchFailed, UpdateStays
  <1>11. CASE Panic
    <2>1. \E label : Goto(Daemon, label) /\ label \notin {"fetch", "install", "commit"}
      BY <1>11 DEF Panic
    <2>2. \A q \in Procs \ {Daemon} : /\ kind'[q] = kind[q] /\ ver'[q] = ver[q]
                                   /\ seen'[q] = seen[q] /\ target'[q] = target[q]
      BY <1>11 DEF Panic, TypeOK, Clear
    <2> QED
      BY <2>1, <2>2, MovesOn, Bounds
  <1>12. ASSUME NEW c \in Commands, StartCommand(c) PROVE Stay
    <2>1. \E label : Goto(c, label) /\ label \notin {"fetch", "install", "commit"}
      BY <1>12 DEF StartCommand
    <2>2. \A q \in Procs \ {c} : /\ kind'[q] = kind[q] /\ ver'[q] = ver[q]
                                   /\ seen'[q] = seen[q] /\ target'[q] = target[q]
      BY <1>12 DEF StartCommand, TypeOK
    <2> QED
      BY <2>1, <2>2, MovesOn, Bounds
  <1>13. ASSUME NEW p \in Procs, Acquire(p) PROVE Stay
    <2>1. \E label : Goto(p, label) /\ label \notin {"fetch", "install", "commit"}
      BY <1>13 DEF Acquire, Begun
    <2>2. \A q \in Procs \ {p} : /\ kind'[q] = kind[q] /\ ver'[q] = ver[q]
                                   /\ seen'[q] = seen[q] /\ target'[q] = target[q]
      BY <1>13 DEF Acquire, TypeOK
    <2> QED
      BY <2>1, <2>2, MovesOn, Bounds
  <1>14. ASSUME NEW p \in Procs, Busy(p) PROVE Stay
    <2>1. \E label : Goto(p, label) /\ label \notin {"fetch", "install", "commit"}
      BY <1>14 DEF Busy
    <2>2. \A q \in Procs \ {p} : /\ kind'[q] = kind[q] /\ ver'[q] = ver[q]
                                   /\ seen'[q] = seen[q] /\ target'[q] = target[q]
      BY <1>14 DEF Busy, TypeOK
    <2> QED
      BY <2>1, <2>2, MovesOn, Bounds
  <1>15. ASSUME NEW p \in Procs, Recover(p) PROVE Stay
    <2>1. \E label : Goto(p, label) /\ label \notin {"fetch", "install", "commit"}
      BY <1>15 DEF Recover, NextOption
    <2>2. \A q \in Procs \ {p} : /\ kind'[q] = kind[q] /\ ver'[q] = ver[q]
                                   /\ seen'[q] = seen[q] /\ target'[q] = target[q]
      BY <1>15 DEF Recover, TypeOK
    <2> QED
      BY <2>1, <2>2, MovesOn, Bounds
  <1>16. ASSUME NEW p \in Procs, CheckFetch(p) PROVE Stay
    <2>1. \E label : Goto(p, label) /\ label \notin {"fetch", "install", "commit"}
      BY <1>16 DEF CheckFetch
    <2>2. \A q \in Procs \ {p} : /\ kind'[q] = kind[q] /\ ver'[q] = ver[q]
                                   /\ seen'[q] = seen[q] /\ target'[q] = target[q]
      BY <1>16 DEF CheckFetch, TypeOK
    <2> QED
      BY <2>1, <2>2, MovesOn, Bounds
  <1>17. ASSUME NEW p \in Procs, Load(p) PROVE Stay
    <2>1. \E label : Goto(p, label) /\ label \notin {"fetch", "install", "commit"}
      BY <1>17 DEF Load
    <2>2. \A q \in Procs \ {p} : /\ kind'[q] = kind[q] /\ ver'[q] = ver[q]
                                   /\ seen'[q] = seen[q] /\ target'[q] = target[q]
      BY <1>17 DEF Load, TypeOK
    <2> QED
      BY <2>1, <2>2, MovesOn, Bounds
  <1>18. ASSUME NEW p \in Procs, DryInstall(p) PROVE Stay
    <2>1. \E label : Goto(p, label) /\ label \notin {"fetch", "install", "commit"}
      BY <1>18 DEF DryInstall
    <2>2. \A q \in Procs \ {p} : /\ kind'[q] = kind[q] /\ ver'[q] = ver[q]
                                   /\ seen'[q] = seen[q] /\ target'[q] = target[q]
      BY <1>18 DEF DryInstall, TypeOK
    <2> QED
      BY <2>1, <2>2, MovesOn, Bounds
  <1>19. ASSUME NEW p \in Procs, Commit(p) PROVE Stay
    <2>1. \E label : Goto(p, label) /\ label \notin {"fetch", "install", "commit"}
      BY <1>19 DEF Commit
    <2>2. \A q \in Procs \ {p} : /\ kind'[q] = kind[q] /\ ver'[q] = ver[q]
                                   /\ seen'[q] = seen[q] /\ target'[q] = target[q]
      BY <1>19 DEF Commit, TypeOK
    <2> QED
      BY <2>1, <2>2, MovesOn, Bounds
  <1>20. ASSUME NEW p \in Procs, Save(p) PROVE Stay
    <2>1. \E label : Goto(p, label) /\ label \notin {"fetch", "install", "commit"}
      BY <1>20 DEF Save, Returned
    <2>2. \A q \in Procs \ {p} : /\ kind'[q] = kind[q] /\ ver'[q] = ver[q]
                                   /\ seen'[q] = seen[q] /\ target'[q] = target[q]
      BY <1>20 DEF Save, TypeOK, Clear
    <2> QED
      BY <2>1, <2>2, MovesOn, Bounds
  <1>21. ASSUME NEW p \in Procs, ErrSave(p) PROVE Stay
    <2>1. \E label : Goto(p, label) /\ label \notin {"fetch", "install", "commit"}
      BY <1>21 DEF ErrSave, Failed
    <2>2. \A q \in Procs \ {p} : /\ kind'[q] = kind[q] /\ ver'[q] = ver[q]
                                   /\ seen'[q] = seen[q] /\ target'[q] = target[q]
      BY <1>21 DEF ErrSave, TypeOK, Clear
    <2> QED
      BY <2>1, <2>2, MovesOn, Bounds
  <1>22. ASSUME NEW p \in Procs, ErrSaveFailed(p) PROVE Stay
    <2>1. \E label : Goto(p, label) /\ label \notin {"fetch", "install", "commit"}
      BY <1>22 DEF ErrSaveFailed, Failed
    <2>2. \A q \in Procs \ {p} : /\ kind'[q] = kind[q] /\ ver'[q] = ver[q]
                                   /\ seen'[q] = seen[q] /\ target'[q] = target[q]
      BY <1>22 DEF ErrSaveFailed, TypeOK, Clear
    <2> QED
      BY <2>1, <2>2, MovesOn, Bounds
  <1>23. ASSUME NEW p \in Procs, CheckFetchFailed(p) PROVE Stay
    <2>1. \E label : Goto(p, label) /\ label \notin {"fetch", "install", "commit"}
      BY <1>23 DEF CheckFetchFailed
    <2>2. \A q \in Procs \ {p} : /\ kind'[q] = kind[q] /\ ver'[q] = ver[q]
                                   /\ seen'[q] = seen[q] /\ target'[q] = target[q]
      BY <1>23 DEF CheckFetchFailed, TypeOK
    <2> QED
      BY <2>1, <2>2, MovesOn, Bounds
  <1>24. ASSUME NEW p \in Procs, StepFailed(p) PROVE Stay
    <2>1. \E label : Goto(p, label) /\ label \notin {"fetch", "install", "commit"}
      BY <1>24 DEF StepFailed, Failed
    <2>2. \A q \in Procs \ {p} : /\ kind'[q] = kind[q] /\ ver'[q] = ver[q]
                                   /\ seen'[q] = seen[q] /\ target'[q] = target[q]
      BY <1>24 DEF StepFailed, TypeOK, Clear
    <2> QED
      BY <2>1, <2>2, MovesOn, Bounds
  <1>25. ASSUME NEW p \in Procs, Kill(p) PROVE Stay
    <2>1. \E label : Goto(p, label) /\ label \notin {"fetch", "install", "commit"}
      BY <1>25 DEF Kill
    <2>2. \A q \in Procs \ {p} : /\ kind'[q] = kind[q] /\ ver'[q] = ver[q]
                                   /\ seen'[q] = seen[q] /\ target'[q] = target[q]
      BY <1>25 DEF Kill, TypeOK, Clear
    <2> QED
      BY <2>1, <2>2, MovesOn, Bounds
  <1>26. CASE UNCHANGED vars
    BY <1>26 DEF vars, UpdateStays
  <1> QED
    BY <1>1, <1>2, <1>3, <1>4, <1>5, <1>6, <1>7, <1>8, <1>9, <1>10, <1>11, <1>12, <1>13, <1>14,
       <1>15, <1>16, <1>17, <1>18, <1>19, <1>20, <1>21, <1>22, <1>23, <1>24, <1>25, <1>26
       DEF Next, DaemonStep, RunStep, FaultStep

(* So only a look-up begins an install. *)
LEMMA InstallsStay ==
    ASSUME TypeOK, [Next]_vars
    PROVE  \/ \E p \in Procs : Fetch(p)
           \/ \A q \in Procs : Installing(q)' => Installing(q) /\ Staged(q)' = Staged(q)
  <1>1. ASSUME NEW q \in Procs, UpdateStays(q), Installing(q)' PROVE Installing(q) /\ Staged(q)' = Staged(q)
    <2>1. pc'[q] \in {"install", "commit"} /\ kind'[q] = "apply"
      BY <1>1 DEF Installing
    <2>2. /\ pc'[q] = pc[q] /\ kind[q] = "apply" /\ ver'[q] = ver[q]
          /\ seen'[q] = seen[q] /\ target'[q] = target[q]
      BY <1>1, <2>1 DEF UpdateStays
    <2>3. Available(q)' = Available(q)
      BY <2>2 DEF Available, Newer
    <2> QED
      BY <2>1, <2>2, <2>3 DEF Installing, Staged
  <1>2. ASSUME NEW p \in Procs, CheckSave(p), NEW q \in Procs, Installing(q)' PROVE UpdateStays(q)
    <2>1. UNCHANGED <<kind, ver>>
      BY <1>2 DEF CheckSave
    <2>2. PICK label : Goto(p, label) /\ label \notin {"install", "commit"}
      BY <1>2 DEF CheckSave, Returned
    <2>3. q # p
      BY <1>2, <2>2 DEF Goto, TypeOK, Installing
    <2>4. seen'[q] = seen[q] /\ target'[q] = target[q] /\ pc'[q] = pc[q]
      BY <1>2, <2>2, <2>3 DEF CheckSave, Clear, Goto, TypeOK
    <2> QED
      BY <2>1, <2>4 DEF UpdateStays
  <1>3. ASSUME NEW p \in Procs, Install(p), NEW q \in Procs, Installing(q)'
        PROVE  Installing(q) /\ Staged(q)' = Staged(q)
    <2>1. pc[p] = "install" /\ kind[p] = "apply" /\ NextOption(p, "commit") /\ UNCHANGED <<kind, ver, seen, target>>
      BY <1>3 DEF Install
    <2>2. Available(q)' = Available(q)
      BY <2>1 DEF Available, Newer
    <2>3. q # p => pc'[q] = pc[q]
      BY <2>1 DEF NextOption, Goto, TypeOK
    <2> QED
      BY <1>3, <2>1, <2>2, <2>3 DEF Installing, Staged
  <1>4. CASE \A q \in Procs : UpdateStays(q)
    BY <1>1, <1>4
  <1> QED
    BY <1>1, <1>2, <1>3, <1>4, UpdatesStay

(* An update is only begun for some binary. *)
UpdatesHaveTargets == \A p \in Procs : pc[p] \in {"fetch", "install", "commit"} => Available(p) # {}

(* No step leaves an update without a binary to replace. *)
LEMMA TargetsStep ==
    ASSUME TypeOK, UpdatesHaveTargets, [Next]_vars
    PROVE  UpdatesHaveTargets'
  <1> SUFFICES ASSUME NEW q \in Procs, pc'[q] \in {"fetch", "install", "commit"} PROVE Available(q)' # {}
    BY DEF UpdatesHaveTargets
  <1>1. ASSUME pc[q] \in {"fetch", "install", "commit"}, ver'[q] = ver[q], seen'[q] = seen[q]
        PROVE  Available(q)' # {}
    <2>1. Available(q)' = Available(q)
      BY <1>1 DEF Available, Newer
    <2> QED
      BY <1>1, <2>1 DEF UpdatesHaveTargets
  <1>2. ASSUME NEW p \in Procs, Fetch(p) \/ Install(p) PROVE Available(q)' # {}
    <2>1. pc[p] \in {"fetch", "install", "commit"} /\ UNCHANGED <<ver, seen>>
      BY <1>2 DEF Fetch, Install
    <2>2. pc[q] \in {"fetch", "install", "commit"}
      BY <1>2, <2>1 DEF Fetch, Install, NextOption, Goto, TypeOK
    <2> QED
      BY <1>1, <2>1, <2>2
  <1>3. ASSUME NEW p \in Procs, CheckSave(p) PROVE Available(q)' # {}
    <2>1. CASE q = p
      <3>1. Goto(p, "fetch") => Available(p) # {} /\ UNCHANGED <<ver, seen>>
        BY <1>3 DEF CheckSave, Goto, Returned, TypeOK
      <3>2. PICK label : Goto(p, label) /\ label \in {"check", "saveLoad", "fetch", "reload", "idle"}
        BY <1>3 DEF CheckSave, Returned
      <3>3. Goto(p, "fetch")
        BY <2>1, <3>2 DEF Goto, TypeOK
      <3>4. Available(p)' = Available(p)
        BY <3>1, <3>3 DEF Available, Newer
      <3> QED
        BY <2>1, <3>1, <3>3, <3>4
    <2>2. CASE q # p
      <3>1. pc'[q] = pc[q] /\ ver'[q] = ver[q] /\ seen'[q] = seen[q]
        BY <1>3, <2>2 DEF CheckSave, Goto, Clear, TypeOK
      <3> QED
        BY <1>1, <3>1
    <2> QED
      BY <2>1, <2>2
  <1>4. CASE UpdateStays(q)
    BY <1>1, <1>4 DEF UpdateStays
  <1> QED
    BY <1>2, <1>3, <1>4, UpdatesStay

(* One update is under way at most: it is the pending one. *)
LEMMA OneUpdate ==
    ASSUME UpdatesAreLocked, NEW p \in Procs, Installing(p)
    PROVE  Pending = Staged(p) /\ \A q \in Procs : Installing(q) => q = p
  <1>1. \A q \in Procs : Installing(q) => lock = q
    BY DEF Installing, UpdatesAreLocked, Updating
  <1>2. \A q \in Procs : Installing(q) => q = p
    BY <1>1
  <1>3. (CHOOSE q \in Procs : Installing(q)) = p
    BY <1>2
  <1> QED
    BY <1>2, <1>3 DEF Pending

(* And so it is after a step. *)
LEMMA OneUpdateNext ==
    ASSUME UpdatesAreLocked', NEW p \in Procs, Installing(p)'
    PROVE  Pending' = Staged(p)'
  <1>1. \A q \in Procs : Installing(q)' => lock' = q
    BY DEF Installing, UpdatesAreLocked, Updating
  <1>2. \A q \in Procs : Installing(q)' => q = p
    BY <1>1
  <1>3. (CHOOSE q \in Procs : Installing(q))' = p
    BY <1>2
  <1> QED
    BY <1>2, <1>3 DEF Pending

(* At first nothing is pending and every binary has a release. *)
LEMMA OneByOneInit == Init => Atomic!AInit
  <1> SUFFICES ASSUME Init PROVE Atomic!AInit
    OBVIOUS
  <1>1. \A p \in Procs : ~Installing(p)
    BY DEF Init, Installing
  <1>2. Pending = NoUpdate
    BY <1>1 DEF Pending
  <1>3. Kept \in [Binaries -> Tags \cup {MaxTag + 1}]
    BY Bounds DEF Init, Kept, Effective
  <1> QED
    BY <1>2, <1>3 DEF Atomic!AInit, Kept

(* Every step begins an update when there is none, gives up the one there is, commits it as a     *)
(* whole, or is none of AtomicInstall's business.                                                *)
LEMMA OneByOneStep ==
    ASSUME TypeOK, UpdatesAreLocked, BackupsOK, UpdatesHaveTargets, TypeOK', UpdatesAreLocked',
           UpdatesHaveTargets', [Next]_vars
    PROVE  [Atomic!ANext]_(Atomic!aVars)
  <1> USE DEF Kept
  <1>1. ASSUME NEW p \in Procs, Installing(p)' PROVE Staged(p)' \in Atomic!Update /\ Staged(p)' # NoUpdate
    <2>1. Available(p)' # {}
      <3>1. pc'[p] \in {"install", "commit"}
        BY <1>1 DEF Installing
      <3> QED
        BY <3>1 DEF UpdatesHaveTargets
    <2>2. Available(p)' \subseteq Binaries
      BY DEF Available
    <2>3. target'[p] \in Tags
      BY DEF TypeOK
    <2>4. Staged(p)' = [targets |-> Available(p)', tag |-> target'[p]]
      BY DEF Staged
    <2>5. Staged(p)' \in Atomic!Update
      BY <2>1, <2>2, <2>3, <2>4 DEF Atomic!Update
    <2>6. Staged(p)'.targets # NoUpdate.targets
      BY <2>1, <2>4 DEF NoUpdate
    <2> QED
      BY <2>5, <2>6
  <1>2. ASSUME NEW p \in Procs, Fetch(p) PROVE [Atomic!ANext]_(Atomic!aVars)
    <2>1. pc[p] = "fetch" /\ UNCHANGED installed
      BY <1>2 DEF Fetch, disk
    <2>2. \A q \in Procs : ~Installing(q)
      BY <2>1 DEF Installing, UpdatesAreLocked, Updating
    <2>3. Pending = NoUpdate /\ UNCHANGED Kept
      BY <2>1, <2>2, KeptStays DEF Pending
    <2>4. CASE \E q \in Procs : Installing(q)'
      <3>1. PICK q \in Procs : Installing(q)'
        BY <2>4
      <3>2. Pending' = Staged(q)'
        BY <3>1, OneUpdateNext
      <3>3. Pending' \in Atomic!Update
        BY <1>1, <3>1, <3>2
      <3>4. \E u \in Atomic!Update : Atomic!Begin(u)
        BY <2>3, <3>3 DEF Atomic!Begin
      <3> QED
        BY <3>4 DEF Atomic!ANext
    <2>5. CASE ~ \E q \in Procs : Installing(q)'
      <3>1. Pending' = NoUpdate
        BY <2>5 DEF Pending
      <3> QED
        BY <2>3, <3>1 DEF Atomic!aVars
    <2> QED
      BY <2>4, <2>5
  <1>3. ASSUME NEW p \in Procs, Commit(p), kind[p] = "apply" PROVE [Atomic!ANext]_(Atomic!aVars)
    <2>1. pc[p] = "commit" /\ Goto(p, "saveLoad") /\ UNCHANGED kind
      BY <1>3 DEF Commit
    <2>2. \A q \in Procs : Installing(q) => q = p
      BY <2>1 DEF Installing, UpdatesAreLocked, Updating
    <2>3. \A q \in Procs : ~Installing(q)'
      BY <2>1, <2>2 DEF Installing, Goto, TypeOK
    <2>4. Pending' = NoUpdate
      BY <2>3 DEF Pending
    <2>5. Installing(p)
      BY <1>3, <2>1 DEF Installing
    <2>6. Pending = Staged(p)
      BY <2>5, OneUpdate
    <2>7. Staged(p).targets = Available(p) /\ Staged(p).tag = target[p]
      BY DEF Staged
    <2>8. Pending # NoUpdate
      BY <2>1, <2>6, <2>7 DEF UpdatesHaveTargets, NoUpdate
    <2>9. Kept' = [b \in Binaries |-> IF b \in Available(p) THEN target[p] ELSE Kept[b]]
      BY <1>3, KeptAtCommit
    <2>10. Atomic!Commit
      BY <2>4, <2>6, <2>7, <2>8, <2>9 DEF Atomic!Commit
    <2> QED
      BY <2>10 DEF Atomic!ANext
  <1>4. ASSUME UNCHANGED Kept, \A q \in Procs : Installing(q)' => Installing(q) /\ Staged(q)' = Staged(q)
        PROVE  [Atomic!ANext]_(Atomic!aVars)
    <2>1. CASE \E q \in Procs : Installing(q)'
      <3>1. PICK q \in Procs : Installing(q)'
        BY <2>1
      <3>2. Installing(q) /\ Staged(q)' = Staged(q)
        BY <1>4, <3>1
      <3>3. Pending = Staged(q) /\ Pending' = Staged(q)'
        BY <3>1, <3>2, OneUpdate, OneUpdateNext
      <3> QED
        BY <1>4, <3>2, <3>3 DEF Atomic!aVars
    <2>2. CASE ~ \E q \in Procs : Installing(q)'
      <3>1. Pending' = NoUpdate
        BY <2>2 DEF Pending
      <3>2. Pending = NoUpdate \/ Pending # NoUpdate
        OBVIOUS
      <3> QED
        BY <1>4, <3>1, <3>2 DEF Atomic!ANext, Atomic!Abort, Atomic!aVars
    <2> QED
      BY <2>1, <2>2
  <1> QED
    BY <1>2, <1>3, <1>4, InstallsStay, KeptStep

(* However many commands and a daemon update the same binaries, and fail, are killed or restart  *)
(* at any step, the updates are those of AtomicInstall: one at a time, each as a whole or not at *)
(* all.  The lock of ApplyAll and the recovery that begins each update make it so; what the       *)
(* backups and the marker do within one update is InstallsAtomically of InstallSet.              *)
THEOREM UpdatesOneByOne == Spec => InstallsOneByOne
  <1>1. Init => UpdatesHaveTargets
    BY DEF Init, UpdatesHaveTargets
  <1>2. TypeOK /\ UpdatesHaveTargets /\ [Next]_vars => UpdatesHaveTargets'
    BY TargetsStep
  <1>3. SafetyInv => TypeOK /\ UpdatesAreLocked /\ BackupsOK
    BY DEF SafetyInv
  <1>4. /\ TypeOK /\ UpdatesAreLocked /\ BackupsOK /\ UpdatesHaveTargets
        /\ TypeOK' /\ UpdatesAreLocked' /\ UpdatesHaveTargets' /\ [Next]_vars
        => [Atomic!ANext]_(Atomic!aVars)
    BY OneByOneStep
  <1> QED
    BY <1>1, <1>2, <1>3, <1>4, OneByOneInit, SafetyInvariant, PTL DEF Spec, InstallsOneByOne, Atomic!ASpec
-----------------------------------------------------------------------------
(* The options a run has looked up the newest release for. *)
LookedUp(p) == CASE pc[p] = "check" -> 1..(idx[p] - 1)
                 [] pc[p] \in {"checkLoad", "checkSave"} -> 1..idx[p]
                 [] OTHER -> Binaries

(* An update has looked up some of its options and not all. *)
BetweenLookUps(p) == pc[p] \in Checking /\ kind[p] # "check" /\ LookedUp(p) \notin {{}, Binaries}

(* An update has found one release for all the options it has looked up, while it still looks up *)
(* others the newest one.                                                                        *)
Alike(p) == pc[p] \in Checking \cup {"fetch", "install", "commit"} /\ kind[p] # "check" =>
    /\ \A a, b \in LookedUp(p) : seen[p][a] = seen[p][b]
    /\ BetweenLookUps(p) => \A b \in LookedUp(p) : seen[p][b] = latest
SeenAlike == \A p \in Procs : Alike(p)

(* Two steps that leave a process where it is leave its findings alike. *)
LEMMA AlikeKept ==
    ASSUME NEW q \in Procs, Alike(q), pc'[q] = pc[q], kind'[q] = kind[q], idx'[q] = idx[q], seen'[q] = seen[q],
           latest' # latest => ~BetweenLookUps(q)
    PROVE  Alike(q)'
  <1>1. LookedUp(q)' = LookedUp(q)
    BY DEF LookedUp
  <1>2. BetweenLookUps(q)' = BetweenLookUps(q)
    BY <1>1 DEF BetweenLookUps
  <1> QED
    BY <1>1, <1>2 DEF Alike

(* What the others found is not disturbed by a process that looks nothing up. *)
LEMMA AlikeOfOthers ==
    ASSUME TypeOK, SeenAlike, NEW p \in Procs, NEW label, Goto(p, label), UNCHANGED latest, Alike(p)',
           \A q \in Procs \ {p} : kind'[q] = kind[q] /\ idx'[q] = idx[q] /\ seen'[q] = seen[q]
    PROVE  SeenAlike'
  <1>1. ASSUME NEW q \in Procs \ {p} PROVE Alike(q)'
    <2>1. pc'[q] = pc[q]
      BY DEF Goto, TypeOK
    <2> QED
      BY <2>1, AlikeKept DEF SeenAlike
  <1> QED
    BY <1>1 DEF SeenAlike

(* A process that is not, or no longer, at an update has nothing to be alike. *)
LEMMA AlikeLeft ==
    ASSUME TypeOK, NEW p \in Procs, NEW label, Goto(p, label),
           label \notin Checking \cup {"fetch", "install", "commit"} \/ kind'[p] = "check"
    PROVE  Alike(p)'
  <1>1. pc'[p] = label
    BY DEF Goto, TypeOK
  <1> QED
    BY <1>1 DEF Alike

(* As long as no release is published between two look-ups of an update, it finds one for all.   *)
(* As long as no release is published between two look-ups of an update, it finds one for all.   *)
LEMMA AlikeStep ==
    ASSUME TypeOK, FirstOptionFirst, UpdatesAreLocked, SeenAlike, [Next]_vars,
           latest' # latest => \A p \in Procs : ~BetweenLookUps(p)
    PROVE  SeenAlike'
  <1> USE DEF disk, hooks, procs, bounds, history
  <1>1. CASE Publish
    <2>1. UNCHANGED <<pc, kind, idx, seen>>
      BY <1>1 DEF Publish
    <2> QED
      BY <2>1, AlikeKept DEF SeenAlike
  <1>2. CASE Reconfigure
    <2>1. UNCHANGED <<pc, kind, idx, seen>>
      BY <1>2 DEF Reconfigure
    <2> QED
      BY <2>1, AlikeKept DEF SeenAlike
  <1>3. CASE Tick
    <2>1. UNCHANGED <<pc, kind, idx, seen>>
      BY <1>3 DEF Tick
    <2> QED
      BY <2>1, AlikeKept DEF SeenAlike
  <1>4. CASE Arm
    <2>1. PICK label : /\ Goto(Daemon, label)
                       /\ label \notin Checking \cup {"fetch", "install", "commit"} \/ kind'[Daemon] = "check"
      BY <1>4, Bounds DEF Arm, Checking
    <2>2. Alike(Daemon)'
      BY <2>1, AlikeLeft, Bounds
    <2>9. \A q \in Procs \ {Daemon} : kind'[q] = kind[q] /\ idx'[q] = idx[q] /\ seen'[q] = seen[q]
      BY <1>4 DEF Arm, TypeOK
    <2>10. UNCHANGED latest
      BY <1>4 DEF Arm
    <2> QED
      BY <2>1, <2>2, <2>9, <2>10, AlikeOfOthers, Bounds
  <1>5. CASE Fire
    <2>1. PICK label : /\ Goto(Daemon, label)
                       /\ label \notin Checking \cup {"fetch", "install", "commit"} \/ kind'[Daemon] = "check"
      BY <1>5, Bounds DEF Fire, Checking
    <2>2. Alike(Daemon)'
      BY <2>1, AlikeLeft, Bounds
    <2>9. \A q \in Procs \ {Daemon} : kind'[q] = kind[q] /\ idx'[q] = idx[q] /\ seen'[q] = seen[q]
      BY <1>5 DEF Fire, TypeOK
    <2>10. UNCHANGED latest
      BY <1>5 DEF Fire
    <2> QED
      BY <2>1, <2>2, <2>9, <2>10, AlikeOfOthers, Bounds
  <1>6. CASE RunScheduledUpdate
    <2>1. \/ Goto(Daemon, "reload")
          \/ Goto(Daemon, "check") /\ kind' = [kind EXCEPT ![Daemon] = "check"]
          \/ Goto(Daemon, "lock")
      BY <1>6 DEF RunScheduledUpdate
    <2>2. Goto(Daemon, "check") /\ kind' = [kind EXCEPT ![Daemon] = "check"] => kind'[Daemon] = "check"
      BY Bounds DEF TypeOK
    <2>3. PICK label : /\ Goto(Daemon, label)
                       /\ label \notin Checking \cup {"fetch", "install", "commit"} \/ kind'[Daemon] = "check"
      BY <2>1, <2>2 DEF Checking
    <2>4. Alike(Daemon)'
      BY <2>3, AlikeLeft, Bounds
    <2>9. \A q \in Procs \ {Daemon} : kind'[q] = kind[q] /\ idx'[q] = idx[q] /\ seen'[q] = seen[q]
      BY <1>6 DEF RunScheduledUpdate, TypeOK
    <2>10. UNCHANGED latest
      BY <1>6 DEF RunScheduledUpdate
    <2> QED
      BY <2>3, <2>4, <2>9, <2>10, AlikeOfOthers, Bounds
  <1>7. CASE StopForRelaunch
    <2>1. PICK label : /\ Goto(Daemon, label)
                       /\ label \notin Checking \cup {"fetch", "install", "commit"} \/ kind'[Daemon] = "check"
      BY <1>7, Bounds DEF StopForRelaunch, Checking
    <2>2. Alike(Daemon)'
      BY <2>1, AlikeLeft, Bounds
    <2>9. \A q \in Procs \ {Daemon} : kind'[q] = kind[q] /\ idx'[q] = idx[q] /\ seen'[q] = seen[q]
      BY <1>7 DEF StopForRelaunch, TypeOK
    <2>10. UNCHANGED latest
      BY <1>7 DEF StopForRelaunch
    <2> QED
      BY <2>1, <2>2, <2>9, <2>10, AlikeOfOthers, Bounds
  <1>8. CASE LoopAgain
    <2>1. PICK label : /\ Goto(Daemon, label)
                       /\ label \notin Checking \cup {"fetch", "install", "commit"} \/ kind'[Daemon] = "check"
      BY <1>8, Bounds DEF LoopAgain, Checking
    <2>2. Alike(Daemon)'
      BY <2>1, AlikeLeft, Bounds
    <2>9. \A q \in Procs \ {Daemon} : kind'[q] = kind[q] /\ idx'[q] = idx[q] /\ seen'[q] = seen[q]
      BY <1>8 DEF LoopAgain, TypeOK
    <2>10. UNCHANGED latest
      BY <1>8 DEF LoopAgain
    <2> QED
      BY <2>1, <2>2, <2>9, <2>10, AlikeOfOthers, Bounds
  <1>9. CASE Relaunch
    <2>1. PICK label : /\ Goto(Daemon, label)
                       /\ label \notin Checking \cup {"fetch", "install", "commit"} \/ kind'[Daemon] = "check"
      BY <1>9, Bounds DEF Relaunch, Checking
    <2>2. Alike(Daemon)'
      BY <2>1, AlikeLeft, Bounds
    <2>9. \A q \in Procs \ {Daemon} : kind'[q] = kind[q] /\ idx'[q] = idx[q] /\ seen'[q] = seen[q]
      BY <1>9 DEF Relaunch, TypeOK
    <2>10. UNCHANGED latest
      BY <1>9 DEF Relaunch
    <2> QED
      BY <2>1, <2>2, <2>9, <2>10, AlikeOfOthers, Bounds
  <1>10. CASE RelaunchFailed
    <2>1. UNCHANGED <<pc, kind, idx, seen>>
      BY <1>10 DEF RelaunchFailed
    <2> QED
      BY <2>1, AlikeKept DEF SeenAlike
  <1>11. CASE Panic
    <2>1. PICK label : /\ Goto(Daemon, label)
                       /\ label \notin Checking \cup {"fetch", "install", "commit"} \/ kind'[Daemon] = "check"
      BY <1>11, Bounds DEF Panic, Checking
    <2>2. Alike(Daemon)'
      BY <2>1, AlikeLeft, Bounds
    <2>9. \A q \in Procs \ {Daemon} : kind'[q] = kind[q] /\ idx'[q] = idx[q] /\ seen'[q] = seen[q]
      BY <1>11 DEF Panic, TypeOK, Clear
    <2>10. UNCHANGED latest
      BY <1>11 DEF Panic
    <2> QED
      BY <2>1, <2>2, <2>9, <2>10, AlikeOfOthers, Bounds
  <1>12. ASSUME NEW c \in Commands, StartCommand(c) PROVE SeenAlike'
    <2>1. PICK label : /\ Goto(c, label)
                       /\ label \notin Checking \cup {"fetch", "install", "commit"} \/ kind'[c] = "check"
      BY <1>12, Bounds DEF StartCommand, Checking, TypeOK
    <2>2. Alike(c)'
      BY <2>1, AlikeLeft, Bounds
    <2>9. \A q \in Procs \ {c} : kind'[q] = kind[q] /\ idx'[q] = idx[q] /\ seen'[q] = seen[q]
      BY <1>12 DEF StartCommand, TypeOK
    <2>10. UNCHANGED latest
      BY <1>12 DEF StartCommand
    <2> QED
      BY <2>1, <2>2, <2>9, <2>10, AlikeOfOthers, Bounds
  <1>13. ASSUME NEW p \in Procs, Acquire(p) PROVE SeenAlike'
    <2>1. PICK label : Goto(p, label) /\ label \in {"check", "recover"}
      BY <1>13 DEF Acquire, Begun
    <2>2. pc'[p] = label /\ idx'[p] = 1
      BY <1>13, <2>1 DEF Acquire, Goto, TypeOK, FirstOptionFirst
    <2>3. label = "check" => LookedUp(p)' = {}
      BY <2>2 DEF LookedUp
    <2>4. Alike(p)'
      BY <2>1, <2>2, <2>3 DEF Alike, BetweenLookUps, Checking
    <2>9. \A q \in Procs \ {p} : kind'[q] = kind[q] /\ idx'[q] = idx[q] /\ seen'[q] = seen[q]
      BY <1>13 DEF Acquire, TypeOK
    <2>10. UNCHANGED latest
      BY <1>13 DEF Acquire
    <2> QED
      BY <2>1, <2>4, <2>9, <2>10, AlikeOfOthers
  <1>14. ASSUME NEW p \in Procs, Busy(p) PROVE SeenAlike'
    <2>1. PICK label : /\ Goto(p, label)
                       /\ label \notin Checking \cup {"fetch", "install", "commit"} \/ kind'[p] = "check"
      BY <1>14, Bounds DEF Busy, Checking
    <2>2. Alike(p)'
      BY <2>1, AlikeLeft, Bounds
    <2>9. \A q \in Procs \ {p} : kind'[q] = kind[q] /\ idx'[q] = idx[q] /\ seen'[q] = seen[q]
      BY <1>14 DEF Busy, TypeOK
    <2>10. UNCHANGED latest
      BY <1>14 DEF Busy
    <2> QED
      BY <2>1, <2>2, <2>9, <2>10, AlikeOfOthers, Bounds
  <1>15. ASSUME NEW p \in Procs, Recover(p) PROVE SeenAlike'
    <2>1. pc[p] = "recover" /\ NextOption(p, "check")
      BY <1>15 DEF Recover
    <2>2. PICK label : /\ Goto(p, label) /\ label \in {"check", "recover"}
                       /\ label = "check" => idx'[p] = 1
      BY <2>1 DEF NextOption, TypeOK
    <2>3. pc'[p] = label
      BY <2>2 DEF Goto, TypeOK
    <2>4. label = "check" => LookedUp(p)' = {}
      BY <2>2, <2>3 DEF LookedUp
    <2>5. Alike(p)'
      BY <2>2, <2>3, <2>4 DEF Alike, BetweenLookUps, Checking
    <2>9. \A q \in Procs \ {p} : kind'[q] = kind[q] /\ idx'[q] = idx[q] /\ seen'[q] = seen[q]
      BY <1>15 DEF Recover, NextOption, TypeOK
    <2>10. UNCHANGED latest
      BY <1>15 DEF Recover
    <2> QED
      BY <2>2, <2>5, <2>9, <2>10, AlikeOfOthers
  <1>16. ASSUME NEW p \in Procs, CheckFetch(p) PROVE SeenAlike'
    <2>9. \A q \in Procs \ {p} : kind'[q] = kind[q] /\ idx'[q] = idx[q] /\ seen'[q] = seen[q]
      BY <1>16 DEF CheckFetch, TypeOK
    <2>10. UNCHANGED latest
      BY <1>16 DEF CheckFetch
    <2>1. idx[p] \in Binaries /\ pc[p] = "check" /\ pc'[p] = "checkLoad" /\ Goto(p, "checkLoad")
          /\ UNCHANGED <<idx, kind>> /\ seen' = [seen EXCEPT ![p][idx[p]] = latest]
      BY <1>16 DEF CheckFetch, Goto, TypeOK
    <2>2. seen'[p] = [seen[p] EXCEPT ![idx[p]] = latest]
      BY <2>1 DEF TypeOK
    <2>3. LookedUp(p) = 1..(idx[p] - 1) /\ LookedUp(p)' = 1..idx[p] /\ idx[p] \in Nat
      BY <2>1 DEF LookedUp, Binaries
    <2>4. ASSUME kind[p] # "check", NEW b \in LookedUp(p)' PROVE seen'[p][b] = latest
      <3>1. CASE b = idx[p]
        BY <2>1, <2>2, <3>1 DEF TypeOK
      <3>2. CASE b # idx[p]
        <4>1. b \in 1..(idx[p] - 1)
          BY <2>3, <2>4, <3>2
        <4>2. idx[p] \notin 1..(idx[p] - 1)
          BY <2>3
        <4>3. LookedUp(p) # {} /\ LookedUp(p) # Binaries
          BY <2>1, <2>3, <4>1, <4>2
        <4>4. BetweenLookUps(p)
          BY <2>1, <2>4, <4>3 DEF BetweenLookUps, Checking
        <4>5. seen[p][b] = latest
          BY <2>1, <2>3, <2>4, <4>1, <4>4 DEF SeenAlike, Alike, Checking
        <4>6. b \in Binaries
          <5>1. b \in 1..(idx[p] - 1) /\ idx[p] \in 1..NumBinaries /\ NumBinaries \in Nat
            BY <2>1, <4>1, Bounds DEF Binaries
          <5> QED
            BY <5>1 DEF Binaries
        <4> QED
          BY <2>2, <3>2, <4>5, <4>6 DEF TypeOK
      <3> QED
        BY <3>1, <3>2
    <2>5. Alike(p)'
      BY <2>1, <2>4, <2>10 DEF Alike
    <2> QED
      BY <2>1, <2>5, <2>9, <2>10, AlikeOfOthers
  <1>17. ASSUME NEW p \in Procs, Load(p) PROVE SeenAlike'
    <2>9. \A q \in Procs \ {p} : kind'[q] = kind[q] /\ idx'[q] = idx[q] /\ seen'[q] = seen[q]
      BY <1>17 DEF Load, TypeOK
    <2>10. UNCHANGED latest
      BY <1>17 DEF Load
    <2>1. PICK label : /\ Goto(p, label)
                       /\ \/ pc[p] = "checkLoad" /\ label = "checkSave"
                          \/ label \in {"save", "errSave"}
      BY <1>17 DEF Load
    <2>2. UNCHANGED <<idx, kind, seen>>
      BY <1>17 DEF Load
    <2>3. ASSUME label = "checkSave" PROVE Alike(p)'
      <3>1. pc[p] = "checkLoad" /\ pc'[p] = "checkSave"
        BY <2>1, <2>3 DEF Goto, TypeOK
      <3>2. LookedUp(p)' = LookedUp(p)
        BY <2>2, <3>1 DEF LookedUp
      <3>3. BetweenLookUps(p)' = BetweenLookUps(p)
        BY <2>2, <3>1, <3>2 DEF BetweenLookUps, Checking
      <3> QED
        BY <2>2, <2>9, <2>10, <3>1, <3>2, <3>3 DEF SeenAlike, Alike, Checking
    <2>4. ASSUME label # "checkSave" PROVE Alike(p)'
      <3>1. Goto(p, label) /\ label \in {"save", "errSave"}
        BY <2>1, <2>4
      <3>2. pc'[p] \in {"save", "errSave"}
        BY <3>1 DEF Goto, TypeOK
      <3> QED
        BY <3>2 DEF Alike, Checking
    <2> QED
      BY <2>1, <2>3, <2>4, <2>9, <2>10, AlikeOfOthers
  <1>18. ASSUME NEW p \in Procs, CheckSave(p) PROVE SeenAlike'
    <2>9. \A q \in Procs \ {p} : kind'[q] = kind[q] /\ idx'[q] = idx[q] /\ seen'[q] = seen[q]
      BY <1>18 DEF CheckSave, TypeOK, Clear
    <2>10. UNCHANGED latest
      BY <1>18 DEF CheckSave
    <2>1. pc[p] = "checkSave" /\ UNCHANGED kind /\ idx[p] \in Binaries
      BY <1>18 DEF CheckSave, TypeOK
    <2>2. CASE kind[p] = "check"
      <3>1. \E label : Goto(p, label)
        BY <1>18 DEF CheckSave
      <3>2. Alike(p)'
        BY <2>1, <2>2 DEF Alike
      <3> QED
        BY <3>1, <3>2, <2>9, <2>10, AlikeOfOthers
    <2>3. CASE kind[p] # "check" /\ idx[p] < NumBinaries
      <3>1. Goto(p, "check") /\ idx' = [idx EXCEPT ![p] = idx[p] + 1] /\ UNCHANGED seen
        BY <1>18, <2>3, Bounds DEF CheckSave, Binaries
      <3>2. pc'[p] = "check" /\ idx'[p] = idx[p] + 1
        BY <3>1 DEF Goto, TypeOK
      <3>3. LookedUp(p)' = LookedUp(p)
        BY <2>1, <3>2 DEF LookedUp, Binaries
      <3>4. BetweenLookUps(p)' = BetweenLookUps(p)
        BY <2>1, <3>2, <3>3 DEF BetweenLookUps, Checking
      <3>5. Alike(p)'
        BY <2>1, <2>3, <2>10, <3>1, <3>3, <3>4 DEF SeenAlike, Alike, Checking
      <3> QED
        BY <3>1, <3>5, <2>9, <2>10, AlikeOfOthers
    <2>4. CASE kind[p] # "check" /\ ~(idx[p] < NumBinaries)
      <3>1. PICK label : Goto(p, label) /\ label \in {"saveLoad", "fetch"}
        BY <1>18, <2>4, Bounds DEF CheckSave, Binaries
      <3>2. idx[p] = NumBinaries
        BY <2>1, <2>4, Bounds DEF Binaries
      <3>3. UNCHANGED seen
        BY <1>18, <2>4, <3>2 DEF CheckSave
      <3>4. pc'[p] \in {"saveLoad", "fetch"}
        BY <3>1 DEF Goto, TypeOK
      <3>5. LookedUp(p) = Binaries /\ LookedUp(p)' = Binaries
        BY <2>1, <3>2, <3>4 DEF LookedUp, Binaries
      <3>6. \A a, b \in Binaries : seen[p][a] = seen[p][b]
        BY <2>1, <2>4, <3>5 DEF SeenAlike, Alike, Checking
      <3>7. Alike(p)'
        BY <3>3, <3>5, <3>6 DEF Alike, BetweenLookUps
      <3> QED
        BY <3>1, <3>7, <2>9, <2>10, AlikeOfOthers
    <2> QED
      BY <2>2, <2>3, <2>4
  <1>19. ASSUME NEW p \in Procs, Fetch(p) PROVE SeenAlike'
    <2>9. \A q \in Procs \ {p} : kind'[q] = kind[q] /\ idx'[q] = idx[q] /\ seen'[q] = seen[q]
      BY <1>19 DEF Fetch, TypeOK
    <2>10. UNCHANGED latest
      BY <1>19 DEF Fetch
    <2>1. pc[p] = "fetch" /\ Goto(p, "install") /\ UNCHANGED <<kind, seen>>
      BY <1>19 DEF Fetch
    <2>2. pc'[p] = "install"
      BY <2>1 DEF Goto, TypeOK
    <2>3. LookedUp(p) = Binaries /\ LookedUp(p)' = Binaries
      BY <2>1, <2>2 DEF LookedUp
    <2>4. Alike(p)'
      BY <2>1, <2>3 DEF SeenAlike, Alike, BetweenLookUps
    <2> QED
      BY <2>1, <2>4, <2>9, <2>10, AlikeOfOthers
  <1>20. ASSUME NEW p \in Procs, Install(p) PROVE SeenAlike'
    <2>1. pc[p] = "install" /\ NextOption(p, "commit") /\ UNCHANGED <<kind, seen>>
      BY <1>20 DEF Install
    <2>2. PICK label : Goto(p, label) /\ label \in {"install", "commit"}
      BY <2>1 DEF NextOption
    <2>3. pc'[p] = label
      BY <2>2 DEF Goto, TypeOK
    <2>4. LookedUp(p) = Binaries /\ LookedUp(p)' = Binaries
      BY <2>1, <2>2, <2>3 DEF LookedUp
    <2>5. Alike(p)'
      BY <2>1, <2>4 DEF SeenAlike, Alike, BetweenLookUps
    <2>9. \A q \in Procs \ {p} : kind'[q] = kind[q] /\ idx'[q] = idx[q] /\ seen'[q] = seen[q]
      BY <1>20 DEF Install, NextOption, TypeOK
    <2>10. UNCHANGED latest
      BY <1>20 DEF Install
    <2> QED
      BY <2>2, <2>5, <2>9, <2>10, AlikeOfOthers
  <1>21. ASSUME NEW p \in Procs, DryInstall(p) PROVE SeenAlike'
    <2>1. PICK label : /\ Goto(p, label)
                       /\ label \notin Checking \cup {"fetch", "install", "commit"} \/ kind'[p] = "check"
      BY <1>21, Bounds DEF DryInstall, Checking
    <2>2. Alike(p)'
      BY <2>1, AlikeLeft, Bounds
    <2>9. \A q \in Procs \ {p} : kind'[q] = kind[q] /\ idx'[q] = idx[q] /\ seen'[q] = seen[q]
      BY <1>21 DEF DryInstall, TypeOK
    <2>10. UNCHANGED latest
      BY <1>21 DEF DryInstall
    <2> QED
      BY <2>1, <2>2, <2>9, <2>10, AlikeOfOthers, Bounds
  <1>22. ASSUME NEW p \in Procs, Commit(p) PROVE SeenAlike'
    <2>1. PICK label : /\ Goto(p, label)
                       /\ label \notin Checking \cup {"fetch", "install", "commit"} \/ kind'[p] = "check"
      BY <1>22, Bounds DEF Commit, Checking
    <2>2. Alike(p)'
      BY <2>1, AlikeLeft, Bounds
    <2>9. \A q \in Procs \ {p} : kind'[q] = kind[q] /\ idx'[q] = idx[q] /\ seen'[q] = seen[q]
      BY <1>22 DEF Commit, TypeOK
    <2>10. UNCHANGED latest
      BY <1>22 DEF Commit
    <2> QED
      BY <2>1, <2>2, <2>9, <2>10, AlikeOfOthers, Bounds
  <1>23. ASSUME NEW p \in Procs, Save(p) PROVE SeenAlike'
    <2>1. PICK label : /\ Goto(p, label)
                       /\ label \notin Checking \cup {"fetch", "install", "commit"} \/ kind'[p] = "check"
      BY <1>23, Bounds DEF Save, Checking, Returned
    <2>2. Alike(p)'
      BY <2>1, AlikeLeft, Bounds
    <2>9. \A q \in Procs \ {p} : kind'[q] = kind[q] /\ idx'[q] = idx[q] /\ seen'[q] = seen[q]
      BY <1>23 DEF Save, TypeOK, Clear
    <2>10. UNCHANGED latest
      BY <1>23 DEF Save
    <2> QED
      BY <2>1, <2>2, <2>9, <2>10, AlikeOfOthers, Bounds
  <1>24. ASSUME NEW p \in Procs, ErrSave(p) PROVE SeenAlike'
    <2>1. PICK label : /\ Goto(p, label)
                       /\ label \notin Checking \cup {"fetch", "install", "commit"} \/ kind'[p] = "check"
      BY <1>24, Bounds DEF ErrSave, Checking, Failed
    <2>2. Alike(p)'
      BY <2>1, AlikeLeft, Bounds
    <2>9. \A q \in Procs \ {p} : kind'[q] = kind[q] /\ idx'[q] = idx[q] /\ seen'[q] = seen[q]
      BY <1>24 DEF ErrSave, TypeOK, Clear
    <2>10. UNCHANGED latest
      BY <1>24 DEF ErrSave
    <2> QED
      BY <2>1, <2>2, <2>9, <2>10, AlikeOfOthers, Bounds
  <1>25. ASSUME NEW p \in Procs, ErrSaveFailed(p) PROVE SeenAlike'
    <2>1. PICK label : /\ Goto(p, label)
                       /\ label \notin Checking \cup {"fetch", "install", "commit"} \/ kind'[p] = "check"
      BY <1>25, Bounds DEF ErrSaveFailed, Checking, Failed
    <2>2. Alike(p)'
      BY <2>1, AlikeLeft, Bounds
    <2>9. \A q \in Procs \ {p} : kind'[q] = kind[q] /\ idx'[q] = idx[q] /\ seen'[q] = seen[q]
      BY <1>25 DEF ErrSaveFailed, TypeOK, Clear
    <2>10. UNCHANGED latest
      BY <1>25 DEF ErrSaveFailed
    <2> QED
      BY <2>1, <2>2, <2>9, <2>10, AlikeOfOthers, Bounds
  <1>26. ASSUME NEW p \in Procs, CheckFetchFailed(p) PROVE SeenAlike'
    <2>1. PICK label : /\ Goto(p, label)
                       /\ label \notin Checking \cup {"fetch", "install", "commit"} \/ kind'[p] = "check"
      BY <1>26, Bounds DEF CheckFetchFailed, Checking
    <2>2. Alike(p)'
      BY <2>1, AlikeLeft, Bounds
    <2>9. \A q \in Procs \ {p} : kind'[q] = kind[q] /\ idx'[q] = idx[q] /\ seen'[q] = seen[q]
      BY <1>26 DEF CheckFetchFailed, TypeOK
    <2>10. UNCHANGED latest
      BY <1>26 DEF CheckFetchFailed
    <2> QED
      BY <2>1, <2>2, <2>9, <2>10, AlikeOfOthers, Bounds
  <1>27. ASSUME NEW p \in Procs, StepFailed(p) PROVE SeenAlike'
    <2>1. PICK label : /\ Goto(p, label)
                       /\ label \notin Checking \cup {"fetch", "install", "commit"} \/ kind'[p] = "check"
      BY <1>27, Bounds DEF StepFailed, Checking, Failed
    <2>2. Alike(p)'
      BY <2>1, AlikeLeft, Bounds
    <2>9. \A q \in Procs \ {p} : kind'[q] = kind[q] /\ idx'[q] = idx[q] /\ seen'[q] = seen[q]
      BY <1>27 DEF StepFailed, TypeOK, Clear
    <2>10. UNCHANGED latest
      BY <1>27 DEF StepFailed
    <2> QED
      BY <2>1, <2>2, <2>9, <2>10, AlikeOfOthers, Bounds
  <1>28. ASSUME NEW p \in Procs, Kill(p) PROVE SeenAlike'
    <2>1. PICK label : /\ Goto(p, label)
                       /\ label \notin Checking \cup {"fetch", "install", "commit"} \/ kind'[p] = "check"
      BY <1>28, Bounds DEF Kill, Checking
    <2>2. Alike(p)'
      BY <2>1, AlikeLeft, Bounds
    <2>9. \A q \in Procs \ {p} : kind'[q] = kind[q] /\ idx'[q] = idx[q] /\ seen'[q] = seen[q]
      BY <1>28 DEF Kill, TypeOK, Clear
    <2>10. UNCHANGED latest
      BY <1>28 DEF Kill
    <2> QED
      BY <2>1, <2>2, <2>9, <2>10, AlikeOfOthers, Bounds
  <1>29. CASE UNCHANGED vars
    <2>1. UNCHANGED <<pc, kind, idx, seen>>
      BY <1>29 DEF vars
    <2> QED
      BY <2>1, AlikeKept DEF SeenAlike
  <1> QED
    BY <1>1, <1>2, <1>3, <1>4, <1>5, <1>6, <1>7, <1>8, <1>9, <1>10, <1>11, <1>12, <1>13, <1>14,
       <1>15, <1>16, <1>17, <1>18, <1>19, <1>20, <1>21, <1>22, <1>23, <1>24, <1>25, <1>26,
       <1>27, <1>28, <1>29
       DEF Next, DaemonStep, RunStep, FaultStep

(* Only a commit changes what recovery would leave, and what it leaves alone its look-ups told it to. *)
LEMMA SplitStep ==
    ASSUME TypeOK, UpdatesAreLocked, BackupsOK, [Next]_vars, SetIsOneRelease, ~SetIsOneRelease'
    PROVE  TwoReleasesFound
  <1>1. ASSUME NEW p \in Procs, Commit(p), kind[p] = "apply" PROVE TwoReleasesFound
    <2>1. pc[p] = "commit"
      BY <1>1 DEF Commit
    <2>2. Kept' = [b \in Binaries |-> IF b \in Available(p) THEN target[p] ELSE Kept[b]]
      BY <1>1, KeptAtCommit
    <2>3. ASSUME \A a, b \in Binaries : seen[p][a] = seen[p][b] PROVE FALSE
      <3>1. \A b \in Binaries : b \in Available(p) <=> 1 \in Available(p)
        BY <2>3, Bounds DEF Available, Newer
      <3>2. \A b \in Binaries : Kept[b] = Kept[1]
        BY Bounds DEF SetIsOneRelease, Kept
      <3>3. \A b \in Binaries : Kept'[b] = Kept'[1]
        BY <2>2, <3>1, <3>2, Bounds
      <3>4. \A b \in Binaries : Kept'[b] = Effective(b)'
        BY DEF Kept
      <3> QED
        BY <3>3, <3>4, Bounds DEF SetIsOneRelease
    <2> QED
      BY <1>1, <2>1, <2>3 DEF TwoReleasesFound
  <1>2. ~(UNCHANGED Kept)
    <2>1. ASSUME UNCHANGED Kept PROVE FALSE
      <3>1. \A b \in Binaries : Kept[b] = Effective(b) /\ Kept'[b] = Effective(b)'
        BY DEF Kept
      <3> QED
        BY <2>1, <3>1, Bounds DEF SetIsOneRelease
    <2> QED
      BY <2>1
  <1> QED
    BY <1>1, <1>2, KeptStep

(* The set of releases that recovery leaves comes apart only at the commit of an update that      *)
(* looked up different ones for its options: no failed rename or restore, no death between two    *)
(* renames and no other process splits it (applySet).                                            *)
THEOREM SplitsNeedTwoReleases == Spec => SplitsOnlyBetweenLookUps
  <1>1. TypeOK /\ UpdatesAreLocked /\ BackupsOK /\ [Next]_vars =>
          [SetIsOneRelease /\ ~SetIsOneRelease' => TwoReleasesFound]_vars
    BY SplitStep
  <1>2. SafetyInv => TypeOK /\ UpdatesAreLocked /\ BackupsOK
    BY DEF SafetyInv
  <1> QED
    BY <1>1, <1>2, SafetyInvariant, PTL DEF Spec, SplitsOnlyBetweenLookUps

(* As long as no release is published between two look-ups of one update, the set that recovery   *)
(* leaves is of one release, whatever fails half way, is killed or runs besides.  The proviso is  *)
(* what applySet does not see to: it looks the newest release up again for each option.           *)
THEOREM SetStaysTogether ==
    Spec /\ [][latest' # latest => \A p \in Procs : ~BetweenLookUps(p)]_vars => []SetIsOneRelease
  <1>1. Init => SeenAlike /\ SetIsOneRelease
    <2>1. ASSUME Init PROVE SetIsOneRelease
      BY <2>1, Bounds DEF Init, SetIsOneRelease, Effective
    <2>2. ASSUME Init PROVE SeenAlike
      BY <2>2 DEF Init, SeenAlike, Alike, Checking
    <2> QED
      BY <2>1, <2>2
  <1>2. ASSUME TypeOK, FirstOptionFirst, UpdatesAreLocked, SeenAlike, [Next]_vars,
               [latest' # latest => \A p \in Procs : ~BetweenLookUps(p)]_vars
        PROVE  SeenAlike'
    <2>1. latest' # latest => \A p \in Procs : ~BetweenLookUps(p)
      BY <1>2 DEF vars, disk
    <2> QED
      BY <1>2, <2>1, AlikeStep
  <1>3. ASSUME TypeOK, UpdatesAreLocked, BackupsOK, SeenAlike, SetIsOneRelease, [Next]_vars PROVE SetIsOneRelease'
    <2>1. ASSUME NEW p \in Procs, pc[p] = "commit", kind[p] = "apply"
          PROVE  \A a, b \in Binaries : seen[p][a] = seen[p][b]
      <3>1. LookedUp(p) = Binaries
        BY <2>1 DEF LookedUp
      <3> QED
        BY <1>3, <2>1, <3>1 DEF SeenAlike, Alike
    <2> QED
      BY <1>3, <2>1, SplitStep DEF TwoReleasesFound
  <1>4. SafetyInv => TypeOK /\ UpdatesAreLocked /\ FirstOptionFirst /\ BackupsOK
    BY DEF SafetyInv
  <1> QED
    BY <1>1, <1>2, <1>3, <1>4, SafetyInvariant, PTL DEF Spec

-----------------------------------------------------------------------------
(***************************************************************************)
(* Why the file names the last installed tag, if no tag is recorded while  *)
(* another process holds a copy of the file: every copy that is written    *)
(* back then has the tag of the file, and only the process that installed  *)
(* has still to record what it did.                                        *)
(***************************************************************************)

\* A process has read the state file and will write it back.
HoldsCopy(p) == pc[p] \in {"checkSave", "save", "errSave"}
NobodyHoldsCopy == \A p \in Procs : ~HoldsCopy(p)

\* An update has installed and is at recording it.
Recording(p) == pc[p] \in {"saveLoad", "save"} /\ kind[p] = "apply" /\ Available(p) # {}

CopiesAgree == \A p \in Procs : HoldsCopy(p) => held[p].applied = state.applied
InstalledIsRecorded == state.applied = Effective(1) \/ \E p \in Procs : Recording(p)
RecordsWhatIsInstalled == \A p \in Procs : Recording(p) => Available(p) = Binaries /\ target[p] = Effective(1)
RecordIsTrue == CopiesAgree /\ InstalledIsRecorded /\ RecordsWhatIsInstalled

(* What the first option's binary is, once all is recovered, stays as the set does. *)
LEMMA FirstStays ==
    ASSUME UNCHANGED installed
    PROVE  UNCHANGED Effective(1)
  BY DEF installed, Effective

LEMMA FirstOverRecover ==
    ASSUME TypeOK, NEW p \in Procs, Recover(p)
    PROVE  UNCHANGED Effective(1)
  BY KeptOverRecover, Bounds DEF Kept

LEMMA FirstOverInstall ==
    ASSUME TypeOK, BackupsOK, NEW p \in Procs, Install(p)
    PROVE  UNCHANGED Effective(1)
  BY KeptOverInstall, Bounds DEF Kept

(* A step that moves no process leaves the record as true as it was. *)
LEMMA RecordStays ==
    ASSUME RecordIsTrue, UNCHANGED <<pc, kind, ver, seen, target>>, UNCHANGED Effective(1), state'.applied = state.applied,
           \A q \in Procs : held'[q].applied = held[q].applied
    PROVE  RecordIsTrue'
  <1>1. \A q \in Procs : (HoldsCopy(q) <=> HoldsCopy(q)') /\ (Recording(q) <=> Recording(q)') /\ Available(q)' = Available(q)
    BY DEF HoldsCopy, Recording, Available, Newer
  <1>2. CopiesAgree'
    BY <1>1 DEF RecordIsTrue, CopiesAgree
  <1>3. InstalledIsRecorded'
    BY <1>1 DEF RecordIsTrue, InstalledIsRecorded
  <1>4. RecordsWhatIsInstalled'
    BY <1>1 DEF RecordIsTrue, RecordsWhatIsInstalled
  <1> QED
    BY <1>2, <1>3, <1>4 DEF RecordIsTrue

(* Nor does a process that moves on, unless it installed or recorded something. *)
LEMMA RecordKept ==
    ASSUME TypeOK, RecordIsTrue, NEW p \in Procs, NEW label, Goto(p, label), UNCHANGED Effective(1), state'.applied = state.applied,
           \A q \in Procs \ {p} : /\ kind'[q] = kind[q] /\ ver'[q] = ver[q] /\ seen'[q] = seen[q]
                                  /\ target'[q] = target[q] /\ held'[q] = held[q],
           label \in {"checkSave", "save", "errSave"} => held'[p].applied = state.applied,
           Recording(p) => Recording(p)',
           Recording(p)' => Available(p)' = Binaries /\ target'[p] = Effective(1)'
    PROVE  RecordIsTrue'
  <1>1. pc'[p] = label /\ \A q \in Procs \ {p} : pc'[q] = pc[q]
    BY DEF Goto, TypeOK
  <1>2. \A q \in Procs \ {p} : (HoldsCopy(q) <=> HoldsCopy(q)') /\ (Recording(q) <=> Recording(q)') /\ Available(q)' = Available(q)
    BY <1>1 DEF HoldsCopy, Recording, Available, Newer
  <1>3. CopiesAgree'
    <2>1. ASSUME NEW q \in Procs, HoldsCopy(q)' PROVE held'[q].applied = state'.applied
      <3>1. CASE q = p
        BY <1>1, <2>1, <3>1 DEF HoldsCopy
      <3>2. CASE q # p
        BY <1>2, <2>1, <3>2 DEF RecordIsTrue, CopiesAgree
      <3> QED
        BY <3>1, <3>2
    <2> QED
      BY <2>1 DEF CopiesAgree
  <1>4. InstalledIsRecorded'
    <2>1. CASE state.applied = Effective(1)
      BY <2>1 DEF InstalledIsRecorded
    <2>2. ASSUME NEW q \in Procs, Recording(q) PROVE Recording(q)'
      BY <1>2, <2>2
    <2> QED
      BY <2>1, <2>2 DEF RecordIsTrue, InstalledIsRecorded
  <1>5. RecordsWhatIsInstalled'
    <2>1. ASSUME NEW q \in Procs, Recording(q)' PROVE Available(q)' = Binaries /\ target'[q] = Effective(1)'
      <3>1. CASE q = p
        BY <2>1, <3>1
      <3>2. CASE q # p
        BY <1>2, <2>1, <3>2 DEF RecordIsTrue, RecordsWhatIsInstalled
      <3> QED
        BY <3>1, <3>2
    <2> QED
      BY <2>1 DEF RecordsWhatIsInstalled
  <1> QED
    BY <1>3, <1>4, <1>5 DEF RecordIsTrue

(* A process that is not at recording, and goes to where there is nothing to record or write. *)
LEMMA RecordElsewhere ==
    ASSUME TypeOK, RecordIsTrue, NEW p \in Procs, NEW label, Goto(p, label), UNCHANGED Effective(1), state'.applied = state.applied,
           \A q \in Procs \ {p} : /\ kind'[q] = kind[q] /\ ver'[q] = ver[q] /\ seen'[q] = seen[q]
                                  /\ target'[q] = target[q] /\ held'[q] = held[q],
           pc[p] \notin {"saveLoad", "save"}, label \notin {"checkSave", "save", "errSave", "saveLoad"}
    PROVE  RecordIsTrue'
  <1>1. pc'[p] = label
    BY DEF Goto, TypeOK
  <1>2. ~Recording(p) /\ ~(Recording(p)')
    BY <1>1 DEF Recording
  <1> QED
    BY <1>2, RecordKept

(* The commit leaves its own process with something to record, and no other. *)
LEMMA RecordCommits ==
    ASSUME TypeOK, UpdatesAreLocked, BackupsOK, SeenAlike, RecordIsTrue, NEW p \in Procs, Commit(p)
    PROVE  RecordIsTrue'
  <1>1. pc[p] = "commit" /\ pc'[p] = "saveLoad" /\ Goto(p, "saveLoad")
    BY DEF Commit, Goto, TypeOK
  <1>2. UNCHANGED <<state, kind, ver, seen, target, held>>
    BY DEF Commit
  <1>3. kind[p] = "apply"
    BY <1>1 DEF BackupsOK, BackupsOf
  <1>4. Available(p)' = Available(p)
    BY <1>2 DEF Available, Newer
  <1>5. Available(p) \in {{}, Binaries}
    <2>1. LookedUp(p) = Binaries
      BY <1>1 DEF LookedUp
    <2>2. \A a, b \in Binaries : seen[p][a] = seen[p][b]
      BY <1>1, <1>3, <2>1 DEF SeenAlike, Alike
    <2>3. \A a, b \in Binaries : a \in Available(p) <=> b \in Available(p)
      BY <2>2 DEF Available, Newer
    <2>4. Available(p) \subseteq Binaries
      BY DEF Available
    <2> QED
      BY <2>3, <2>4
  <1>6. Kept' = [b \in Binaries |-> IF b \in Available(p) THEN target[p] ELSE Kept[b]]
    BY <1>3, KeptAtCommit
  <1>7. ~Recording(p)
    BY <1>1 DEF Recording
  <1>8. CASE Available(p) = {}
    <2>1. UNCHANGED Effective(1)
      BY <1>6, <1>8, Bounds DEF Kept
    <2>2. ~(Recording(p)')
      BY <1>4, <1>8 DEF Recording
    <2> QED
      BY <1>1, <1>2, <1>7, <2>1, <2>2, RecordKept
  <1>9. CASE Available(p) = Binaries
    <2>1. Effective(1)' = target[p]
      BY <1>6, <1>9, Bounds DEF Kept
    <2>2. Recording(p)'
      BY <1>1, <1>2, <1>3, <1>4, <1>9, Bounds DEF Recording
    <2>3. ASSUME NEW q \in Procs, Recording(q)' PROVE q = p
      <3>1. lock = p
        BY <1>1 DEF UpdatesAreLocked, Updating
      <3>2. CASE q # p
        <4>1. pc[q] \in Updating
          BY <1>1, <2>3, <3>2 DEF Recording, Goto, TypeOK, Updating
        <4> QED
          BY <3>1, <3>2, <4>1 DEF UpdatesAreLocked
      <3> QED
        BY <3>2
    <2>4. CopiesAgree'
      <3>1. \A q \in Procs : HoldsCopy(q)' => HoldsCopy(q)
        BY <1>1 DEF HoldsCopy, Goto, TypeOK
      <3> QED
        BY <1>2, <3>1 DEF RecordIsTrue, CopiesAgree
    <2>5. InstalledIsRecorded'
      BY <2>2 DEF InstalledIsRecorded
    <2>6. RecordsWhatIsInstalled'
      BY <1>2, <1>4, <1>9, <2>1, <2>3 DEF RecordsWhatIsInstalled
    <2> QED
      BY <2>4, <2>5, <2>6 DEF RecordIsTrue
  <1> QED
    BY <1>5, <1>8, <1>9

(* What an update records is what it installed, and a tag that changes finds nobody with a copy. *)
LEMMA RecordSaves ==
    ASSUME TypeOK, UpdatesAreLocked, RecordIsTrue, NEW p \in Procs, Save(p),
           state'.applied # state.applied => NobodyHoldsCopy'
    PROVE  RecordIsTrue'
  <1>1. pc[p] = "save" /\ kind[p] \in {"apply", "dry"}
    BY DEF Save, UpdatesAreLocked, Updating, TypeOK
  <1>2. PICK label : /\ Goto(p, label)
                     /\ \/ label = "saveLoad" /\ UNCHANGED <<seen, target>>
                        \/ label \in {"reload", "idle"}
    BY DEF Save, Returned
  <1>3. \A q \in Procs \ {p} : /\ kind'[q] = kind[q] /\ ver'[q] = ver[q] /\ seen'[q] = seen[q]
                               /\ target'[q] = target[q] /\ held'[q] = held[q]
    BY DEF Save, Clear, TypeOK
  <1>4. UNCHANGED <<kind, ver>> /\ UNCHANGED Effective(1)
    BY FirstStays DEF Save
  <1>5. pc'[p] = label /\ \A q \in Procs \ {p} : pc'[q] = pc[q]
    BY <1>2 DEF Goto, TypeOK
  <1>6. Recording(p)' => Recording(p) /\ Available(p)' = Available(p) /\ target'[p] = target[p]
    BY <1>1, <1>2, <1>4, <1>5 DEF Recording, Available, Newer
  <1>7. CASE Status(p) = "applied"
    <2>1. Recording(p)
      BY <1>1, <1>7 DEF Status, Recording
    <2>2. state'.applied = Effective(1)
      BY <1>7, <2>1 DEF Save, RecordIsTrue, RecordsWhatIsInstalled
    <2>3. InstalledIsRecorded'
      BY <1>4, <2>2 DEF InstalledIsRecorded
    <2>4. \A q \in Procs : HoldsCopy(q)' => q # p /\ HoldsCopy(q)
      BY <1>2, <1>5 DEF HoldsCopy
    <2>5. CopiesAgree'
      <3>1. CASE state'.applied = state.applied
        BY <1>3, <2>4, <3>1 DEF RecordIsTrue, CopiesAgree
      <3>2. CASE state'.applied # state.applied
        BY <3>2 DEF NobodyHoldsCopy, CopiesAgree
      <3> QED
        BY <3>1, <3>2
    <2>6. RecordsWhatIsInstalled'
      <3>1. ASSUME NEW q \in Procs, Recording(q)' PROVE Available(q)' = Binaries /\ target'[q] = Effective(1)'
        <4>1. CASE q = p
          BY <1>4, <1>6, <2>1, <3>1, <4>1 DEF RecordIsTrue, RecordsWhatIsInstalled
        <4>2. CASE q # p
          <5>1. Recording(q) /\ Available(q)' = Available(q)
            BY <1>3, <1>5, <3>1, <4>2 DEF Recording, Available, Newer
          <5> QED
            BY <1>3, <1>4, <4>2, <5>1 DEF RecordIsTrue, RecordsWhatIsInstalled
        <4> QED
          BY <4>1, <4>2
      <3> QED
        BY <3>1 DEF RecordsWhatIsInstalled
    <2> QED
      BY <2>3, <2>5, <2>6 DEF RecordIsTrue
  <1>8. CASE Status(p) # "applied"
    <2>1. ~Recording(p)
      <3>1. idx[p] \in Binaries
        BY DEF TypeOK
      <3>2. ASSUME Recording(p) PROVE Status(p) = "applied"
        <4>1. Available(p) = Binaries /\ kind[p] = "apply"
          BY <3>2 DEF RecordIsTrue, RecordsWhatIsInstalled, Recording
        <4> QED
          BY <3>1, <4>1 DEF Status
      <3> QED
        BY <1>8, <3>2
    <2>2. state'.applied = state.applied
      <3>1. state'.applied = held[p].applied
        BY <1>8 DEF Save
      <3> QED
        BY <1>1, <3>1 DEF RecordIsTrue, CopiesAgree, HoldsCopy
    <2>3. label \notin {"checkSave", "save", "errSave"}
      BY <1>2
    <2> QED
      BY <1>2, <1>3, <1>4, <1>6, <2>1, <2>2, <2>3, RecordKept
  <1> QED
    BY <1>7, <1>8

(* The checks and the records of errors write back the tag they read. *)
LEMMA RecordPassedOn ==
    ASSUME TypeOK, RecordIsTrue, NEW p \in Procs, CheckSave(p) \/ ErrSave(p)
    PROVE  RecordIsTrue'
  <1>1. pc[p] \in {"checkSave", "errSave"}
    BY DEF CheckSave, ErrSave
  <1>2. state'.applied = held[p].applied /\ UNCHANGED <<kind, ver>> /\ UNCHANGED Effective(1)
    <2>1. CASE CheckSave(p)
      BY <2>1, FirstStays DEF CheckSave
    <2>2. CASE ErrSave(p)
      <3>1. held[p] \in States
        BY DEF TypeOK
      <3>2. state' = [held[p] EXCEPT !.result = "error", !.next = Interval]
        BY <2>2 DEF ErrSave
      <3>3. state'.applied = held[p].applied
        BY <3>1, <3>2 DEF States
      <3> QED
        BY <2>2, <3>3, FirstStays DEF ErrSave
    <2> QED
      BY <2>1, <2>2
  <1>3. state'.applied = state.applied
    BY <1>1, <1>2 DEF RecordIsTrue, CopiesAgree, HoldsCopy
  <1>4. \A q \in Procs \ {p} : /\ kind'[q] = kind[q] /\ ver'[q] = ver[q] /\ seen'[q] = seen[q]
                               /\ target'[q] = target[q] /\ held'[q] = held[q]
    BY <1>2 DEF CheckSave, ErrSave, Clear, TypeOK
  <1>5. PICK label : /\ Goto(p, label)
                     /\ \/ label \in {"check", "fetch", "errLoad", "reload", "arm", "idle"}
                        \/ label = "saveLoad" /\ Available(p) = {} /\ UNCHANGED seen
    <2>1. CASE CheckSave(p)
      BY <2>1 DEF CheckSave, Returned
    <2>2. CASE ErrSave(p)
      BY <2>2 DEF ErrSave, Failed
    <2> QED
      BY <2>1, <2>2
  <1>6. pc'[p] = label
    BY <1>5 DEF Goto, TypeOK
  <1>7. ~Recording(p)
    BY <1>1 DEF Recording
  <1>8. ~(Recording(p)')
    <2>1. CASE label = "saveLoad"
      <3>1. Available(p)' = {}
        BY <1>2, <1>5, <2>1 DEF Available, Newer
      <3> QED
        BY <3>1 DEF Recording
    <2>2. CASE label # "saveLoad"
      BY <1>5, <1>6, <2>2 DEF Recording
    <2> QED
      BY <2>1, <2>2
  <1>9. label \notin {"checkSave", "save", "errSave"}
    BY <1>5
  <1> QED
    BY <1>2, <1>3, <1>4, <1>5, <1>7, <1>8, <1>9, RecordKept

(* Without failures, every step keeps the record true, if a tag that changes finds nobody with a copy. *)
LEMMA RecordStep ==
    ASSUME TypeOK, UpdatesAreLocked, BackupsOK, SeenAlike, faults = 0 => RecordIsTrue, [Next]_vars, faults' = 0,
           state'.applied # state.applied => NobodyHoldsCopy'
    PROVE  RecordIsTrue'
  <1> USE DEF disk, hooks, procs, bounds, history
  <1>31. faults \in Nat
    BY Bounds DEF TypeOK
  <1>32. ASSUME Fault PROVE FALSE
    BY <1>31, <1>32 DEF Fault
  <1>33. ASSUME UNCHANGED faults PROVE RecordIsTrue
    BY <1>33
  <1>1. CASE Publish
    <2>1. UNCHANGED <<pc, kind, ver, seen, target, state, held, faults>> /\ UNCHANGED Effective(1)
      BY <1>1, FirstStays DEF Publish
    <2> QED
      BY <1>33, <2>1, RecordStays
  <1>2. CASE Reconfigure
    <2>1. UNCHANGED <<pc, kind, ver, seen, target, state, held, faults>> /\ UNCHANGED Effective(1)
      BY <1>2, FirstStays DEF Reconfigure
    <2> QED
      BY <1>33, <2>1, RecordStays
  <1>3. CASE Tick
    <2>1. UNCHANGED <<pc, kind, ver, seen, target, faults>> /\ UNCHANGED Effective(1)
      BY <1>3, FirstStays DEF Tick
    <2>2. state'.applied = state.applied
      <3>1. state \in States
        BY DEF TypeOK
      <3>2. state' = [state EXCEPT !.next = Less(@)]
        BY <1>3 DEF Tick
      <3> QED
        BY <3>1, <3>2 DEF States
    <2>3. ASSUME NEW q \in Procs PROVE held'[q].applied = held[q].applied
      <3>1. held[q] \in States
        BY DEF TypeOK
      <3>2. held'[q] = [held[q] EXCEPT !.next = Less(@)]
        BY <1>3 DEF Tick
      <3> QED
        BY <3>1, <3>2 DEF States
    <2> QED
      BY <1>33, <2>1, <2>2, <2>3, RecordStays
  <1>4. CASE Arm
    <2>1. Daemon \in Procs /\ pc[Daemon] \notin {"saveLoad", "save"} /\ UNCHANGED <<state, faults>> /\ UNCHANGED Effective(1)
      BY <1>4, <1>32, Bounds, FirstStays DEF Arm
    <2>2. \E label : Goto(Daemon, label) /\ label \notin {"checkSave", "save", "errSave", "saveLoad"}
      BY <1>4 DEF Arm
    <2>3. \A q \in Procs \ {Daemon} : /\ kind'[q] = kind[q] /\ ver'[q] = ver[q] /\ seen'[q] = seen[q]
                                        /\ target'[q] = target[q] /\ held'[q] = held[q]
      BY <1>4 DEF Arm, TypeOK
    <2> QED
      BY <1>33, <2>1, <2>2, <2>3, RecordElsewhere
  <1>5. CASE Fire
    <2>1. Daemon \in Procs /\ pc[Daemon] \notin {"saveLoad", "save"} /\ UNCHANGED <<state, faults>> /\ UNCHANGED Effective(1)
      BY <1>5, <1>32, Bounds, FirstStays DEF Fire
    <2>2. \E label : Goto(Daemon, label) /\ label \notin {"checkSave", "save", "errSave", "saveLoad"}
      BY <1>5 DEF Fire
    <2>3. \A q \in Procs \ {Daemon} : /\ kind'[q] = kind[q] /\ ver'[q] = ver[q] /\ seen'[q] = seen[q]
                                        /\ target'[q] = target[q] /\ held'[q] = held[q]
      BY <1>5 DEF Fire, TypeOK
    <2> QED
      BY <1>33, <2>1, <2>2, <2>3, RecordElsewhere
  <1>6. CASE RunScheduledUpdate
    <2>1. Daemon \in Procs /\ pc[Daemon] \notin {"saveLoad", "save"} /\ UNCHANGED <<state, faults>> /\ UNCHANGED Effective(1)
      BY <1>6, <1>32, Bounds, FirstStays DEF RunScheduledUpdate
    <2>2. \E label : Goto(Daemon, label) /\ label \notin {"checkSave", "save", "errSave", "saveLoad"}
      BY <1>6 DEF RunScheduledUpdate
    <2>3. \A q \in Procs \ {Daemon} : /\ kind'[q] = kind[q] /\ ver'[q] = ver[q] /\ seen'[q] = seen[q]
                                        /\ target'[q] = target[q] /\ held'[q] = held[q]
      BY <1>6 DEF RunScheduledUpdate, TypeOK
    <2> QED
      BY <1>33, <2>1, <2>2, <2>3, RecordElsewhere
  <1>7. CASE StopForRelaunch
    <2>1. Daemon \in Procs /\ pc[Daemon] \notin {"saveLoad", "save"} /\ UNCHANGED <<state, faults>> /\ UNCHANGED Effective(1)
      BY <1>7, <1>32, Bounds, FirstStays DEF StopForRelaunch
    <2>2. \E label : Goto(Daemon, label) /\ label \notin {"checkSave", "save", "errSave", "saveLoad"}
      BY <1>7 DEF StopForRelaunch
    <2>3. \A q \in Procs \ {Daemon} : /\ kind'[q] = kind[q] /\ ver'[q] = ver[q] /\ seen'[q] = seen[q]
                                        /\ target'[q] = target[q] /\ held'[q] = held[q]
      BY <1>7 DEF StopForRelaunch, TypeOK
    <2> QED
      BY <1>33, <2>1, <2>2, <2>3, RecordElsewhere
  <1>8. CASE LoopAgain
    <2>1. Daemon \in Procs /\ pc[Daemon] \notin {"saveLoad", "save"} /\ UNCHANGED <<state, faults>> /\ UNCHANGED Effective(1)
      BY <1>8, <1>32, Bounds, FirstStays DEF LoopAgain
    <2>2. \E label : Goto(Daemon, label) /\ label \notin {"checkSave", "save", "errSave", "saveLoad"}
      BY <1>8 DEF LoopAgain
    <2>3. \A q \in Procs \ {Daemon} : /\ kind'[q] = kind[q] /\ ver'[q] = ver[q] /\ seen'[q] = seen[q]
                                        /\ target'[q] = target[q] /\ held'[q] = held[q]
      BY <1>8 DEF LoopAgain, TypeOK
    <2> QED
      BY <1>33, <2>1, <2>2, <2>3, RecordElsewhere
  <1>9. CASE Relaunch
    <2>1. Daemon \in Procs /\ pc[Daemon] \notin {"saveLoad", "save"} /\ UNCHANGED <<state, faults>> /\ UNCHANGED Effective(1)
      BY <1>9, <1>32, Bounds, FirstStays DEF Relaunch
    <2>2. \E label : Goto(Daemon, label) /\ label \notin {"checkSave", "save", "errSave", "saveLoad"}
      BY <1>9 DEF Relaunch
    <2>3. \A q \in Procs \ {Daemon} : /\ kind'[q] = kind[q] /\ ver'[q] = ver[q] /\ seen'[q] = seen[q]
                                        /\ target'[q] = target[q] /\ held'[q] = held[q]
      BY <1>9 DEF Relaunch, TypeOK
    <2> QED
      BY <1>33, <2>1, <2>2, <2>3, RecordElsewhere
  <1>10. CASE RelaunchFailed
    BY <1>10, <1>32 DEF RelaunchFailed
  <1>11. CASE Panic
    BY <1>11, <1>32 DEF Panic
  <1>12. ASSUME NEW c \in Commands, StartCommand(c) PROVE RecordIsTrue'
    <2>1. c \in Procs /\ pc[c] \notin {"saveLoad", "save"} /\ UNCHANGED <<state, faults>> /\ UNCHANGED Effective(1)
      BY <1>12, <1>32, Bounds, FirstStays DEF StartCommand
    <2>2. \E label : Goto(c, label) /\ label \notin {"checkSave", "save", "errSave", "saveLoad"}
      BY <1>12 DEF StartCommand
    <2>3. \A q \in Procs \ {c} : /\ kind'[q] = kind[q] /\ ver'[q] = ver[q] /\ seen'[q] = seen[q]
                                        /\ target'[q] = target[q] /\ held'[q] = held[q]
      BY <1>12 DEF StartCommand, TypeOK
    <2> QED
      BY <1>33, <2>1, <2>2, <2>3, RecordElsewhere
  <1>13. ASSUME NEW p \in Procs, Acquire(p) PROVE RecordIsTrue'
    <2>1. p \in Procs /\ pc[p] \notin {"saveLoad", "save"} /\ UNCHANGED <<state, faults>> /\ UNCHANGED Effective(1)
      BY <1>13, <1>32, Bounds, FirstStays DEF Acquire
    <2>2. \E label : Goto(p, label) /\ label \notin {"checkSave", "save", "errSave", "saveLoad"}
      BY <1>13 DEF Acquire, Begun
    <2>3. \A q \in Procs \ {p} : /\ kind'[q] = kind[q] /\ ver'[q] = ver[q] /\ seen'[q] = seen[q]
                                        /\ target'[q] = target[q] /\ held'[q] = held[q]
      BY <1>13 DEF Acquire, TypeOK
    <2> QED
      BY <1>33, <2>1, <2>2, <2>3, RecordElsewhere
  <1>14. ASSUME NEW p \in Procs, Busy(p) PROVE RecordIsTrue'
    <2>1. p \in Procs /\ pc[p] \notin {"saveLoad", "save"} /\ UNCHANGED <<state, faults>> /\ UNCHANGED Effective(1)
      BY <1>14, <1>32, Bounds, FirstStays DEF Busy
    <2>2. \E label : Goto(p, label) /\ label \notin {"checkSave", "save", "errSave", "saveLoad"}
      BY <1>14 DEF Busy
    <2>3. \A q \in Procs \ {p} : /\ kind'[q] = kind[q] /\ ver'[q] = ver[q] /\ seen'[q] = seen[q]
                                        /\ target'[q] = target[q] /\ held'[q] = held[q]
      BY <1>14 DEF Busy, TypeOK
    <2> QED
      BY <1>33, <2>1, <2>2, <2>3, RecordElsewhere
  <1>15. ASSUME NEW p \in Procs, Recover(p) PROVE RecordIsTrue'
    <2>1. p \in Procs /\ pc[p] \notin {"saveLoad", "save"} /\ UNCHANGED <<state, faults>> /\ UNCHANGED Effective(1)
      BY <1>15, <1>32, Bounds, FirstOverRecover DEF Recover
    <2>2. \E label : Goto(p, label) /\ label \notin {"checkSave", "save", "errSave", "saveLoad"}
      BY <1>15 DEF Recover, NextOption
    <2>3. \A q \in Procs \ {p} : /\ kind'[q] = kind[q] /\ ver'[q] = ver[q] /\ seen'[q] = seen[q]
                                        /\ target'[q] = target[q] /\ held'[q] = held[q]
      BY <1>15 DEF Recover, TypeOK
    <2> QED
      BY <1>33, <2>1, <2>2, <2>3, RecordElsewhere
  <1>16. ASSUME NEW p \in Procs, CheckFetch(p) PROVE RecordIsTrue'
    <2>1. p \in Procs /\ pc[p] \notin {"saveLoad", "save"} /\ UNCHANGED <<state, faults>> /\ UNCHANGED Effective(1)
      BY <1>16, <1>32, Bounds, FirstStays DEF CheckFetch
    <2>2. \E label : Goto(p, label) /\ label \notin {"checkSave", "save", "errSave", "saveLoad"}
      BY <1>16 DEF CheckFetch
    <2>3. \A q \in Procs \ {p} : /\ kind'[q] = kind[q] /\ ver'[q] = ver[q] /\ seen'[q] = seen[q]
                                        /\ target'[q] = target[q] /\ held'[q] = held[q]
      BY <1>16 DEF CheckFetch, TypeOK
    <2> QED
      BY <1>33, <2>1, <2>2, <2>3, RecordElsewhere
  <1>17. ASSUME NEW p \in Procs, Load(p) PROVE RecordIsTrue'
    <2>1. UNCHANGED <<state, kind, ver, seen, target, faults>> /\ held'[p] = state /\ UNCHANGED Effective(1)
      BY <1>17, <1>32, FirstStays DEF Load, TypeOK
    <2>2. PICK label : /\ Goto(p, label) /\ label \in {"checkSave", "save", "errSave"}
                       /\ label = "save" <=> pc[p] = "saveLoad"
                       /\ pc[p] \in {"checkLoad", "saveLoad", "errLoad"}
      BY <1>17 DEF Load
    <2>3. \A q \in Procs \ {p} : /\ kind'[q] = kind[q] /\ ver'[q] = ver[q] /\ seen'[q] = seen[q]
                                        /\ target'[q] = target[q] /\ held'[q] = held[q]
      BY <1>17, <2>1 DEF Load, TypeOK
    <2>4. pc'[p] = label /\ Available(p)' = Available(p)
      BY <2>1, <2>2 DEF Goto, TypeOK, Available, Newer
    <2>5. Recording(p) <=> Recording(p)'
      BY <2>1, <2>2, <2>4 DEF Recording
    <2>6. Recording(p) => Available(p) = Binaries /\ target[p] = Effective(1)
      BY <1>33, <2>1 DEF RecordIsTrue, RecordsWhatIsInstalled
    <2> QED
      BY <1>33, <2>1, <2>2, <2>3, <2>4, <2>5, <2>6, RecordKept
  <1>18. ASSUME NEW p \in Procs, CheckSave(p) PROVE RecordIsTrue'
    <2>1. UNCHANGED faults
      BY <1>18 DEF CheckSave
    <2> QED
      BY <1>33, <1>18, <2>1, RecordPassedOn
  <1>19. ASSUME NEW p \in Procs, Fetch(p) PROVE RecordIsTrue'
    <2>1. p \in Procs /\ pc[p] \notin {"saveLoad", "save"} /\ UNCHANGED <<state, faults>> /\ UNCHANGED Effective(1)
      BY <1>19, <1>32, Bounds, FirstStays DEF Fetch
    <2>2. \E label : Goto(p, label) /\ label \notin {"checkSave", "save", "errSave", "saveLoad"}
      BY <1>19 DEF Fetch
    <2>3. \A q \in Procs \ {p} : /\ kind'[q] = kind[q] /\ ver'[q] = ver[q] /\ seen'[q] = seen[q]
                                        /\ target'[q] = target[q] /\ held'[q] = held[q]
      BY <1>19 DEF Fetch, TypeOK
    <2> QED
      BY <1>33, <2>1, <2>2, <2>3, RecordElsewhere
  <1>20. ASSUME NEW p \in Procs, Install(p) PROVE RecordIsTrue'
    <2>1. p \in Procs /\ pc[p] \notin {"saveLoad", "save"} /\ UNCHANGED <<state, faults>> /\ UNCHANGED Effective(1)
      BY <1>20, <1>32, Bounds, FirstOverInstall DEF Install
    <2>2. \E label : Goto(p, label) /\ label \notin {"checkSave", "save", "errSave", "saveLoad"}
      BY <1>20 DEF Install, NextOption
    <2>3. \A q \in Procs \ {p} : /\ kind'[q] = kind[q] /\ ver'[q] = ver[q] /\ seen'[q] = seen[q]
                                        /\ target'[q] = target[q] /\ held'[q] = held[q]
      BY <1>20 DEF Install, TypeOK
    <2> QED
      BY <1>33, <2>1, <2>2, <2>3, RecordElsewhere
  <1>21. ASSUME NEW p \in Procs, DryInstall(p) PROVE RecordIsTrue'
    <2>1. /\ pc[p] = "install" /\ kind[p] = "dry" /\ Goto(p, "saveLoad")
          /\ UNCHANGED <<state, kind, ver, seen, target, held, faults>> /\ UNCHANGED Effective(1)
      BY <1>21, FirstStays DEF DryInstall
    <2>2. ~Recording(p) /\ ~(Recording(p)')
      BY <2>1 DEF Recording
    <2> QED
      BY <1>33, <2>1, <2>2, RecordKept
  <1>22. ASSUME NEW p \in Procs, Commit(p) PROVE RecordIsTrue'
    <2>1. UNCHANGED faults
      BY <1>22 DEF Commit
    <2> QED
      BY <1>33, <1>22, <2>1, RecordCommits
  <1>23. ASSUME NEW p \in Procs, Save(p) PROVE RecordIsTrue'
    <2>1. UNCHANGED faults
      BY <1>23 DEF Save
    <2> QED
      BY <1>33, <1>23, <2>1, RecordSaves
  <1>24. ASSUME NEW p \in Procs, ErrSave(p) PROVE RecordIsTrue'
    <2>1. UNCHANGED faults
      BY <1>24 DEF ErrSave
    <2> QED
      BY <1>33, <1>24, <2>1, RecordPassedOn
  <1>25. ASSUME NEW p \in Procs, ErrSaveFailed(p) PROVE RecordIsTrue'
    BY <1>25, <1>32 DEF ErrSaveFailed
  <1>26. ASSUME NEW p \in Procs, CheckFetchFailed(p) PROVE RecordIsTrue'
    BY <1>26, <1>32 DEF CheckFetchFailed
  <1>27. ASSUME NEW p \in Procs, StepFailed(p) PROVE RecordIsTrue'
    BY <1>27, <1>32 DEF StepFailed
  <1>28. ASSUME NEW p \in Procs, Kill(p) PROVE RecordIsTrue'
    BY <1>28, <1>32 DEF Kill
  <1>29. CASE UNCHANGED vars
    <2>1. UNCHANGED <<pc, kind, ver, seen, target, state, held, faults>> /\ UNCHANGED Effective(1)
      BY <1>29, FirstStays DEF vars
    <2> QED
      BY <1>33, <2>1, RecordStays
  <1> QED
    BY <1>1, <1>2, <1>3, <1>4, <1>5, <1>6, <1>7, <1>8, <1>9, <1>10, <1>11, <1>12, <1>13, <1>14,
       <1>15, <1>16, <1>17, <1>18, <1>19, <1>20, <1>21, <1>22, <1>23, <1>24, <1>25, <1>26,
       <1>27, <1>28, <1>29
       DEF Next, DaemonStep, RunStep, FaultStep

(* Only an install under way has left something to undo. *)
BackupsAreInstalls == \A b \in Binaries : undo[b] # NoBackup => \E p \in Procs : Installing(p)

(* Without failures it stays so: who is at an install ends it by the commit. *)
LEMMA BackupsEnd ==
    ASSUME TypeOK, UpdatesAreLocked, BackupsOK, faults = 0 => BackupsAreInstalls, [Next]_vars, faults' = 0
    PROVE  BackupsAreInstalls'
  <1> USE DEF disk, hooks, procs, bounds, history
  <1>31. faults \in Nat
    BY Bounds DEF TypeOK
  <1>32. ASSUME Fault PROVE FALSE
    BY <1>31, <1>32 DEF Fault
  <1>33. ASSUME UNCHANGED faults PROVE BackupsAreInstalls
    BY <1>33
  <1>34. ASSUME UNCHANGED faults, \A b \in Binaries : undo'[b] # NoBackup => undo[b] # NoBackup,
                \A q \in Procs : Installing(q) => Installing(q)'
         PROVE  BackupsAreInstalls'
    BY <1>33, <1>34 DEF BackupsAreInstalls
  <1>1. CASE Publish
    <2>1. UNCHANGED <<undo, faults, pc, kind>>
      BY <1>1 DEF Publish, installed
    <2> QED
      BY <1>34, <2>1 DEF Installing
  <1>2. CASE Reconfigure
    <2>1. UNCHANGED <<undo, faults, pc, kind>>
      BY <1>2 DEF Reconfigure, installed
    <2> QED
      BY <1>34, <2>1 DEF Installing
  <1>3. CASE Tick
    <2>1. UNCHANGED <<undo, faults, pc, kind>>
      BY <1>3 DEF Tick, installed
    <2> QED
      BY <1>34, <2>1 DEF Installing
  <1>4. CASE Arm
    <2>1. UNCHANGED <<undo, faults>>
      BY <1>4, <1>32 DEF Arm, installed
    <2>2. \A q \in Procs : Installing(q) => Installing(q)'
      BY <1>4, Bounds DEF Arm, Goto, TypeOK, Installing
    <2> QED
      BY <1>34, <2>1, <2>2
  <1>5. CASE Fire
    <2>1. UNCHANGED <<undo, faults>>
      BY <1>5, <1>32 DEF Fire, installed
    <2>2. \A q \in Procs : Installing(q) => Installing(q)'
      BY <1>5, Bounds DEF Fire, Goto, TypeOK, Installing
    <2> QED
      BY <1>34, <2>1, <2>2
  <1>6. CASE RunScheduledUpdate
    <2>1. UNCHANGED <<undo, faults>>
      BY <1>6, <1>32 DEF RunScheduledUpdate, installed
    <2>2. \A q \in Procs : Installing(q) => Installing(q)'
      BY <1>6, Bounds DEF RunScheduledUpdate, Goto, TypeOK, Installing
    <2> QED
      BY <1>34, <2>1, <2>2
  <1>7. CASE StopForRelaunch
    <2>1. UNCHANGED <<undo, faults>>
      BY <1>7, <1>32 DEF StopForRelaunch, installed
    <2>2. \A q \in Procs : Installing(q) => Installing(q)'
      BY <1>7, Bounds DEF StopForRelaunch, Goto, TypeOK, Installing
    <2> QED
      BY <1>34, <2>1, <2>2
  <1>8. CASE LoopAgain
    <2>1. UNCHANGED <<undo, faults>>
      BY <1>8, <1>32 DEF LoopAgain, installed
    <2>2. \A q \in Procs : Installing(q) => Installing(q)'
      BY <1>8, Bounds DEF LoopAgain, Goto, TypeOK, Installing
    <2> QED
      BY <1>34, <2>1, <2>2
  <1>9. CASE Relaunch
    <2>1. UNCHANGED <<undo, faults>>
      BY <1>9, <1>32 DEF Relaunch, installed
    <2>2. \A q \in Procs : Installing(q) => Installing(q)'
      BY <1>9, Bounds DEF Relaunch, Goto, TypeOK, Installing
    <2> QED
      BY <1>34, <2>1, <2>2
  <1>10. CASE RelaunchFailed
    BY <1>10, <1>32 DEF RelaunchFailed
  <1>11. CASE Panic
    BY <1>11, <1>32 DEF Panic
  <1>12. ASSUME NEW c \in Commands, StartCommand(c) PROVE BackupsAreInstalls'
    <2>1. UNCHANGED <<undo, faults>>
      BY <1>12, <1>32 DEF StartCommand, installed
    <2>2. \A q \in Procs : Installing(q) => Installing(q)'
      BY <1>12, Bounds DEF StartCommand, Goto, TypeOK, Installing
    <2> QED
      BY <1>34, <2>1, <2>2
  <1>13. ASSUME NEW p \in Procs, Acquire(p) PROVE BackupsAreInstalls'
    <2>1. UNCHANGED <<undo, faults>>
      BY <1>13, <1>32 DEF Acquire, installed
    <2>2. \A q \in Procs : Installing(q) => Installing(q)'
      BY <1>13, Bounds DEF Acquire, Goto, TypeOK, Installing
    <2> QED
      BY <1>34, <2>1, <2>2
  <1>14. ASSUME NEW p \in Procs, Busy(p) PROVE BackupsAreInstalls'
    <2>1. UNCHANGED <<undo, faults>>
      BY <1>14, <1>32 DEF Busy, installed
    <2>2. \A q \in Procs : Installing(q) => Installing(q)'
      BY <1>14, Bounds DEF Busy, Goto, TypeOK, Installing
    <2> QED
      BY <1>34, <2>1, <2>2
  <1>15. ASSUME NEW p \in Procs, Recover(p) PROVE BackupsAreInstalls'
    <2>1. undo' = [undo EXCEPT ![idx[p]] = NoBackup] /\ UNCHANGED <<kind, faults>>
      BY <1>15 DEF Recover
    <2>2. pc[p] = "recover" /\ \A q \in Procs \ {p} : pc'[q] = pc[q]
      BY <1>15 DEF Recover, NextOption, Goto, TypeOK
    <2>3. \A q \in Procs : Installing(q) => Installing(q)'
      BY <2>1, <2>2 DEF Installing
    <2>4. \A b \in Binaries : undo'[b] # NoBackup => undo[b] # NoBackup
      BY <2>1 DEF TypeOK
    <2> QED
      BY <1>34, <2>1, <2>3, <2>4
  <1>16. ASSUME NEW p \in Procs, CheckFetch(p) PROVE BackupsAreInstalls'
    <2>1. UNCHANGED <<undo, faults>>
      BY <1>16, <1>32 DEF CheckFetch, installed
    <2>2. \A q \in Procs : Installing(q) => Installing(q)'
      BY <1>16, Bounds DEF CheckFetch, Goto, TypeOK, Installing
    <2> QED
      BY <1>34, <2>1, <2>2
  <1>17. ASSUME NEW p \in Procs, Load(p) PROVE BackupsAreInstalls'
    <2>1. UNCHANGED <<undo, faults>>
      BY <1>17, <1>32 DEF Load, installed
    <2>2. \A q \in Procs : Installing(q) => Installing(q)'
      BY <1>17, Bounds DEF Load, Goto, TypeOK, Installing
    <2> QED
      BY <1>34, <2>1, <2>2
  <1>18. ASSUME NEW p \in Procs, CheckSave(p) PROVE BackupsAreInstalls'
    <2>1. UNCHANGED <<undo, faults>>
      BY <1>18, <1>32 DEF CheckSave, installed
    <2>2. \A q \in Procs : Installing(q) => Installing(q)'
      BY <1>18, Bounds DEF CheckSave, Goto, TypeOK, Installing
    <2> QED
      BY <1>34, <2>1, <2>2
  <1>19. ASSUME NEW p \in Procs, Fetch(p) PROVE BackupsAreInstalls'
    <2>1. UNCHANGED <<undo, faults>>
      BY <1>19, <1>32 DEF Fetch, installed
    <2>2. \A q \in Procs : Installing(q) => Installing(q)'
      BY <1>19, Bounds DEF Fetch, Goto, TypeOK, Installing
    <2> QED
      BY <1>34, <2>1, <2>2
  <1>20. ASSUME NEW p \in Procs, Install(p) PROVE BackupsAreInstalls'
    <2>1. pc'[p] \in {"install", "commit"} /\ kind'[p] = "apply"
      BY <1>20 DEF Install, NextOption, Goto, TypeOK
    <2> QED
      BY <2>1 DEF BackupsAreInstalls, Installing
  <1>21. ASSUME NEW p \in Procs, DryInstall(p) PROVE BackupsAreInstalls'
    <2>1. UNCHANGED <<undo, faults>>
      BY <1>21, <1>32 DEF DryInstall, installed
    <2>2. \A q \in Procs : Installing(q) => Installing(q)'
      BY <1>21, Bounds DEF DryInstall, Goto, TypeOK, Installing
    <2> QED
      BY <1>34, <2>1, <2>2
  <1>22. ASSUME NEW p \in Procs, Commit(p) PROVE BackupsAreInstalls'
    <2>1. kind[p] = "apply"
      BY <1>22 DEF Commit, BackupsOK, BackupsOf
    <2>2. \A b \in Binaries : undo'[b] = NoBackup
      BY <1>22, <2>1, KeptAtCommit
    <2> QED
      BY <2>2 DEF BackupsAreInstalls
  <1>23. ASSUME NEW p \in Procs, Save(p) PROVE BackupsAreInstalls'
    <2>1. UNCHANGED <<undo, faults>>
      BY <1>23, <1>32 DEF Save, installed
    <2>2. \A q \in Procs : Installing(q) => Installing(q)'
      BY <1>23, Bounds DEF Save, Goto, TypeOK, Installing
    <2> QED
      BY <1>34, <2>1, <2>2
  <1>24. ASSUME NEW p \in Procs, ErrSave(p) PROVE BackupsAreInstalls'
    <2>1. UNCHANGED <<undo, faults>>
      BY <1>24, <1>32 DEF ErrSave, installed
    <2>2. \A q \in Procs : Installing(q) => Installing(q)'
      BY <1>24, Bounds DEF ErrSave, Goto, TypeOK, Installing
    <2> QED
      BY <1>34, <2>1, <2>2
  <1>25. ASSUME NEW p \in Procs, ErrSaveFailed(p) PROVE BackupsAreInstalls'
    BY <1>25, <1>32 DEF ErrSaveFailed
  <1>26. ASSUME NEW p \in Procs, CheckFetchFailed(p) PROVE BackupsAreInstalls'
    BY <1>26, <1>32 DEF CheckFetchFailed
  <1>27. ASSUME NEW p \in Procs, StepFailed(p) PROVE BackupsAreInstalls'
    BY <1>27, <1>32 DEF StepFailed
  <1>28. ASSUME NEW p \in Procs, Kill(p) PROVE BackupsAreInstalls'
    BY <1>28, <1>32 DEF Kill
  <1>29. CASE UNCHANGED vars
    <2>1. UNCHANGED <<undo, faults, pc, kind>>
      BY <1>29 DEF vars, installed
    <2> QED
      BY <1>34, <2>1 DEF Installing
  <1> QED
    BY <1>1, <1>2, <1>3, <1>4, <1>5, <1>6, <1>7, <1>8, <1>9, <1>10, <1>11, <1>12, <1>13, <1>14,
       <1>15, <1>16, <1>17, <1>18, <1>19, <1>20, <1>21, <1>22, <1>23, <1>24, <1>25, <1>26,
       <1>27, <1>28, <1>29
       DEF Next, DaemonStep, RunStep, FaultStep

(* As long as nothing fails, the file names the last installed tag whenever nobody is at work, if  *)
(* no tag is recorded while another process has read the file and not written it back, and no      *)
(* release comes between two look-ups of one update.  The first proviso is what Check and          *)
(* recordCheckError, which take no lock, do not see to; the second what applySet does not.         *)
THEOREM RecordedUnlessOverlapped ==
    Spec /\ [][state'.applied # state.applied => NobodyHoldsCopy']_vars
         /\ [][latest' # latest => \A p \in Procs : ~BetweenLookUps(p)]_vars
      => []AppliedIsLast
  <1>1. Init => SeenAlike /\ (faults = 0 => RecordIsTrue) /\ (faults = 0 => BackupsAreInstalls)
    <2>1. ASSUME Init PROVE BackupsAreInstalls
      BY <2>1 DEF Init, BackupsAreInstalls
    <2>2. ASSUME Init PROVE SeenAlike
      BY <2>2 DEF Init, SeenAlike, Alike, Checking
    <2>3. ASSUME Init PROVE RecordIsTrue
      <3>1. \A p \in Procs : pc[p] \in {"arm", "idle"}
        BY <2>3 DEF Init
      <3>2. state.applied = Effective(1)
        BY <2>3, Bounds DEF Init, NoState, Effective
      <3>3. CopiesAgree
        BY <3>1 DEF CopiesAgree, HoldsCopy
      <3>4. InstalledIsRecorded
        BY <3>2 DEF InstalledIsRecorded
      <3>5. RecordsWhatIsInstalled
        BY <3>1 DEF RecordsWhatIsInstalled, Recording
      <3> QED
        BY <3>3, <3>4, <3>5 DEF RecordIsTrue
    <2> QED
      BY <2>1, <2>2, <2>3
  <1>2. ASSUME TypeOK, UpdatesAreLocked, BackupsOK, faults = 0 => BackupsAreInstalls, [Next]_vars
        PROVE  (faults = 0 => BackupsAreInstalls)'
    BY <1>2, BackupsEnd
  <1>3. ASSUME TypeOK, FirstOptionFirst, UpdatesAreLocked, SeenAlike, [Next]_vars,
               [latest' # latest => \A p \in Procs : ~BetweenLookUps(p)]_vars
        PROVE  SeenAlike'
    <2>1. latest' # latest => \A p \in Procs : ~BetweenLookUps(p)
      BY <1>3 DEF vars, disk
    <2> QED
      BY <1>3, <2>1, AlikeStep
  <1>4. ASSUME TypeOK, UpdatesAreLocked, BackupsOK, SeenAlike, faults = 0 => RecordIsTrue, [Next]_vars,
               [state'.applied # state.applied => NobodyHoldsCopy']_vars
        PROVE  (faults = 0 => RecordIsTrue)'
    <2>1. state'.applied # state.applied => NobodyHoldsCopy'
      BY <1>4 DEF vars, disk
    <2> QED
      BY <1>4, <2>1, RecordStep
  <1>5. (faults = 0 => RecordIsTrue) /\ (faults = 0 => BackupsAreInstalls) => AppliedIsLast
    <2>1. ASSUME RecordIsTrue, BackupsAreInstalls, \A p \in Procs : ~Working(p) PROVE state.applied = bin[1]
      <3>1. \A p \in Procs : ~Installing(p) /\ ~Recording(p)
        BY <2>1 DEF Working, Installing, Recording
      <3>2. undo[1] = NoBackup
        BY <2>1, <3>1, Bounds DEF BackupsAreInstalls
      <3>3. Effective(1) = bin[1]
        BY <3>2 DEF Effective
      <3> QED
        BY <2>1, <3>1, <3>3 DEF RecordIsTrue, InstalledIsRecorded
    <2> QED
      BY <2>1 DEF AppliedIsLast
  <1>6. SafetyInv => TypeOK /\ UpdatesAreLocked /\ FirstOptionFirst /\ BackupsOK
    BY DEF SafetyInv
  <1> QED
    BY <1>1, <1>2, <1>3, <1>4, <1>5, <1>6, SafetyInvariant, PTL DEF Spec
=============================================================================
