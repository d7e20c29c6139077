--------------------------- MODULE ProvisionLock ---------------------------
(***************************************************************************)
(* The lock that go-mk provision takes for one consumer directory: a       *)
(* directory made with mkdir, a pid file in it, and a contender that moves *)
(* the directory aside when the named process is gone.  Each process runs  *)
(* once, so its pid is alive from its start to its exit.  Every system     *)
(* call is a step: other processes run between any two of them.            *)
(***************************************************************************)
EXTENDS Naturals, FiniteSets

CONSTANTS
    Pids,      \* the processes
    Together,  \* bound: how many of them are alive at once
    MaxTries,  \* how many times a contender sleeps before its deadline
    MaxKills,  \* bound: how many processes are killed
    None,      \* no lock directory
    Nameless   \* a lock directory without a readable pid file

ASSUME LockAssumption ==
    /\ IsFiniteSet(Pids) /\ Together \in Nat /\ MaxTries \in Nat
    /\ MaxKills \in Nat
    /\ None \notin Pids /\ Nameless \notin Pids /\ None # Nameless

VARIABLES
    dir,      \* the lock directory: None, Nameless or the pid it names
    pc,       \* where each process is
    saw,      \* the pid each contender has read
    tries,    \* the sleeps each contender has left
    outcome,  \* how each process came out of acquireProvisionLock
    kills     \* processes killed so far

lockVars == <<dir, pc, saw, tries, outcome, kills>>

LockTypeOK ==
    /\ dir \in Pids \cup {None, Nameless}
    /\ pc \in [Pids -> {"unborn", "mkdir", "pid", "stat", "read", "signal", "break",
                        "sleep", "held", "unpid", "undir", "exited"}]
    /\ saw \in [Pids -> Pids \cup {None}]
    /\ tries \in [Pids -> 0..MaxTries]
    /\ outcome \in [Pids -> {"none", "held", "setup", "deadline"}]
    /\ kills \in 0..MaxKills

LockInit ==
    /\ dir = None
    /\ pc = [p \in Pids |-> "unborn"]
    /\ saw = [p \in Pids |-> None]
    /\ tries = [p \in Pids |-> MaxTries]
    /\ outcome = [p \in Pids |-> "none"]
    /\ kills = 0

Alive(p) == pc[p] \notin {"unborn", "exited"}
Goto(p, label) == pc' = [pc EXCEPT ![p] = label]
Became(p, result) == outcome' = [outcome EXCEPT ![p] = result]
-----------------------------------------------------------------------------
Start(p) ==
    /\ pc[p] = "unborn" /\ Cardinality({q \in Pids : Alive(q)}) < Together
    /\ Goto(p, "mkdir")
    /\ UNCHANGED <<dir, saw, tries, outcome, kills>>

Mkdir(p) ==
    /\ pc[p] = "mkdir"
    /\ \/ dir = None /\ dir' = Nameless /\ Goto(p, "pid")
       \/ dir # None /\ UNCHANGED dir /\ Goto(p, "stat")
    /\ UNCHANGED <<saw, tries, outcome, kills>>

\* the pid file goes into whatever directory has the name now; without one the
\* process removes the directory, whoever made it meanwhile, and gives up
WritePid(p) ==
    /\ pc[p] = "pid"
    /\ \/ dir # None /\ dir' = p /\ Goto(p, "held") /\ Became(p, "held")
       \/ dir = None /\ UNCHANGED dir /\ Goto(p, "unpid") /\ Became(p, "setup")
    /\ UNCHANGED <<saw, tries, kills>>

\* mkdir failed; no directory there now reads as a local setup problem
StatDir(p) ==
    /\ pc[p] = "stat"
    /\ \/ dir # None /\ Goto(p, "read") /\ UNCHANGED outcome
       \/ dir = None /\ Goto(p, "exited") /\ Became(p, "setup")
    /\ UNCHANGED <<dir, saw, tries, kills>>

ReadPid(p) ==
    /\ pc[p] = "read"
    /\ \/ /\ dir \in Pids
          /\ saw' = [saw EXCEPT ![p] = dir] /\ Goto(p, "signal")
       \/ dir \notin Pids /\ UNCHANGED saw /\ Goto(p, "sleep")
    /\ UNCHANGED <<dir, tries, outcome, kills>>

SignalIgnored(p) ==
    /\ pc[p] = "signal" /\ Goto(p, "break")
    /\ saw' = [saw EXCEPT ![p] = None]
    /\ UNCHANGED <<dir, tries, outcome, kills>>

Signal(p) ==
    /\ pc[p] = "signal"
    /\ Goto(p, IF Alive(saw[p]) THEN "sleep" ELSE "break")
    /\ saw' = [saw EXCEPT ![p] = None]
    /\ UNCHANGED <<dir, tries, outcome, kills>>

\* the rename moves aside whatever directory has the name now
Break(p) ==
    /\ pc[p] = "break"
    /\ \/ dir # None /\ dir' = None /\ Goto(p, "mkdir")
       \/ dir = None /\ UNCHANGED dir /\ Goto(p, "sleep")
    /\ UNCHANGED <<saw, tries, outcome, kills>>

SleepForever(p) ==
    /\ pc[p] = "sleep" /\ Goto(p, "mkdir")
    /\ UNCHANGED <<dir, saw, tries, outcome, kills>>

Sleep(p) ==
    /\ pc[p] = "sleep"
    /\ \/ /\ tries[p] > 0 /\ tries' = [tries EXCEPT ![p] = @ - 1]
          /\ Goto(p, "mkdir") /\ UNCHANGED outcome
       \/ /\ tries[p] = 0 /\ Goto(p, "exited") /\ Became(p, "deadline")
          /\ UNCHANGED tries
    /\ UNCHANGED <<dir, saw, kills>>

\* the holder returns: RemoveAll empties the directory that has the name now
Leave(p) ==
    /\ pc[p] = "held" /\ Goto(p, "unpid")
    /\ UNCHANGED <<dir, saw, tries, outcome, kills>>

RemovePid(p) ==
    /\ pc[p] = "unpid"
    /\ dir' = IF dir \in Pids THEN Nameless ELSE dir
    /\ Goto(p, "undir")
    /\ UNCHANGED <<saw, tries, outcome, kills>>

\* and removes it if it is still empty
RemoveDir(p) ==
    /\ pc[p] = "undir"
    /\ dir' = IF dir = Nameless THEN None ELSE dir
    /\ Goto(p, "exited")
    /\ UNCHANGED <<saw, tries, outcome, kills>>

Kill(p) ==
    /\ Alive(p) /\ kills < MaxKills
    /\ kills' = kills + 1 /\ Goto(p, "exited")
    /\ saw' = [saw EXCEPT ![p] = None]
    /\ UNCHANGED <<dir, tries, outcome>>

\* what a contender, a holder that is done and a process that gives up do
LockStep(p) ==
    \/ Mkdir(p) \/ WritePid(p) \/ StatDir(p) \/ ReadPid(p) \/ Signal(p) \/ Break(p)
    \/ Sleep(p) \/ RemovePid(p) \/ RemoveDir(p)

-----------------------------------------------------------------------------
(* Properties. *)

\* The lock directory names the process that holds the lock, so that there is
\* one holder and a contender can tell whether it lives (acquireProvisionLock,
\* staleProvisionLock).
LockNamesHolder == \A p \in Pids : pc[p] = "held" => dir = p

\* Two processes never hold the lock together.  Of two that is true; of three
\* it is not: between Signal and Break another process may take the lock.
MutualExclusion ==
    \A p, q \in Pids : pc[p] = "held" /\ pc[q] = "held" => p = q

\* Every process that starts ends, with the lock or without it, also when a
\* killed process left a lock directory that names nobody.
EveryoneEnds == \A p \in Pids : Alive(p) ~> pc[p] = "exited"
=============================================================================
