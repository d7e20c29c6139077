---------------------------- MODULE UserService ----------------------------
(***************************************************************************)
(* go-mk selfupdate install-service: InstallSystemdUserService and         *)
(* InstallLaunchdService against the manager that runs the service.  Each  *)
(* call renders a definition (unit or plist), renames it into place unless *)
(* the file already is that and the service runs, and has the manager take *)
(* it over.  The calls of one user may overlap, and any command may fail.  *)
(***************************************************************************)
EXTENDS Naturals, FiniteSets

CONSTANTS
    ServiceCalls, \* calls of install-service
    Definitions,  \* the units or plists a call may render
    MaxFailures   \* bound: commands that fail, calls killed, crashes of the service

ASSUME ServiceAssumption == IsFiniteSet(ServiceCalls) /\ MaxFailures \in Nat

NoUnit == "none"
Managers == {"systemd", "launchd"}
Called == {"begun", "same", "written", "renamed", "reloaded", "enabled", "bootedOut"}
MidWay == Called \ {"begun", "same", "written"}

VARIABLES
    manager,  \* which of the two, fixed by the first call's platform
    unit,     \* the definition in the unit or plist file
    loaded,   \* the definition the manager has read
    running,  \* the definition the running service was started from
    at_call,  \* where each call is
    wanted,   \* the definition it rendered
    intact,   \* history: the calls since whose rename nothing has failed
    unsettled,\* history: a call ended between its rename and its end, and none has repaired it
    failures  \* how many failures there were

serviceVars == <<manager, unit, loaded, running, at_call, wanted, intact, unsettled, failures>>

ServiceTypeOK ==
    /\ manager \in Managers \cup {NoUnit}
    /\ {unit, loaded, running} \subseteq Definitions \cup {NoUnit}
    /\ at_call \in [ServiceCalls -> Called \cup {"idle", "unchanged", "done", "error"}]
    /\ wanted \in [ServiceCalls -> Definitions \cup {NoUnit}]
    /\ intact \subseteq ServiceCalls /\ unsettled \in BOOLEAN /\ failures \in 0..MaxFailures

ServiceInit ==
    /\ manager = NoUnit /\ unit = NoUnit /\ loaded = NoUnit /\ running = NoUnit
    /\ at_call = [c \in ServiceCalls |-> "idle"] /\ wanted = [c \in ServiceCalls |-> NoUnit]
    /\ intact = {} /\ unsettled = FALSE /\ failures = 0

\* is-active, and launchctl print, which asks whether the service is loaded.
Up == IF manager = "launchd" THEN loaded # NoUnit ELSE running # NoUnit

Move(c, from, to) == at_call[c] = from /\ at_call' = [at_call EXCEPT ![c] = to]
ServiceFault == failures < MaxFailures /\ failures' = failures + 1

\* runSelfUpdateInstallServiceCommand: the platform's installer, with the options it renders.
BeginService(c) ==
    /\ Move(c, "idle", "begun")
    /\ IF manager = NoUnit THEN manager' \in Managers ELSE UNCHANGED manager
    /\ \E d \in Definitions : wanted' = [wanted EXCEPT ![c] = d]
    /\ UNCHANGED <<unit, loaded, running, intact, unsettled, failures>>

\* serviceFilesEqual; only for the same file the manager is asked.
CompareUnit(c) ==
    /\ Move(c, "begun", IF unit = wanted[c] THEN "same" ELSE "written")
    /\ UNCHANGED <<manager, unit, loaded, running, wanted, intact, unsettled, failures>>

\* systemctl is-active or launchctl print ends the call, unless it fails.
AskManager(c) ==
    /\ \/ Up /\ Move(c, "same", "unchanged") /\ UNCHANGED failures
       \/ Move(c, "same", "written") /\ (IF Up THEN ServiceFault ELSE UNCHANGED failures)
    /\ UNCHANGED <<manager, unit, loaded, running, wanted, intact, unsettled>>

RenameUnit(c) ==
    /\ Move(c, "written", "renamed")
    /\ unit' = wanted[c]
    /\ intact' = intact \cup {c}
    /\ UNCHANGED <<manager, loaded, running, wanted, unsettled, failures>>

DaemonReload(c) ==
    /\ manager = "systemd" /\ Move(c, "renamed", "reloaded")
    /\ loaded' = unit
    /\ UNCHANGED <<manager, unit, running, wanted, intact, unsettled, failures>>

EnableUnit(c) ==
    /\ Move(c, "reloaded", "enabled")
    /\ UNCHANGED <<manager, unit, loaded, running, wanted, intact, unsettled, failures>>

\* A call that ends well repairs what failed before its rename.
Settled(c) == unsettled' = (unsettled /\ c \notin intact)

StartOnly(c) ==
    /\ Move(c, "enabled", "done")
    /\ running' = IF running = NoUnit THEN loaded ELSE running
    /\ Settled(c)
    /\ UNCHANGED <<manager, unit, loaded, wanted, intact, failures>>

Restart(c) ==
    /\ Move(c, "enabled", "done")
    /\ running' = loaded
    /\ Settled(c)
    /\ UNCHANGED <<manager, unit, loaded, wanted, intact, failures>>

\* launchctl bootout; that it fails is ignored, and the service may then still be loaded.
BootOut(c) ==
    /\ manager = "launchd" /\ Move(c, "renamed", "bootedOut")
    /\ \/ loaded' = NoUnit /\ running' = NoUnit /\ UNCHANGED failures
       \/ ServiceFault /\ UNCHANGED <<loaded, running>>
    /\ UNCHANGED <<manager, unit, wanted, intact, unsettled>>

\* launchctl bootstrap reads and starts the plist; it refuses a service that is loaded.
Bootstrap(c) ==
    /\ loaded = NoUnit /\ Move(c, "bootedOut", "done")
    /\ loaded' = unit /\ running' = unit
    /\ Settled(c)
    /\ UNCHANGED <<manager, unit, wanted, intact, failures>>

EndsBadly(c) ==
    /\ at_call' = [at_call EXCEPT ![c] = "error"]
    /\ unsettled' = (unsettled \/ at_call[c] \in MidWay)
    /\ intact' = IF at_call[c] \in MidWay THEN {} ELSE intact

BootstrapRefused(c) ==
    /\ at_call[c] = "bootedOut" /\ loaded # NoUnit
    /\ EndsBadly(c)
    /\ UNCHANGED <<manager, unit, loaded, running, wanted, failures>>

\* The next command fails without effect, or the call is killed before it.
CallFails(c) ==
    /\ at_call[c] \in Called /\ ServiceFault
    /\ EndsBadly(c)
    /\ UNCHANGED <<manager, unit, loaded, running, wanted>>

\* The service dies: systemd's Restart=always and launchd's KeepAlive start what is loaded.
ServiceDies ==
    /\ running # NoUnit /\ ServiceFault
    /\ running' \in {loaded, NoUnit}
    /\ UNCHANGED <<manager, unit, loaded, at_call, wanted, intact, unsettled>>

ServiceNext ==
    \/ \E c \in ServiceCalls :
        \/ BeginService(c) \/ CompareUnit(c) \/ AskManager(c) \/ RenameUnit(c) \/ DaemonReload(c)
        \/ EnableUnit(c) \/ Restart(c) \/ BootOut(c) \/ Bootstrap(c) \/ BootstrapRefused(c) \/ CallFails(c)
    \/ ServiceDies

ServiceSpec == ServiceInit /\ [][ServiceNext]_serviceVars

(* An install that is skipped as "unchanged" is right to be: once every call has ended, and    *)
(* none failed between its rename and its end without a later whole install, the service that  *)
(* runs was started from the definition in the file, whichever calls overlapped.               *)
QuietServiceIsCurrent ==
    (~unsettled /\ \A c \in ServiceCalls : at_call[c] \notin MidWay) =>
        running \in {unit, NoUnit} /\ loaded \in {unit, NoUnit}
=============================================================================
