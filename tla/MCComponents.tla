---------------------------- MODULE MCComponents ----------------------------
(* Small instances of the components that share no state with one another:  *)
(* a behaviour is one of exactly one of them, chosen at its start.          *)
EXTENDS MCBuildReuse, UserService, Release, CI, BuildGate, Bootstrap, Scaffold

\* A repository without any of the files, for the behaviours that are not about them.
NothingThere == makefile.form = "absent" /\ {release, ci_file} = {NoWorkflow}

VARIABLE part \* the component of this behaviour

Parts == {"reuse", "service", "release", "ci", "build gate", "bootstrap", "scaffold"}
allVars == <<part, vars, serviceVars, releaseVars, ciVars,
             gateVars, bootVars, scaffoldVars>>

ComponentsInit ==
    /\ part \in Parts
    /\ Init /\ source = fine
    /\ ServiceInit /\ ReleaseInit /\ CIInit
    /\ GateInit /\ BootInit
    /\ ScaffoldInit /\ main_command = "app" /\ makefile.binary # "tool" /\ (part = "scaffold" \/ NothingThere)

Rests(name, itsVars) == part = name \/ UNCHANGED itsVars
OthersRest ==
    /\ UNCHANGED part
    /\ Rests("reuse", vars) /\ Rests("service", serviceVars) /\ Rests("release", releaseVars)
    /\ Rests("ci", ciVars)
    /\ Rests("build gate", gateVars) /\ Rests("bootstrap", bootVars)
    /\ Rests("scaffold", scaffoldVars)

ComponentsNext ==
    /\ OthersRest
    /\ \/ part = "reuse" /\ Next
       \/ part = "service" /\ ServiceNext
       \/ part = "release" /\ ReleaseNext
       \/ part = "ci" /\ CINext
       \/ part = "build gate" /\ GateNext
       \/ part = "bootstrap" /\ BootNext
       \/ part = "scaffold" /\ ScaffoldNext

ComponentsSpec == ComponentsInit /\ [][ComponentsNext]_allVars

-----------------------------------------------------------------------------
(* The instances. *)
MCFilter == [b \in {"app", "tool"} |-> IF b = "tool" THEN {"darwin"} ELSE {}]

MCDirOf == [j \in {"release", "release too", "ci"} |-> "root"]
OwnJob(w, c, b, g) == [with |-> w, cgo |-> c, binary |-> b, grants |-> g]
MCOwnJobs == {OwnJob("block", "true", NoName, "short"), OwnJob("block", "expression", "app", "own form"),
              OwnJob("inline", "true", "tool", "full")}
=============================================================================
