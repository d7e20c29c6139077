----------------------------- MODULE Bootstrap -----------------------------
(***************************************************************************)
(* How a make process of one checkout obtains the go-mk engine in          *)
(* .make/go-mk: bootstrap.mk gets the helper script, the helper an engine  *)
(* that it executes as "provision"; a target's go-mk-bin.sh gets one and   *)
(* executes it as "resolve-bin", which installs once more; smoke-fetch     *)
(* starts .make over.  A checkout may come with what earlier versions or   *)
(* interrupted runs left, and with a link to a binary that other checkouts *)
(* share and replace.  Several makes run side by side, and any may die.    *)
(***************************************************************************)
EXTENDS Naturals, FiniteSets

CONSTANTS
    Makes,   \* make processes
    MaxCrash \* bound: processes that die, builds and fetches that fail

ASSUME BootstrapAssumption == IsFiniteSet(Makes) /\ MaxCrash \in Nat

Binaries == {"absent", "partial", "withoutProvision", "whole"}
EngineFiles == [binary : Binaries, link : BOOLEAN]  \* a link: binary is then that of shared
Own == [binary |-> "whole", link |-> FALSE]
NoEngine == [binary |-> "absent", link |-> FALSE]

VARIABLES
    helper,   \* .make/scripts/go-mk-bootstrap.sh: absent, empty or whole
    engine_file, \* .make/go-mk
    shared,   \* the binary a link resolves to
    settings, \* GO_MK_DEV_DIR or GO_MK_BUILD_REPO is set; _GO_MK_PROVISIONED is 1
    at_make,  \* where each process is
    executed, \* history: the engine file it executed
    crashes

bootVars == <<helper, engine_file, shared, settings, at_make, executed, crashes>>

BootTypeOK ==
    /\ helper \in {"unknown", "absent", "empty", "whole"} /\ engine_file \in EngineFiles
    /\ shared \in Binaries /\ settings \in [dev : BOOLEAN, provisioned : BOOLEAN]
    /\ at_make \in [Makes -> {"idle", "helper", "bash", "engine", "exec", "target", "resolve",
                               "build", "install", "smoke", "unprovisioned", "ok", "error"}]
    /\ executed \in [Makes -> EngineFiles] /\ crashes \in 0..MaxCrash

BootInit ==
    /\ helper = "unknown" /\ engine_file = NoEngine /\ shared = "absent"
    /\ settings = [dev |-> FALSE, provisioned |-> FALSE]
    /\ at_make = [m \in Makes |-> "idle"] /\ executed = [m \in Makes |-> NoEngine] /\ crashes = 0

\* What the checkout comes with.
Inherit ==
    /\ helper = "unknown"
    /\ helper' \in {"absent", "empty", "whole"}
    /\ shared' \in Binaries \ {"partial"}
    /\ \/ engine_file' \in [binary : Binaries, link : {FALSE}]
       \/ shared' # "absent" /\ engine_file' = [binary |-> shared', link |-> TRUE]
    /\ settings' \in [dev : BOOLEAN, provisioned : BOOLEAN]
    /\ UNCHANGED <<at_make, executed, crashes>>

\* Another checkout replaces the binary that earlier versions shared.
OtherCheckout ==
    /\ shared # "absent"
    /\ shared' \in {"withoutProvision", "whole"} \ {shared}
    /\ engine_file' = IF engine_file.link THEN [engine_file EXCEPT !.binary = shared'] ELSE engine_file
    /\ UNCHANGED <<helper, settings, at_make, executed, crashes>>

GoOn(m, from, to) == at_make[m] = from /\ at_make' = [at_make EXCEPT ![m] = to]
Crash == crashes < MaxCrash /\ crashes' = crashes + 1

-----------------------------------------------------------------------------
(* bootstrap.mk and the helper. *)

BeginParse(m) ==
    /\ helper # "unknown" /\ GoOn(m, "idle", "helper")
    /\ UNCHANGED <<helper, engine_file, shared, settings, executed, crashes>>

\* A non-empty helper is kept; any other is copied or fetched, and renamed into place.
GetHelper(m) ==
    /\ \/ ~settings.provisioned /\ (settings.dev \/ helper # "whole") /\ helper' = "whole"
       \/ helper = "whole" /\ (~settings.dev \/ settings.provisioned) /\ UNCHANGED helper
    /\ GoOn(m, "helper", "bash")
    /\ UNCHANGED <<engine_file, shared, settings, executed, crashes>>

\* With _GO_MK_PROVISIONED a helper that is not there stops the parse; a copy or a fetch that
\* fails does not: its status is dropped, and what was there is run.
HelperFails(m) ==
    /\ \/ /\ settings.provisioned /\ helper # "whole" /\ UNCHANGED crashes
          /\ GoOn(m, "helper", "error")
       \/ /\ ~settings.provisioned /\ (settings.dev \/ helper # "whole") /\ Crash
          /\ GoOn(m, "helper", "bash")
    /\ UNCHANGED <<helper, engine_file, shared, settings, executed>>

\* bash runs an empty script to its end and reports success; one that is not there stops the parse.
RunHelper(m) ==
    /\ GoOn(m, "bash", CASE helper = "whole"  -> "engine"
                        [] helper = "empty"  -> "unprovisioned"
                        [] helper = "absent" -> "error")
    /\ UNCHANGED <<helper, engine_file, shared, settings, executed, crashes>>

Provides(file) == file.binary = "whole"
ReusableLinked(file) == Provides(file)
Reusable(file) == ~file.link /\ Provides(file)

\* obtain_go_mk: a development build, or an engine of this checkout that provides the command,
\* or an install.  A development build that fails is passed over.
ObtainEngine(m) ==
    /\ \/ settings.dev /\ GoOn(m, "engine", "build") /\ UNCHANGED crashes
       \/ /\ GoOn(m, "engine", IF Reusable(engine_file) THEN "exec" ELSE "build")
          /\ IF settings.dev THEN Crash ELSE UNCHANGED crashes
    /\ UNCHANGED <<helper, engine_file, shared, settings, executed>>

\* The build or install is renamed over what is there.  Every revision that can be built or
\* installed now provides the commands.
PutEngine(m) ==
    /\ GoOn(m, "build", "exec")
    /\ engine_file' = Own
    /\ UNCHANGED <<helper, shared, settings, executed, crashes>>

\* provision fetches the helper with the other assets and renames it into place, or fails.
ExecProvision(m) ==
    /\ executed' = [executed EXCEPT ![m] = engine_file]
    /\ \/ GoOn(m, "exec", "ok") /\ Provides(engine_file) /\ UNCHANGED crashes
          /\ helper' \in {helper, "whole"}
       \/ GoOn(m, "exec", "error") /\ ~Provides(engine_file) /\ UNCHANGED <<helper, crashes>>
       \/ GoOn(m, "exec", "error") /\ Crash /\ UNCHANGED helper
    /\ UNCHANGED <<engine_file, shared, settings>>

-----------------------------------------------------------------------------
(* go-mk-bin.sh, and the resolve-bin command it executes. *)

\* The parse is over, and the process goes on to a target.
Parsed(m) == at_make[m] \in {"ok", "unprovisioned"}

BeginTarget(m) ==
    /\ Parsed(m) /\ at_make' = [at_make EXCEPT ![m] = "target"]
    /\ executed' = [executed EXCEPT ![m] = NoEngine]
    /\ UNCHANGED <<helper, engine_file, shared, settings, crashes>>

TargetEngine(m) ==
    /\ engine_file' = IF ~settings.dev /\ Reusable(engine_file) THEN engine_file ELSE Own
    /\ GoOn(m, "target", "resolve")
    /\ UNCHANGED <<helper, shared, settings, executed, crashes>>

\* resolveEngineBinary: with GO_MK_BIN, this process's own, only that binary is looked at.  A
\* development build stays as it is where its repository is gone, and where it is this checkout's
\* own and no source is newer.  Any other engine is built or installed again.
ResolveBin(m) ==
    /\ executed' = [executed EXCEPT ![m] = engine_file]
    /\ IF ~Provides(engine_file)
       THEN GoOn(m, "resolve", "error")
       ELSE \E go_mk_bin \in {"unset", "usable", "unusable"}, repo \in {"absent", "older", "newer"} :
               GoOn(m, "resolve",
                    CASE go_mk_bin = "usable" -> "ok"
                      [] go_mk_bin = "unusable" -> "error"
                      [] go_mk_bin = "unset" ->
                            IF settings.dev /\ (repo = "absent" \/ (repo = "older" /\ Reusable(engine_file)))
                            THEN "ok" ELSE "install")
    /\ UNCHANGED <<helper, engine_file, shared, settings, crashes>>

InstallEngine(m) ==
    /\ GoOn(m, "install", "ok")
    /\ engine_file' = Own
    /\ UNCHANGED <<helper, shared, settings, executed, crashes>>

-----------------------------------------------------------------------------
(* smoke-fetch, which nothing else runs beside: it copies the engine, removes .make, copies the  *)
(* engine back and executes it.                                                                  *)
Alone(m) == \A n \in Makes \ {m} : Parsed(n) \/ at_make[n] \in {"idle", "error"}

BeginSmoke(m) ==
    /\ Alone(m) /\ engine_file.binary # "absent"
    /\ GoOn(m, "ok", "smoke")
    /\ engine_file' = [binary |-> "partial", link |-> FALSE] /\ helper' = "absent"
    /\ executed' = [executed EXCEPT ![m] = engine_file]
    /\ UNCHANGED <<shared, settings, crashes>>

SmokeCopied(m) ==
    /\ GoOn(m, "smoke", "exec")
    /\ engine_file' = [binary |-> executed[m].binary, link |-> FALSE]
    /\ UNCHANGED <<helper, shared, settings, executed, crashes>>

\* No build or fetch succeeds, or the process dies.
MakeFails(m) ==
    /\ ~Parsed(m) /\ at_make[m] \notin {"idle", "error"} /\ Crash
    /\ at_make' = [at_make EXCEPT ![m] = "error"]
    /\ UNCHANGED <<helper, engine_file, shared, settings, executed>>

\* The same process slot is used for the next make.
NextMake(m) ==
    /\ Parsed(m) \/ at_make[m] = "error"
    /\ at_make' = [at_make EXCEPT ![m] = "idle"]
    /\ executed' = [executed EXCEPT ![m] = NoEngine]
    /\ UNCHANGED <<helper, engine_file, shared, settings, crashes>>

BootNext ==
    \/ Inherit \/ OtherCheckout
    \/ \E m \in Makes :
        \/ BeginParse(m) \/ GetHelper(m) \/ HelperFails(m) \/ RunHelper(m) \/ ObtainEngine(m)
        \/ PutEngine(m) \/ ExecProvision(m) \/ BeginTarget(m) \/ TargetEngine(m) \/ ResolveBin(m)
        \/ InstallEngine(m) \/ BeginSmoke(m) \/ SmokeCopied(m) \/ MakeFails(m) \/ NextMake(m)

BootSpec == BootInit /\ [][BootNext]_bootVars

-----------------------------------------------------------------------------
(* An engine that a make process has run is whole, with the command it is asked for, and this    *)
(* checkout's own, whatever an earlier version, an interrupted run or another checkout left      *)
(* behind, and whichever processes replace the engine at once.                                   *)
EngineServesItsConsumer ==
    \A m \in Makes :
        at_make[m] \in {"ok", "install"} => executed[m] = Own

(* The parse goes on only when the helper could produce a usable engine, as the comment above     *)
(* bootstrap.mk's last error says.                                                               *)
ParsedWithEngine == \A m \in Makes : at_make[m] # "unprovisioned"
=============================================================================
