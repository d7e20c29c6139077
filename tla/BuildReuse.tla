---------------------------- MODULE BuildReuse ----------------------------
(***************************************************************************)
(* go-mk build, install and build-gate with build-output reuse: a run that *)
(* finds a stamp of its inputs, and every output as the stamp says, does   *)
(* nothing; any other run passes the gate, builds, installs and stamps.    *)
(* Each run is one process.  The tree, the outputs and the stamp file are  *)
(* shared by all of them, by an editor and by whoever else touches them,   *)
(* and nothing locks them.  Digests are modelled by what they digest: an   *)
(* output built right is worth the inputs it was built from, and the       *)
(* platform it was built for.                                              *)
(***************************************************************************)
EXTENDS Naturals, FiniteSets

CONSTANTS
    Runs,      \* the invocations of go-mk
    Together,  \* bound: how many of them are alive at once
    NumBins,   \* how many binaries INSTALL_BINS names
    Passes,    \* how many platforms GO_MK_PLATFORMS names: one build of all binaries for each
    Proof,     \* whether a CI proof may be at hand: {FALSE}, or {TRUE, FALSE}
    Modes,     \* the modes invoked, of "build", "install" and "build-gate"
    Contents,  \* what the source and config files may hold
    Good,      \* the contents that pass the gate
    Settings,  \* the exported settings and the engine
    MaxEdits,  \* bound: how often the sources are edited
    MaxMishaps \* bound: outputs replaced or removed, calls that fail, kills

ASSUME ReuseAssumption ==
    /\ Modes \subseteq {"build", "install", "build-gate"}
    /\ IsFiniteSet(Runs) /\ Together \in Nat /\ NumBins \in Nat \ {0}
    /\ Passes \in Nat \ {0} /\ Proof \subseteq BOOLEAN
    /\ Modes # {} /\ Settings # {} /\ Good \subseteq Contents /\ Good # {}
    /\ MaxEdits \in Nat /\ MaxMishaps \in Nat

Bins == 1..NumBins
Inputs == [src : Contents, set : Settings]
NoPrint == [src |-> "none", set |-> "none"]
Places == {"dist", "target"} \X Bins
Missing == [is |-> "missing"]
Torn == [is |-> "torn"]        \* half written, or not signed yet
Foreign == [is |-> "foreign"]  \* somebody else's file
Products == [src : Contents, set : Settings, platform : 1..Passes]
Digests == Products \cup {Torn, Foreign}

\* what the build for platform p makes of the inputs, and what the last of them leaves:
\* every platform's build writes the same file
Product(inputs, p) == [src |-> inputs.src, set |-> inputs.set, platform |-> p]
Made(inputs) == Product(inputs, Passes)

\* reuseOutputs
Outputs(m) ==
    (CASE m = "build-gate" -> {}
       [] m = "build" -> {"dist"}
       [] m = "install" -> {"dist", "target"}) \X Bins

Records == [inputs : Inputs \cup {NoPrint}, outs : UNION {[Outputs(m) -> Digests] : m \in Modes},
            left : {"undisturbed", "disturbed"}, gates : {"passed", "covered"}]
NoRecord == [inputs |-> "none"]
Files == [Modes -> Records \cup {NoRecord}]
NoRecords == [m \in Modes |-> NoRecord]  \* no file, or one that is not whole JSON
Views == [Places -> Digests \cup {Missing}]
Unseen == [o \in Places |-> Missing]

VARIABLES
    source,  \* what the sources hold
    out,     \* out[<<place, b>>]: the binary in dist or in its target directory
    file,    \* .make/go-mk-reuse.json: a record per mode
    pc,      \* where each run is
    mode,    \* its mode
    set,     \* its settings
    on,      \* the runs with GO_MK_REUSE_OUTPUTS on
    at,      \* the binary it builds or installs next
    pass,    \* the platform it builds for
    bad,     \* the runs that failed for a platform and go on with the next
    print,   \* the fingerprint it has computed
    rec,     \* the record it compares with or writes
    saw,     \* the digests of the outputs it has read so far
    held,    \* the stamp file it is about to write
    exempt,  \* history: runs whose gate a CI proof stood in for
    quiet,   \* history: runs past their gate, or comparing, with nobody else at sources or
             \* outputs since
    edits, mishaps

own == <<mode, set, on, at, pass, bad, print, rec, saw, held, exempt>>
data == <<own, quiet>>
bounds == <<edits, mishaps>>
vars == <<source, out, file, pc, data, bounds>>

TypeOK ==
    /\ source \in Contents /\ out \in Views
    /\ file \in Files
    /\ pc \in [Runs -> {"unborn", "look", "print", "compare", "gate", "build", "compile",
                        "failing", "install", "sudo", "stamp", "digest", "merge", "truncate", "write",
                        "reused", "passed", "failed", "killed"}]
    /\ mode \in [Runs -> Modes] /\ set \in [Runs -> Settings] /\ on \subseteq Runs
    /\ at \in [Runs -> Bins] /\ pass \in [Runs -> 1..Passes] /\ bad \subseteq Runs
    /\ saw \in [Runs -> Views] /\ exempt \subseteq Runs /\ print \in [Runs -> Inputs \cup {NoPrint}]
    /\ rec \in [Runs -> Records \cup {NoRecord}] /\ held \in [Runs -> Files]
    /\ quiet \subseteq Runs
    /\ edits \in 0..MaxEdits /\ mishaps \in 0..MaxMishaps

SomeMode == CHOOSE m \in Modes : TRUE
SomeSetting == CHOOSE s \in Settings : TRUE

Init ==
    /\ source \in Contents /\ out = Unseen /\ file = NoRecords
    /\ pc = [r \in Runs |-> "unborn"] /\ mode = [r \in Runs |-> SomeMode]
    /\ set = [r \in Runs |-> SomeSetting] /\ on = {}
    /\ at = [r \in Runs |-> 1] /\ pass = [r \in Runs |-> 1] /\ bad = {}
    /\ saw = [r \in Runs |-> Unseen] /\ exempt = {} /\ print = [r \in Runs |-> NoPrint]
    /\ rec = [r \in Runs |-> NoRecord] /\ held = [r \in Runs |-> NoRecords]
    /\ quiet = {}
    /\ edits = 0 /\ mishaps = 0

Alive(r) == pc[r] \notin {"unborn", "reused", "passed", "failed", "killed"}
Goto(r, label) == pc' = [pc EXCEPT ![r] = label]
Mishap == mishaps < MaxMishaps /\ mishaps' = mishaps + 1 /\ UNCHANGED edits
Now(r) == [src |-> source, set |-> set[r]]
Disturbed(who) == quiet' = quiet \cap who

\* the run is over: its memory is gone
End(r, how) ==
    /\ Goto(r, how)
    /\ mode' = [mode EXCEPT ![r] = SomeMode] /\ set' = [set EXCEPT ![r] = SomeSetting]
    /\ on' = on \ {r} /\ at' = [at EXCEPT ![r] = 1] /\ pass' = [pass EXCEPT ![r] = 1]
    /\ bad' = bad \ {r} /\ saw' = [saw EXCEPT ![r] = Unseen] /\ exempt' = exempt \ {r}
    /\ print' = [print EXCEPT ![r] = NoPrint] /\ rec' = [rec EXCEPT ![r] = NoRecord]
    /\ held' = [held EXCEPT ![r] = NoRecords] /\ quiet' = quiet \ {r}
-----------------------------------------------------------------------------
(* What goes on around the runs. *)

Edit ==
    /\ edits < MaxEdits /\ edits' = edits + 1
    /\ \E c \in Contents \ {source} : source' = c
    /\ Disturbed({})
    /\ UNCHANGED <<out, file, pc, own, mishaps>>

\* go-mk uninstall, clean-dist, or another program
Meddle ==
    /\ Mishap
    /\ \E o \in Places, d \in {Missing, Foreign} : out' = [out EXCEPT ![o] = d]
    /\ Disturbed({})
    /\ UNCHANGED <<source, file, pc, own>>

Begin(r) ==
    /\ pc[r] = "unborn" /\ Cardinality({q \in Runs : Alive(q)}) < Together
    /\ \E m \in Modes, s \in Settings :
         mode' = [mode EXCEPT ![r] = m] /\ set' = [set EXCEPT ![r] = s]
    /\ \/ on' = on \cup {r} /\ Goto(r, "look")
       \/ UNCHANGED on /\ Goto(r, "gate")
    /\ UNCHANGED <<source, out, file, at, pass, bad, print, rec, saw, held, exempt, quiet, bounds>>
-----------------------------------------------------------------------------
(* reuseSatisfied *)

Look(r) ==
    /\ pc[r] = "look"
    /\ rec' = [rec EXCEPT ![r] = file[mode[r]]]
    /\ Goto(r, IF file[mode[r]] = NoRecord THEN "gate" ELSE "print")
    /\ UNCHANGED <<source, out, file, mode, set, on, at, pass, bad, print, saw, held, exempt,
                   quiet, bounds>>

NoReuse(r) ==
    /\ Goto(r, "gate")
    /\ print' = [print EXCEPT ![r] = NoPrint] /\ rec' = [rec EXCEPT ![r] = NoRecord]
    /\ saw' = [saw EXCEPT ![r] = Unseen] /\ quiet' = quiet \ {r}
    /\ UNCHANGED <<mode, set, on, at, pass, bad, held, exempt>>

\* the fingerprint may fail too: an unreadable file, a package that does not load
Fingerprint(r) ==
    /\ pc[r] = "print"
    /\ \/ rec[r].inputs = Now(r) /\ Goto(r, "compare") /\ UNCHANGED bounds
          /\ print' = [print EXCEPT ![r] = Now(r)] /\ quiet' = quiet \cup {r}
          /\ UNCHANGED <<mode, set, on, at, pass, bad, rec, saw, held, exempt>>
       \/ rec[r].inputs # Now(r) /\ NoReuse(r) /\ UNCHANGED bounds
       \/ Mishap /\ NoReuse(r)
    /\ UNCHANGED <<source, out, file>>

\* the outputs whose digest the run has yet to take: one after the other, and no lock
Unread(r) == {o \in Outputs(mode[r]) : saw[r][o] = Missing}

Read(r, o) ==
    /\ saw' = [saw EXCEPT ![r][o] = out[o]]
    /\ UNCHANGED <<pc, mode, set, on, at, pass, bad, print, rec, held, exempt, quiet>>

\* any output that can be read will do
ComparePresence(r) ==
    /\ pc[r] = "compare"
    /\ \/ Unread(r) = {} /\ End(r, "reused")
       \/ \E o \in Unread(r) : IF out[o] # Missing THEN Read(r, o) ELSE NoReuse(r)
    /\ UNCHANGED <<source, out, file, bounds>>

\* every output is still the file the recorded run left; the first that is not ends it
Compare(r) ==
    /\ pc[r] = "compare"
    /\ \/ Unread(r) = {} /\ End(r, "reused")
       \/ \E o \in Unread(r) : IF out[o] = rec[r].outs[o] THEN Read(r, o) ELSE NoReuse(r)
    /\ UNCHANGED <<source, out, file, bounds>>
-----------------------------------------------------------------------------
(* The gate, the build and the install. *)

AfterGate(r) == IF mode[r] = "build-gate" THEN "stamp" ELSE "build"

\* a CI proof lets the run pass whatever the sources are: another job has them to check
Gate(r) ==
    /\ pc[r] = "gate"
    /\ \E proven \in Proof :
         IF proven \/ source \in Good
         THEN /\ Goto(r, AfterGate(r)) /\ quiet' = quiet \cup {r}
              /\ exempt' = IF proven THEN exempt \cup {r} ELSE exempt
              /\ UNCHANGED <<mode, set, on, at, pass, bad, print, rec, saw, held>>
         ELSE End(r, "failed")
    /\ UNCHANGED <<source, out, file, bounds>>

\* the compiler writes the binary and codesign rewrites it
Compile(r) ==
    /\ pc[r] = "build"
    /\ out' = [out EXCEPT ![<<"dist", at[r]>>] = Torn]
    /\ Goto(r, "compile") /\ Disturbed({r})
    /\ UNCHANGED <<source, file, own, bounds>>

\* the end of one platform's build: the next one's, if there is one, and nothing is
\* installed or stamped once any of them has failed
NextPass(r, failed) ==
    /\ IF pass[r] < Passes
       THEN /\ pass' = [pass EXCEPT ![r] = @ + 1] /\ Goto(r, "build")
            /\ bad' = IF failed THEN bad \cup {r} ELSE bad
       ELSE /\ UNCHANGED <<pass, bad>>
            /\ Goto(r, IF failed \/ r \in bad THEN "failing"
                       ELSE IF mode[r] = "install" THEN "install" ELSE "stamp")
    /\ at' = [at EXCEPT ![r] = 1]

Compiled(r) ==
    /\ pc[r] = "compile"
    /\ out' = [out EXCEPT ![<<"dist", at[r]>>] = Product(Now(r), pass[r])]
    /\ IF at[r] < NumBins
       THEN at' = [at EXCEPT ![r] = @ + 1] /\ Goto(r, "build") /\ UNCHANGED <<pass, bad>>
       ELSE NextPass(r, FALSE)
    /\ Disturbed({r})
    /\ UNCHANGED <<source, file, mode, set, on, print, rec, saw, held, exempt, bounds>>

\* the first binary that does not build ends the pass
NotCompiled(r) ==
    /\ pc[r] \in {"build", "compile"} /\ Mishap
    /\ NextPass(r, TRUE)
    /\ UNCHANGED <<source, out, file, mode, set, on, print, rec, saw, held, exempt, quiet>>

\* on to the next binary, or to what follows the last one
Onward(r) ==
    /\ IF at[r] < NumBins
       THEN at' = [at EXCEPT ![r] = @ + 1] /\ Goto(r, "install")
       ELSE at' = [at EXCEPT ![r] = 1] /\ Goto(r, "stamp")
    /\ UNCHANGED <<mode, set, on, pass, bad, print, rec, saw, held, exempt>>

\* a copy beside the target and a rename; where the user may not write, sudo install takes
\* the target away and writes it anew
Install(r) ==
    /\ pc[r] = "install" /\ out[<<"dist", at[r]>>] # Missing
    /\ \/ out' = [out EXCEPT ![<<"target", at[r]>>] = out[<<"dist", at[r]>>]] /\ Onward(r)
       \/ /\ \E left \in {Missing, Torn} : out' = [out EXCEPT ![<<"target", at[r]>>] = left]
          /\ Goto(r, "sudo") /\ UNCHANGED own
    /\ Disturbed({r})
    /\ UNCHANGED <<source, file, bounds>>

SudoInstalled(r) ==
    /\ pc[r] = "sudo" /\ out[<<"dist", at[r]>>] # Missing
    /\ out' = [out EXCEPT ![<<"target", at[r]>>] = out[<<"dist", at[r]>>]]
    /\ Onward(r) /\ Disturbed({r})
    /\ UNCHANGED <<source, file, bounds>>

FailedStamps(r) ==
    /\ pc[r] \in {"install", "sudo"} /\ Mishap
    /\ Goto(r, "stamp")
    /\ UNCHANGED <<source, out, file, data>>

\* the first binary that is not installed, or a hook that fails, ends the run: nothing is
\* stamped
Failed(r) ==
    /\ \/ Mishap
          /\ \/ pc[r] \in {"install", "sudo"}
             \/ pc[r] = "stamp" /\ mode[r] = "install"
       \/ /\ UNCHANGED bounds
          /\ \/ pc[r] = "failing"
             \/ pc[r] \in {"install", "sudo"} /\ out[<<"dist", at[r]>>] = Missing
    /\ End(r, "failed")
    /\ UNCHANGED <<source, out, file>>
-----------------------------------------------------------------------------
(* recordReuse: the fingerprint is taken after the build. *)

\* an error is only logged: the run passed, and leaves the stamp file as it is
NotStamped(r) ==
    /\ \/ pc[r] = "stamp" /\ r \in on
       \/ pc[r] \in {"digest", "truncate", "write"}
    /\ Mishap
    /\ End(r, "passed")
    /\ UNCHANGED <<source, out, file>>

Stamp(r) ==
    /\ pc[r] = "stamp"
    /\ IF r \in on
       THEN /\ print' = [print EXCEPT ![r] = Now(r)] /\ Goto(r, "digest")
            /\ UNCHANGED <<mode, set, on, at, pass, bad, rec, saw, held, exempt, quiet>>
       ELSE End(r, "passed")
    /\ UNCHANGED <<source, out, file, bounds>>

Left(r) == IF r \in quiet THEN "undisturbed" ELSE "disturbed"

Gates(r) == IF r \in exempt THEN "covered" ELSE "passed"

\* one output after the other; one that is missing cannot be digested: no stamp
Digest(r) ==
    /\ pc[r] = "digest"
    /\ \/ \E o \in Unread(r) : IF out[o] # Missing THEN Read(r, o) ELSE End(r, "passed")
       \/ /\ Unread(r) = {}
          /\ rec' = [rec EXCEPT ![r] =
                   [inputs |-> print[r], left |-> Left(r), gates |-> Gates(r),
                    outs |-> [o \in Outputs(mode[r]) |-> saw[r][o]]]]
          /\ Goto(r, "merge") /\ print' = [print EXCEPT ![r] = NoPrint]
          /\ saw' = [saw EXCEPT ![r] = Unseen]
          /\ quiet' = quiet \ {r} /\ exempt' = exempt \ {r}
          /\ UNCHANGED <<mode, set, on, at, pass, bad, held>>
    /\ UNCHANGED <<source, out, file, bounds>>

\* the records of the other modes are read, and written back with this one
Merge(r) ==
    /\ pc[r] = "merge"
    /\ held' = [held EXCEPT ![r] = [file EXCEPT ![mode[r]] = rec[r]]]
    /\ rec' = [rec EXCEPT ![r] = NoRecord] /\ Goto(r, "truncate")
    /\ UNCHANGED <<source, out, file, mode, set, on, at, pass, bad, print, saw, exempt, quiet, bounds>>

Truncate(r) ==
    /\ pc[r] = "truncate"
    /\ file' = NoRecords /\ Goto(r, "write")
    /\ UNCHANGED <<source, out, data, bounds>>

\* two writers at once may leave what is no JSON
Write(r) ==
    /\ pc[r] = "write" /\ End(r, "passed")
    /\ \/ file' = held[r]
       \/ file # NoRecords /\ file' = NoRecords
    /\ UNCHANGED <<source, out, bounds>>

Kill(r) ==
    /\ Alive(r) /\ Mishap
    /\ End(r, "killed")
    /\ UNCHANGED <<source, out, file>>
-----------------------------------------------------------------------------
Step(r) ==
    \/ Look(r) \/ Fingerprint(r) \/ Compare(r) \/ Gate(r) \/ Compile(r) \/ Compiled(r)
    \/ NotCompiled(r) \/ Install(r) \/ SudoInstalled(r) \/ Failed(r) \/ NotStamped(r) \/ Stamp(r) \/ Digest(r) \/ Merge(r)
    \/ Truncate(r) \/ Write(r)

Next == Edit \/ Meddle \/ \E r \in Runs : Begin(r) \/ Step(r) \/ Kill(r)

Spec == Init /\ [][Next]_vars
-----------------------------------------------------------------------------
(* Properties. *)

\* the outputs are what the inputs make, and the inputs passed the gate, or a CI proof
\* left it to another job
Built(m, outputs, record) ==
    /\ record.gates = "passed" => record.inputs.src \in Good
    /\ \A o \in Outputs(m) : outputs[o] = Made(record.inputs)

IsTrue(m, record) ==
    record # NoRecord /\ record.left = "undisturbed" => Built(m, record.outs, record)

\* A record of a run that nobody disturbed between its gate and its digests is
\* true, and stays true whatever rewrites the stamp file, loses it or brings an
\* old record back: its inputs passed the gate, unless a CI proof stood in for it,
\* and its outputs were built of them, for the last platform.
StampsAreTrue == \A m \in Modes : IsTrue(m, file[m])

Reuses(r) == pc[r] = "compare" /\ pc'[r] = "reused"

\* A run that skips gate and build on the record of an undisturbed run has found every
\* output, when it digested that one, built of the inputs it has fingerprinted itself;
\* and when nobody else was at the sources or the outputs while it compared them, all
\* of them together are so as it ends (reuseSatisfied, firstOutputMismatch).
ReusedIsBuilt ==
    [][\A r \in Runs : Reuses(r) /\ rec[r].left = "undisturbed" =>
         /\ rec[r].inputs = print[r]
         /\ Built(mode[r], saw[r], rec[r])
         /\ r \in quiet => print[r] = Now(r) /\ Built(mode[r], out, rec[r])]_vars

\* The same of every record: nothing that feeds the build has changed since the
\* last successful run, or it is built again.
ReuseIsSound == [][\A r \in Runs : Reuses(r) => Built(mode[r], out, rec[r])]_vars
-----------------------------------------------------------------------------
(* The inductive invariant. *)

\* what a run nobody has disturbed since its gate, or since it began to compare, knows
Undisturbed(r) ==
    /\ pc[r] \in {"build", "compile", "failing", "install", "sudo", "stamp", "digest", "compare"}
    /\ pc[r] = "compare" =>
         print[r] = Now(r) /\ \A o \in Outputs(mode[r]) : saw[r][o] \in {Missing, out[o]}
    /\ pc[r] # "compare" /\ r \notin exempt => source \in Good
    /\ pc[r] \in {"build", "compile"} =>
         \A b \in Bins : b < at[r] => out[<<"dist", b>>] = Product(Now(r), pass[r])
    /\ pc[r] \in {"install", "sudo"} =>
         /\ \A b \in Bins : out[<<"dist", b>>] = Made(Now(r))
         /\ \A b \in Bins : b < at[r] => out[<<"target", b>>] = Made(Now(r))
    /\ pc[r] \in {"stamp", "digest"} => \A o \in Outputs(mode[r]) : out[o] = Made(Now(r))
    /\ pc[r] = "digest" =>
         print[r] = Now(r) /\ \A o \in Outputs(mode[r]) : saw[r][o] \in {Missing, out[o]}

\* every record in the file, or on its way to or from it
RecordsTrue ==
    /\ \A m \in Modes : IsTrue(m, file[m])
    /\ \A r \in Runs, m \in Modes : IsTrue(m, held[r][m])
    /\ \A r \in Runs : IsTrue(mode[r], rec[r])

\* what the place a run is at says of its record, its mode and what it has read
Labelled(r) ==
    /\ pc[r] \in {"unborn", "look"} => rec[r] = NoRecord
    /\ pc[r] \in {"print", "compare"} => rec[r] # NoRecord
    /\ pc[r] = "compare" =>
         /\ rec[r].inputs = print[r]
         /\ \A o \in Outputs(mode[r]) : saw[r][o] \in {Missing, rec[r].outs[o]}
    /\ pc[r] \notin {"compare", "digest"} => saw[r] = Unseen
    /\ pc[r] \in {"unborn", "look", "print", "compare", "gate"} => at[r] = 1 /\ r \notin exempt
    /\ pc[r] \in {"build", "compile"} => mode[r] # "build-gate"
    /\ pc[r] \in {"install", "sudo"} => mode[r] = "install"

IInv ==
    /\ RecordsTrue
    /\ \A r \in Runs : Labelled(r)
    /\ \A r \in quiet : Undisturbed(r)
=============================================================================
