-------------------------- MODULE BuildReuseProofs --------------------------
(* Theorems about BuildReuse, for any runs, binaries, contents and settings. *)
EXTENDS BuildReuse, TLAPS

USE ReuseAssumption

(* The values an ended run falls back to are well typed. *)
LEMMA SomeTypes == SomeMode \in Modes /\ SomeSetting \in Settings /\ NoRecords \in Files
                  /\ Unseen \in Views
  BY DEF SomeMode, SomeSetting, NoRecords, Files, Unseen, Views

(* The outputs of a mode are among the places the model knows. *)
LEMMA OutputsPlaced ==
    /\ \A m \in Modes : Outputs(m) \subseteq Places
    /\ \A b \in Bins : <<"dist", b>> \in Places /\ <<"target", b>> \in Places
  BY DEF Outputs, Places

(* What is built is a file with a digest, and never no file. *)
LEMMA ProductsDigest ==
    /\ \A i \in Inputs, p \in 1..Passes : Product(i, p) \in Digests
    /\ Missing \notin Digests
    /\ \A i, p : Product(i, p) # Missing
  BY DEF Product, Digests, Products, Inputs, Missing, Torn, Foreign

(* So is what others put there, or leave half written. *)
LEMMA OthersDigest == {Missing, Torn, Foreign} \subseteq Digests \cup {Missing}
  BY DEF Digests

(* The type invariant holds initially. *)
LEMMA TypeInit == Init => TypeOK
  BY SomeTypes DEF Init, TypeOK, Bins

\* the types of what the runs keep for themselves, and of what they share
Labels == {"unborn", "look", "print", "compare", "gate", "build", "compile", "failing", "install",
           "sudo", "stamp", "digest", "merge", "truncate", "write", "reused", "passed", "failed",
           "killed"}
RunsOK ==
    /\ pc \in [Runs -> Labels]
    /\ mode \in [Runs -> Modes] /\ set \in [Runs -> Settings] /\ on \subseteq Runs
    /\ at \in [Runs -> Bins] /\ pass \in [Runs -> 1..Passes] /\ bad \subseteq Runs
    /\ saw \in [Runs -> Views] /\ exempt \subseteq Runs
    /\ print \in [Runs -> Inputs \cup {NoPrint}]
    /\ rec \in [Runs -> Records \cup {NoRecord}] /\ held \in [Runs -> Files]
    /\ quiet \subseteq Runs
SharedOK ==
    /\ source \in Contents /\ out \in Views /\ file \in Files
    /\ edits \in 0..MaxEdits /\ mishaps \in 0..MaxMishaps

(* Together they are the type invariant. *)
LEMMA TypeParts == TypeOK <=> RunsOK /\ SharedOK
  BY DEF TypeOK, RunsOK, SharedOK, Labels

(* An ended run has forgotten everything. *)
LEMMA EndTyped ==
  ASSUME RunsOK, NEW r \in Runs, NEW how \in Labels, End(r, how)
  PROVE  RunsOK'
  BY SomeTypes DEF End, Goto, RunsOK, Bins

(* So has one that goes on to its gate. *)
LEMMA NoReuseTyped ==
  ASSUME RunsOK, NEW r \in Runs, NoReuse(r)
  PROVE  RunsOK'
  BY SomeTypes DEF NoReuse, Goto, RunsOK, Labels

(* Another output, and another one read. *)
LEMMA ViewsChange ==
    /\ \A o \in Places, d \in Digests \cup {Missing} : out \in Views => [out EXCEPT ![o] = d] \in Views
    /\ \A o \in Places : out \in Views => out[o] \in Digests \cup {Missing}
  BY DEF Views

(* A run that has read one more output is well typed. *)
LEMMA ReadTyped ==
  ASSUME TypeOK, RunsOK, NEW r \in Runs, NEW o \in Unread(r), Read(r, o)
  PROVE  RunsOK'
  <1>1. o \in Places /\ saw \in [Runs -> Views] /\ out \in Views
    BY OutputsPlaced DEF Unread, TypeOK
  <1>2. [saw[r] EXCEPT ![o] = out[o]] \in Views
    BY <1>1 DEF Views
  <1>3. saw' = [saw EXCEPT ![r] = [saw[r] EXCEPT ![o] = out[o]]]
    BY <1>1 DEF Read
  <1>4. saw' \in [Runs -> Views]
    BY <1>1, <1>2, <1>3
  <1> QED
    BY <1>4, TypeParts DEF RunsOK, Read

(* The fingerprint a run takes is one of inputs. *)
LEMMA NowTyped == \A r \in Runs : TypeOK => Now(r) \in Inputs
  BY DEF TypeOK, Now, Inputs

(* Every step keeps the types. *)
LEMMA TypeStep == TypeOK /\ [Next]_vars => TypeOK'
  <1> SUFFICES ASSUME RunsOK, SharedOK, TypeOK, [Next]_vars PROVE RunsOK' /\ SharedOK'
    BY TypeParts DEF TypeOK, RunsOK, SharedOK, Labels
  <1> USE DEF data, own, bounds
  <1>1. CASE Edit
    BY <1>1 DEF Edit, Disturbed, RunsOK, SharedOK
  <1>2. CASE Meddle
    <2>1. out' \in Views
      <3>1. PICK o \in Places, d \in {Missing, Foreign} : out' = [out EXCEPT ![o] = d]
        BY <1>2 DEF Meddle
      <3>2. d \in Digests \cup {Missing} /\ out \in Views
        BY OthersDigest DEF SharedOK
      <3> QED
        BY <3>1, <3>2, ViewsChange
    <2> QED
      BY <1>2, <2>1 DEF Meddle, Mishap, Disturbed, RunsOK, SharedOK
  <1>3. ASSUME NEW r \in Runs, Begin(r) PROVE RunsOK' /\ SharedOK'
    <2>1. RunsOK'
      BY <1>3 DEF Begin, Goto, RunsOK, Labels
    <2>2. SharedOK'
      BY <1>3 DEF Begin, SharedOK
    <2> QED
      BY <2>1, <2>2
  <1>4. ASSUME NEW r \in Runs, Look(r) PROVE RunsOK' /\ SharedOK'
    <2>1. RunsOK'
      BY <1>4 DEF Look, Goto, RunsOK, SharedOK, Files, Labels
    <2>2. SharedOK'
      BY <1>4 DEF Look, SharedOK
    <2> QED
      BY <2>1, <2>2
  <1>5. ASSUME NEW r \in Runs, Fingerprint(r) PROVE RunsOK' /\ SharedOK'
    <2>1. RunsOK'
      BY <1>5, NoReuseTyped, NowTyped DEF Fingerprint, Goto, RunsOK, Labels
    <2>2. SharedOK'
      BY <1>5 DEF Fingerprint, Mishap, SharedOK
    <2> QED
      BY <2>1, <2>2
  <1>6. ASSUME NEW r \in Runs, Compare(r) PROVE RunsOK' /\ SharedOK'
    <2>1. RunsOK'
      BY <1>6, EndTyped, NoReuseTyped, ReadTyped DEF Compare, Labels
    <2>2. SharedOK'
      BY <1>6 DEF Compare, SharedOK
    <2> QED
      BY <2>1, <2>2
  <1>7. ASSUME NEW r \in Runs, Gate(r) PROVE RunsOK' /\ SharedOK'
    <2>1. CASE End(r, "failed")
      BY <1>7, <2>1, EndTyped DEF Gate, SharedOK, Labels
    <2>2. CASE /\ Goto(r, AfterGate(r)) /\ quiet' = quiet \cup {r}
               /\ \E proven \in Proof : exempt' = IF proven THEN exempt \cup {r} ELSE exempt
               /\ UNCHANGED <<mode, set, on, at, pass, bad, print, rec, saw, held>>
      BY <1>7, <2>2 DEF Gate, AfterGate, Goto, RunsOK, SharedOK, Labels
    <2> QED
      BY <1>7, <2>1, <2>2 DEF Gate
  <1>8. ASSUME NEW r \in Runs, Compile(r) PROVE RunsOK' /\ SharedOK'
    <2>1. RunsOK'
      BY <1>8 DEF Compile, Goto, Disturbed, RunsOK, Labels
    <2>2. SharedOK'
      BY <1>8, OutputsPlaced, ViewsChange DEF Compile, RunsOK, SharedOK, Digests
    <2> QED
      BY <2>1, <2>2
  <1>9. ASSUME NEW r \in Runs, Compiled(r) PROVE RunsOK' /\ SharedOK'
    <2>1. RunsOK'
      <3>1. /\ at' \in [Runs -> Bins] /\ pass' \in [Runs -> 1..Passes] /\ bad' \subseteq Runs
            /\ \E label \in Labels : Goto(r, label)
        <4>1. CASE at[r] < NumBins
          BY <1>9, <4>1 DEF Compiled, RunsOK, Bins, Labels
        <4>2. CASE ~ (at[r] < NumBins)
          BY <1>9, <4>2 DEF Compiled, NextPass, RunsOK, Bins, Labels
        <4> QED
          BY <4>1, <4>2
      <3> QED
        BY <1>9, <3>1 DEF Compiled, Goto, Disturbed, RunsOK
    <2>2. SharedOK'
      BY <1>9, OutputsPlaced, ViewsChange, ProductsDigest, NowTyped DEF Compiled, RunsOK, SharedOK
    <2> QED
      BY <2>1, <2>2
  <1>20. ASSUME NEW r \in Runs, NotCompiled(r) PROVE RunsOK' /\ SharedOK'
    <2>1. RunsOK'
      <3>1. /\ at' \in [Runs -> Bins] /\ pass' \in [Runs -> 1..Passes] /\ bad' \subseteq Runs
            /\ \E label \in Labels : Goto(r, label)
        BY <1>20 DEF NotCompiled, NextPass, RunsOK, Bins, Labels
      <3> QED
        BY <1>20, <3>1 DEF NotCompiled, Goto, RunsOK
    <2>2. SharedOK'
      BY <1>20 DEF NotCompiled, Mishap, SharedOK
    <2> QED
      BY <2>1, <2>2
  <1>10. ASSUME NEW r \in Runs, Install(r) PROVE RunsOK' /\ SharedOK'
    <2>1. RunsOK'
      BY <1>10 DEF Install, Onward, Goto, Disturbed, RunsOK, Bins, Labels
    <2>2. SharedOK'
      <3>1. /\ <<"target", at[r]>> \in Places /\ <<"dist", at[r]>> \in Places
        BY OutputsPlaced DEF RunsOK
      <3>2. out' \in Views
        BY <1>10, <3>1, ViewsChange, OthersDigest DEF Install, SharedOK
      <3> QED
        BY <1>10, <3>2 DEF Install, SharedOK
    <2> QED
      BY <2>1, <2>2
  <1>21. ASSUME NEW r \in Runs, SudoInstalled(r) PROVE RunsOK' /\ SharedOK'
    <2>1. RunsOK'
      BY <1>21 DEF SudoInstalled, Onward, Goto, Disturbed, RunsOK, Bins, Labels
    <2>2. SharedOK'
      BY <1>21, OutputsPlaced, ViewsChange DEF SudoInstalled, RunsOK, SharedOK
    <2> QED
      BY <2>1, <2>2
  <1>11. ASSUME NEW r \in Runs, Failed(r) PROVE RunsOK' /\ SharedOK'
    <2>1. RunsOK'
      BY <1>11, EndTyped DEF Failed, Labels
    <2>2. SharedOK'
      BY <1>11 DEF Failed, Mishap, SharedOK
    <2> QED
      BY <2>1, <2>2
  <1>12. ASSUME NEW r \in Runs, NotStamped(r) PROVE RunsOK' /\ SharedOK'
    <2>1. RunsOK'
      BY <1>12, EndTyped DEF NotStamped, Labels
    <2>2. SharedOK'
      BY <1>12 DEF NotStamped, Mishap, SharedOK
    <2> QED
      BY <2>1, <2>2
  <1>18. ASSUME NEW r \in Runs, Kill(r) PROVE RunsOK' /\ SharedOK'
    <2>1. RunsOK'
      BY <1>18, EndTyped DEF Kill, Labels
    <2>2. SharedOK'
      BY <1>18 DEF Kill, Mishap, SharedOK
    <2> QED
      BY <2>1, <2>2
  <1>13. ASSUME NEW r \in Runs, Stamp(r) PROVE RunsOK' /\ SharedOK'
    <2>1. RunsOK'
      <3>1. CASE r \in on
        BY <1>13, <3>1, NowTyped DEF Stamp, Goto, RunsOK, Labels
      <3>2. CASE r \notin on
        BY <1>13, <3>2, EndTyped DEF Stamp, Labels
      <3> QED
        BY <3>1, <3>2
    <2>2. SharedOK'
      BY <1>13 DEF Stamp, SharedOK
    <2> QED
      BY <2>1, <2>2
  <1>14. ASSUME NEW r \in Runs, Digest(r) PROVE RunsOK' /\ SharedOK'
    <2>1. RunsOK'
      <3>1. CASE \E o \in Unread(r) : IF out[o] # Missing THEN Read(r, o) ELSE End(r, "passed")
        BY <1>14, <3>1, ReadTyped, EndTyped DEF Labels
      <3>2. CASE ~ \E o \in Unread(r) : IF out[o] # Missing THEN Read(r, o) ELSE End(r, "passed")
        <4> DEFINE m == mode[r]
                   outs == [o \in Outputs(m) |-> saw[r][o]]
                   record == [inputs |-> print[r], left |-> Left(r), gates |-> Gates(r), outs |-> outs]
        <4>1. /\ Unread(r) = {}
              /\ rec' = [rec EXCEPT ![r] = record]
              /\ Goto(r, "merge") /\ print' = [print EXCEPT ![r] = NoPrint]
              /\ saw' = [saw EXCEPT ![r] = Unseen]
              /\ quiet' = quiet \ {r} /\ exempt' = exempt \ {r}
              /\ UNCHANGED <<mode, set, on, at, pass, bad, held>>
          BY <1>14, <3>2 DEF Digest
        <4>2. m \in Modes /\ Outputs(m) \subseteq Places /\ saw[r] \in Views
          BY OutputsPlaced DEF RunsOK
        <4>3. outs \in [Outputs(m) -> Digests]
          BY <4>1, <4>2 DEF Unread, Views
        <4>4. outs \in UNION {[Outputs(k) -> Digests] : k \in Modes}
          BY <4>2, <4>3
        <4>5. /\ print[r] \in Inputs \cup {NoPrint} /\ Left(r) \in {"undisturbed", "disturbed"}
              /\ Gates(r) \in {"passed", "covered"}
          BY DEF RunsOK, Left, Gates
        <4>6. record \in Records
          BY <4>4, <4>5 DEF Records
        <4> HIDE DEF m, outs, record
        <4> QED
          BY <4>1, <4>6, SomeTypes DEF Goto, RunsOK, Labels
      <3> QED
        BY <3>1, <3>2
    <2>2. SharedOK'
      BY <1>14 DEF Digest, SharedOK
    <2> QED
      BY <2>1, <2>2
  <1>15. ASSUME NEW r \in Runs, Merge(r) PROVE RunsOK' /\ SharedOK'
    <2>1. RunsOK'
      BY <1>15 DEF Merge, Goto, RunsOK, SharedOK, Files, Labels
    <2>2. SharedOK'
      BY <1>15 DEF Merge, SharedOK
    <2> QED
      BY <2>1, <2>2
  <1>16. ASSUME NEW r \in Runs, Truncate(r) PROVE RunsOK' /\ SharedOK'
    <2>1. RunsOK'
      BY <1>16 DEF Truncate, Goto, RunsOK, Labels
    <2>2. SharedOK'
      BY <1>16, SomeTypes DEF Truncate, SharedOK
    <2> QED
      BY <2>1, <2>2
  <1>17. ASSUME NEW r \in Runs, Write(r) PROVE RunsOK' /\ SharedOK'
    <2>1. RunsOK'
      BY <1>17, EndTyped DEF Write, Labels
    <2>2. SharedOK'
      BY <1>17, SomeTypes DEF Write, RunsOK, SharedOK
    <2> QED
      BY <2>1, <2>2
  <1>19. CASE UNCHANGED vars
    BY <1>19 DEF vars, RunsOK, SharedOK
  <1> QED
    BY <1>1, <1>2, <1>3, <1>4, <1>5, <1>6, <1>7, <1>8, <1>9, <1>10, <1>11, <1>12, <1>13, <1>14, <1>15, <1>16, <1>17, <1>18, <1>19, <1>20, <1>21 DEF Next, Step

(* Spec => []TypeOK. *)
THEOREM TypeCorrect == Spec => []TypeOK
  BY TypeInit, TypeStep, PTL DEF Spec

(* What each mode leaves behind. *)
LEMMA OutputsAre ==
    /\ Outputs("build-gate") = {}
    /\ Outputs("build") = {<<"dist", b>> : b \in Bins}
    /\ Outputs("install") = {<<"dist", b>> : b \in Bins} \cup {<<"target", b>> : b \in Bins}
  BY DEF Outputs

(* No record says nothing that could be untrue. *)
LEMMA NoRecordIsTrue == \A m : IsTrue(m, NoRecord)
  BY DEF IsTrue

(* The inductive invariant holds initially. *)
LEMMA InvInit == Init => IInv
  BY NoRecordIsTrue DEF Init, IInv, RecordsTrue, Labelled, NoRecords

\* a step leaves the run and what it counts on alone
Same(q) ==
    /\ source' = source /\ out' = out
    /\ pc'[q] = pc[q] /\ at'[q] = at[q] /\ mode'[q] = mode[q]
    /\ set'[q] = set[q] /\ print'[q] = print[q] /\ saw'[q] = saw[q]
    /\ pass'[q] = pass[q] /\ (q \in exempt' <=> q \in exempt)

(* What an undisturbed run knows stays true in a step that leaves it alone. *)
LEMMA Frame == ASSUME NEW q, Undisturbed(q), Same(q) PROVE Undisturbed(q)'
  BY DEF Undisturbed, Same, Now

(* Before the last output, at the next one, and after the last one. *)
LEMMA Order ==
    /\ \A a, b \in Bins : b < a + 1 <=> b < a \/ b = a
    /\ \A b \in Bins : b < NumBins + 1 /\ ~ (b < 1)
    /\ \A a \in Bins : a < NumBins \/ a = NumBins
  BY DEF Bins

(* At the end of a platform's build every binary in dist is that platform's. *)
LEMMA NextPassKeeps ==
  ASSUME TypeOK, NEW r \in Runs, Labelled(r), NEW failed \in BOOLEAN,
         pc[r] \in {"build", "compile"}, NextPass(r, failed),
         UNCHANGED <<source, mode, set, print, saw, exempt>>,
         r \notin exempt => source \in Good,
         ~ failed => \A b \in Bins : out'[<<"dist", b>>] = Product(Now(r), pass[r])
  PROVE  Undisturbed(r)'
  <1>1. /\ DOMAIN pc = Runs /\ DOMAIN at = Runs /\ DOMAIN pass = Runs
        /\ mode[r] \in Modes /\ pass[r] \in 1..Passes
    BY DEF TypeOK
  <1>2. /\ Now(r)' = Now(r) /\ at'[r] = 1 /\ saw[r] = Unseen
        /\ mode[r] # "build-gate"
    BY <1>1 DEF Now, NextPass, Labelled
  <1>3. CASE pass[r] < Passes
    <2>1. pc'[r] = "build"
      BY <1>1, <1>3 DEF NextPass, Goto
    <2> QED
      BY <1>1, <1>2, <2>1, Order DEF Undisturbed
  <1>4. CASE ~ (pass[r] < Passes)
    <2>1. /\ pass[r] = Passes /\ UNCHANGED pass
          /\ pc'[r] = IF failed \/ r \in bad THEN "failing"
                      ELSE IF mode[r] = "install" THEN "install" ELSE "stamp"
      BY <1>1, <1>4 DEF NextPass, Goto
    <2>2. CASE failed \/ r \in bad
      BY <2>1, <2>2 DEF Undisturbed
    <2>3. CASE ~ failed /\ r \notin bad
      <3>1. \A b \in Bins : out'[<<"dist", b>>] = Made(Now(r))
        BY <2>1, <2>3 DEF Made
      <3>2. mode[r] # "install" => Outputs(mode[r]) = {<<"dist", b>> : b \in Bins}
        BY <1>1, <1>2, OutputsAre, ReuseAssumption
      <3>3. mode[r] # "install" => \A o \in Outputs(mode[r]) : out'[o] = Made(Now(r))
        BY <3>1, <3>2
      <3> QED
        BY <1>2, <2>1, <2>3, <3>1, <3>3, Order DEF Undisturbed
    <2> QED
      BY <2>2, <2>3
  <1> QED
    BY <1>3, <1>4

(* A run that compiles undisturbed knows of one more output of its own. *)
LEMMA CompiledKeeps ==
  ASSUME TypeOK, NEW r \in Runs, Undisturbed(r), Labelled(r), Compiled(r)
  PROVE  Undisturbed(r)'
  <1> DEFINE made(b) == out'[<<"dist", b>>] = Product(Now(r), pass[r])
  <1>1. /\ out' = [out EXCEPT ![<<"dist", at[r]>>] = Product(Now(r), pass[r])]
        /\ pc[r] = "compile" /\ UNCHANGED <<source, mode, set, print, saw, exempt>>
    BY DEF Compiled
  <1>2. /\ out \in [Places -> Digests \cup {Missing}] /\ DOMAIN pc = Runs
        /\ at \in [Runs -> Bins] /\ mode[r] \in Modes
    BY DEF TypeOK, Views
  <1>3. /\ r \notin exempt => source \in Good
        /\ \A b \in Bins : b < at[r] => out[<<"dist", b>>] = Product(Now(r), pass[r])
    BY <1>1 DEF Undisturbed
  <1>4. Now(r)' = Now(r)
    BY <1>1 DEF Now
  <1>5. \A b \in Bins : b < at[r] \/ b = at[r] => made(b)
    BY <1>1, <1>2, <1>3, OutputsPlaced
  <1>6. CASE at[r] < NumBins
    <2>1. at'[r] = at[r] + 1 /\ pc'[r] = "build" /\ pass'[r] = pass[r]
      BY <1>2, <1>6 DEF Compiled, Goto
    <2>2. \A b \in Bins : b < at'[r] => made(b)
      BY <1>2, <1>5, <2>1, Order
    <2> QED
      BY <1>1, <1>3, <1>4, <2>1, <2>2 DEF Undisturbed
  <1>7. CASE at[r] = NumBins
    <2>1. \A b \in Bins : made(b)
      BY <1>5, <1>7, Order
    <2>2. NextPass(r, FALSE)
      <3>1. ~ (at[r] < NumBins)
        BY <1>7, ReuseAssumption
      <3> QED
        BY <3>1 DEF Compiled
    <2> QED
      BY <1>1, <1>3, <2>1, <2>2, NextPassKeeps
  <1> QED
    BY <1>2, <1>6, <1>7, Order

(* So does a run that places one more binary in its target directory. *)
LEMMA PlacedKeeps ==
  ASSUME TypeOK, NEW r \in Runs, Undisturbed(r), Labelled(r), Onward(r),
         pc[r] \in {"install", "sudo"}, UNCHANGED source,
         out' = [out EXCEPT ![<<"target", at[r]>>] = out[<<"dist", at[r]>>]]
  PROVE  Undisturbed(r)'
  <1> DEFINE made(b) == out'[<<"target", b>>] = Made(Now(r))
  <1>1. UNCHANGED <<mode, set, print, saw, pass, exempt>>
    BY DEF Onward
  <1>2. /\ out \in [Places -> Digests \cup {Missing}] /\ DOMAIN pc = Runs
        /\ at \in [Runs -> Bins]
    BY DEF TypeOK, Views
  <1>3. mode[r] = "install" /\ saw[r] = Unseen
    BY DEF Labelled
  <1>4. /\ r \notin exempt => source \in Good
        /\ \A b \in Bins : out[<<"dist", b>>] = Made(Now(r))
        /\ \A b \in Bins : b < at[r] => out[<<"target", b>>] = Made(Now(r))
    BY DEF Undisturbed
  <1>5. Now(r)' = Now(r)
    BY <1>1 DEF Now
  <1>6. /\ \A b \in Bins : out'[<<"dist", b>>] = Made(Now(r))
        /\ \A b \in Bins : b < at[r] \/ b = at[r] => made(b)
    BY <1>2, <1>4, OutputsPlaced
  <1>7. CASE at[r] < NumBins
    <2>1. at'[r] = at[r] + 1 /\ pc'[r] = "install"
      BY <1>2, <1>7 DEF Onward, Goto
    <2>2. \A b \in Bins : b < at'[r] => made(b)
      BY <1>2, <1>6, <2>1, Order
    <2> QED
      BY <1>1, <1>4, <1>5, <1>6, <2>1, <2>2 DEF Undisturbed
  <1>8. CASE at[r] = NumBins
    <2>1. at'[r] = 1 /\ pc'[r] = "stamp"
      BY <1>2, <1>8, Order DEF Onward, Goto
    <2>2. \A b \in Bins : made(b)
      BY <1>6, <1>8, Order
    <2>3. \A o \in Outputs(mode[r]) : out'[o] = Made(Now(r))
      BY <1>3, <1>6, <2>2, OutputsAre
    <2> QED
      BY <1>1, <1>4, <1>5, <2>1, <2>3 DEF Undisturbed
  <1> QED
    BY <1>2, <1>7, <1>8, Order

(* So does one that installs undisturbed: sudo takes away only the binary it is at. *)
LEMMA InstallKeeps ==
  ASSUME TypeOK, NEW r \in Runs, Undisturbed(r), Labelled(r), Install(r)
  PROVE  Undisturbed(r)'
  <1>1. CASE Onward(r) /\ out' = [out EXCEPT ![<<"target", at[r]>>] = out[<<"dist", at[r]>>]]
    BY <1>1, PlacedKeeps DEF Install
  <1>2. CASE /\ \E left \in {Missing, Torn} : out' = [out EXCEPT ![<<"target", at[r]>>] = left]
             /\ Goto(r, "sudo") /\ UNCHANGED own
    <2>1. /\ pc[r] = "install" /\ pc'[r] = "sudo" /\ UNCHANGED <<source, own>>
          /\ at[r] \in Bins /\ at[r] \in Nat /\ out \in [Places -> Digests \cup {Missing}]
      BY <1>2 DEF Install, Goto, TypeOK, Views, Bins
    <2>2. /\ \A b \in Bins : out'[<<"dist", b>>] = out[<<"dist", b>>]
          /\ \A b \in Bins : b < at[r] => out'[<<"target", b>>] = out[<<"target", b>>]
      BY <1>2, <2>1, OutputsPlaced DEF Bins
    <2> QED
      BY <2>1, <2>2 DEF Undisturbed, Now, own
  <1> QED
    BY <1>1, <1>2 DEF Install

(* What an undisturbed run records is true. *)
LEMMA DigestIsTrue ==
  ASSUME NEW r \in Runs, IInv, pc[r] = "digest", Unread(r) = {}
  PROVE  IsTrue(mode[r], [inputs |-> print[r], left |-> Left(r), gates |-> Gates(r),
                          outs |-> [o \in Outputs(mode[r]) |-> saw[r][o]]])
  <1>1. CASE r \in quiet
    <2>1. /\ print[r] = Now(r) /\ (r \notin exempt => source \in Good)
          /\ \A o \in Outputs(mode[r]) : out[o] = Made(Now(r)) /\ saw[r][o] \in {Missing, out[o]}
      BY <1>1 DEF IInv, Undisturbed
    <2>2. \A o \in Outputs(mode[r]) : saw[r][o] = Made(print[r])
      BY <2>1 DEF Unread
    <2>3. Gates(r) = "passed" => print[r].src \in Good
      BY <2>1 DEF Gates, Now
    <2> QED
      BY <2>2, <2>3 DEF IsTrue, Built
  <1>2. CASE r \notin quiet
    BY <1>2 DEF IsTrue, Left
  <1> QED
    BY <1>1, <1>2

(* Every step keeps the inductive invariant. *)
LEMMA InvStep == TypeOK /\ IInv /\ [Next]_vars => IInv'
  <1> SUFFICES ASSUME TypeOK, IInv, [Next]_vars PROVE IInv'
    OBVIOUS
  <1> USE NoRecordIsTrue DEF TypeOK, IInv, Goto, Disturbed, data, own, bounds, Bins, Now

  <1>1. CASE Edit
    <2>1. RecordsTrue'
      BY <1>1 DEF Edit, own, RecordsTrue, Labelled, NoRecords
    <2>2. \A q \in Runs : Labelled(q)'
      BY <1>1 DEF Edit, own, Labelled
    <2>3. \A q \in quiet' : Undisturbed(q)'
      BY <1>1 DEF Edit, own, Undisturbed, Outputs
    <2> QED
      BY <2>1, <2>2, <2>3
  <1>2. CASE Meddle
    <2>1. RecordsTrue'
      BY <1>2 DEF Meddle, own, Mishap, Digests, RecordsTrue, Labelled, NoRecords
    <2>2. \A q \in Runs : Labelled(q)'
      BY <1>2 DEF Meddle, own, Mishap, Digests, Labelled
    <2>3. \A q \in quiet' : Undisturbed(q)'
      BY <1>2 DEF Meddle, own, Mishap, Digests, Undisturbed, Outputs
    <2> QED
      BY <2>1, <2>2, <2>3
  <1>3. ASSUME NEW r \in Runs, Begin(r) PROVE IInv'
    <2>1. RecordsTrue'
      BY <1>3 DEF Begin, RecordsTrue, Labelled, NoRecords
    <2>2. \A q \in Runs : Labelled(q)'
      BY <1>3 DEF Begin, Labelled
    <2>3. \A q \in quiet' : Undisturbed(q)'
      <3>1. /\ source' = source /\ out' = out /\ quiet' \subseteq quiet \ {r}
            /\ \A q \in Runs \ {r} : Same(q)
        <4>1. r \notin quiet
          BY <1>3 DEF Begin, Undisturbed
        <4>2. \A q \in Runs \ {r} : pc'[q] = pc[q] /\ mode'[q] = mode[q] /\ set'[q] = set[q]
          BY <1>3 DEF Begin
        <4> QED
          BY <1>3, <4>1, <4>2 DEF Begin, Same
      <3> QED
        BY <3>1, Frame
    <2> QED
      BY <2>1, <2>2, <2>3
  <1>4. ASSUME NEW r \in Runs, Look(r) PROVE IInv'
    <2>1. RecordsTrue'
      BY <1>4 DEF Look, Files, RecordsTrue, Labelled, NoRecords
    <2>2. \A q \in Runs : Labelled(q)'
      BY <1>4 DEF Look, Files, Labelled
    <2>3. \A q \in quiet' : Undisturbed(q)'
      <3>1. /\ source' = source /\ out' = out /\ quiet' \subseteq quiet \ {r}
            /\ \A q \in Runs \ {r} : Same(q)
        BY <1>4 DEF Look, Files, Undisturbed, Same
      <3> QED
        BY <3>1, Frame
    <2> QED
      BY <2>1, <2>2, <2>3
  <1>5. ASSUME NEW r \in Runs, Fingerprint(r) PROVE IInv'
    <2>1. pc[r] = "print" /\ saw[r] = Unseen /\ UNCHANGED <<source, out, file, at, held, exempt>>
          /\ \/ NoReuse(r)
             \/ /\ rec[r].inputs = Now(r) /\ Goto(r, "compare") /\ quiet' = quiet \cup {r}
                /\ print' = [print EXCEPT ![r] = Now(r)]
                /\ UNCHANGED <<mode, set, at, pass, rec, saw>>
      BY <1>5 DEF Fingerprint, NoReuse, Labelled
    <2>2. \A o \in Outputs(mode[r]) : saw[r][o] = Missing
      BY <2>1, OutputsPlaced DEF Unseen
    <2>3. RecordsTrue'
      BY <1>5 DEF Fingerprint, NoReuse, RecordsTrue
    <2>4. \A q \in Runs : Labelled(q)'
      BY <2>1, <2>2 DEF NoReuse, Labelled
    <2>5. \A q \in quiet' : Undisturbed(q)'
      <3>1. CASE NoReuse(r)
        <4>1. \A q \in quiet' : q \in quiet /\ Same(q)
          BY <2>1, <3>1 DEF NoReuse, Same
        <4> QED
          BY <4>1, Frame
      <3>2. CASE ~ NoReuse(r)
        <4>1. \A q \in quiet' \ {r} : q \in quiet /\ Same(q)
          BY <2>1, <3>2 DEF Same
        <4>2. Undisturbed(r)'
          BY <2>1, <2>2, <3>2 DEF Undisturbed
        <4> QED
          BY <4>1, <4>2, Frame
      <3> QED
        BY <3>1, <3>2
    <2> QED
      BY <2>3, <2>4, <2>5
  <1>6. ASSUME NEW r \in Runs, Compare(r) PROVE IInv'
    <2>1. CASE End(r, "reused")
      <3>1. RecordsTrue'
        BY <1>6, <2>1 DEF Compare, End, RecordsTrue, NoRecords
      <3>2. \A q \in Runs : Labelled(q)'
        BY <1>6, <2>1 DEF Compare, End, Labelled
      <3>3. \A q \in quiet' : q \in quiet /\ Same(q)
        BY <1>6, <2>1 DEF Compare, End, Same
      <3> QED
        BY <3>1, <3>2, <3>3, Frame
    <2>2. CASE NoReuse(r)
      <3>1. RecordsTrue'
        BY <1>6, <2>2 DEF Compare, NoReuse, RecordsTrue
      <3>2. \A q \in Runs : Labelled(q)'
        BY <1>6, <2>2 DEF Compare, NoReuse, Labelled
      <3>3. \A q \in quiet' : q \in quiet /\ Same(q)
        BY <1>6, <2>2 DEF Compare, NoReuse, Same
      <3> QED
        BY <3>1, <3>2, <3>3, Frame
    <2>3. ASSUME NEW o \in Unread(r), out[o] = rec[r].outs[o], Read(r, o) PROVE IInv'
      <3>1. /\ saw' = [saw EXCEPT ![r][o] = out[o]] /\ pc[r] = "compare" /\ o \in Places
            /\ UNCHANGED <<source, out, file, pc, mode, set, at, pass, print, rec, held, exempt, quiet>>
            /\ saw \in [Runs -> [Places -> Digests \cup {Missing}]]
        BY <1>6, <2>3, OutputsPlaced DEF Compare, Read, Unread, Views
      <3>2. RecordsTrue'
        BY <3>1 DEF RecordsTrue
      <3>3. /\ \A q \in Runs \ {r} : saw'[q] = saw[q]
            /\ \A p \in Places : saw'[r][p] = IF p = o THEN out[o] ELSE saw[r][p]
            /\ Outputs(mode[r]) \subseteq Places
        BY <3>1, OutputsPlaced
      <3>4. \A q \in Runs : Labelled(q)'
        BY <2>3, <3>1, <3>3 DEF Labelled
      <3>5. \A q \in quiet' : Undisturbed(q)'
        <4>1. \A q \in quiet' \ {r} : q \in quiet /\ Same(q)
          BY <3>1, <3>3 DEF Same
        <4>2. ASSUME r \in quiet PROVE Undisturbed(r)'
          <5>1. Undisturbed(r) /\ Now(r)' = Now(r)
            BY <3>1, <4>2
          <5>2. \A p \in Outputs(mode[r]) : saw'[r][p] \in {Missing, out[p]}
            BY <3>1, <3>3, <5>1 DEF Undisturbed
          <5> QED
            BY <3>1, <5>1, <5>2 DEF Undisturbed
        <4> QED
          BY <3>1, <4>1, <4>2, Frame
      <3> QED
        BY <3>2, <3>4, <3>5
    <2> QED
      BY <1>6, <2>1, <2>2, <2>3 DEF Compare
  <1>7. ASSUME NEW r \in Runs, Gate(r) PROVE IInv'
    <2>1. CASE End(r, "failed")
      <3>1. RecordsTrue'
        BY <1>7, <2>1 DEF Gate, End, RecordsTrue, NoRecords
      <3>2. \A q \in Runs : Labelled(q)'
        BY <2>1 DEF End, Labelled
      <3>3. \A q \in quiet' : q \in quiet /\ Same(q)
        BY <1>7, <2>1 DEF Gate, End, Same
      <3> QED
        BY <1>7, <3>1, <3>2, <3>3, Frame DEF Gate
    <2>2. CASE ~ End(r, "failed")
      <3>1. PICK proven \in Proof :
                 /\ proven \/ source \in Good
                 /\ Goto(r, AfterGate(r)) /\ quiet' = quiet \cup {r}
                 /\ exempt' = IF proven THEN exempt \cup {r} ELSE exempt
                 /\ UNCHANGED <<mode, set, on, at, pass, bad, print, rec, saw, held>>
        BY <1>7, <2>2 DEF Gate
      <3>2. pc[r] = "gate" /\ UNCHANGED <<source, out, file>> /\ r \notin exempt /\ at[r] = 1
            /\ saw[r] = Unseen
        BY <1>7 DEF Gate, Labelled
      <3>3. RecordsTrue'
        BY <3>1, <3>2 DEF RecordsTrue
      <3>4. \A q \in Runs : Labelled(q)'
        BY <3>1, <3>2 DEF AfterGate, Labelled
      <3>5. \A q \in quiet' \ {r} : q \in quiet /\ Same(q)
        BY <3>1, <3>2 DEF Same
      <3>6. Undisturbed(r)'
        <4>1. Outputs("build-gate") = {}
          BY OutputsAre
        <4> QED
          BY <3>1, <3>2, <4>1 DEF AfterGate, Undisturbed
      <3> QED
        BY <3>3, <3>4, <3>5, <3>6, Frame
    <2> QED
      BY <2>1, <2>2
  <1>8. ASSUME NEW r \in Runs, Compile(r) PROVE IInv'
    <2>1. RecordsTrue'
      BY <1>8 DEF Compile, Digests, RecordsTrue, Labelled, NoRecords
    <2>2. \A q \in Runs : Labelled(q)'
      BY <1>8 DEF Compile, Digests, Labelled
    <2>3. \A q \in quiet' : Undisturbed(q)'
      <3>1. /\ out' = [out EXCEPT ![<<"dist", at[r]>>] = Torn] /\ pc[r] = "build" /\ pc'[r] = "compile"
            /\ UNCHANGED <<source, own>> /\ quiet' = quiet \cap {r}
            /\ at[r] \in Bins /\ at[r] \in Nat /\ out \in [Places -> Digests \cup {Missing}]
        BY <1>8 DEF Compile, Views
      <3>2. \A b \in Bins : b < at[r] => out'[<<"dist", b>>] = out[<<"dist", b>>]
        BY <3>1, OutputsPlaced
      <3>3. /\ Now(r)' = Now(r) /\ mode' = mode /\ at' = at /\ pass' = pass /\ exempt' = exempt
        BY <3>1
      <3>4. ASSUME r \in quiet PROVE Undisturbed(r)'
        <4>1. Undisturbed(r)
          BY <3>4
        <4> QED
          BY <3>1, <3>2, <3>3, <4>1 DEF Undisturbed
      <3> QED
        BY <3>1, <3>4
    <2> QED
      BY <2>1, <2>2, <2>3
  <1>9. ASSUME NEW r \in Runs, Compiled(r) PROVE IInv'
    <2>1. RecordsTrue'
      BY <1>9 DEF Compiled, NextPass, RecordsTrue
    <2>2. \A q \in Runs : Labelled(q)'
      BY <1>9 DEF Compiled, NextPass, Labelled
    <2>3. \A q \in quiet' : Undisturbed(q)'
      BY <1>9, CompiledKeeps DEF Compiled
    <2> QED
      BY <2>1, <2>2, <2>3
  <1>20. ASSUME NEW r \in Runs, NotCompiled(r) PROVE IInv'
    <2>1. RecordsTrue'
      BY <1>20 DEF NotCompiled, NextPass, Mishap, RecordsTrue
    <2>2. \A q \in Runs : Labelled(q)'
      BY <1>20 DEF NotCompiled, NextPass, Mishap, Labelled
    <2>3. \A q \in quiet' : Undisturbed(q)'
      <3>1. /\ pc[r] \in {"build", "compile"} /\ NextPass(r, TRUE) /\ quiet' = quiet
            /\ UNCHANGED <<source, out, mode, set, print, saw, exempt>>
        BY <1>20 DEF NotCompiled
      <3>2. \A q \in quiet' \ {r} : q \in quiet /\ Same(q)
        BY <3>1 DEF NextPass, Same
      <3>3. r \in quiet => Undisturbed(r)'
        <4> SUFFICES ASSUME r \in quiet PROVE Undisturbed(r)'
          OBVIOUS
        <4>1. Undisturbed(r) /\ Labelled(r)
          OBVIOUS
        <4>2. r \notin exempt => source \in Good
          BY <3>1, <4>1 DEF Undisturbed
        <4> QED
          BY <3>1, <4>1, <4>2, NextPassKeeps
      <3> QED
        BY <3>1, <3>2, <3>3, Frame
    <2> QED
      BY <2>1, <2>2, <2>3
  <1>10. ASSUME NEW r \in Runs, Install(r) PROVE IInv'
    <2>1. RecordsTrue'
      BY <1>10 DEF Install, Onward, RecordsTrue
    <2>2. \A q \in Runs : Labelled(q)'
      BY <1>10 DEF Install, Onward, Labelled
    <2>3. \A q \in quiet' : Undisturbed(q)'
      BY <1>10, InstallKeeps DEF Install
    <2> QED
      BY <2>1, <2>2, <2>3
  <1>21. ASSUME NEW r \in Runs, SudoInstalled(r) PROVE IInv'
    <2>1. RecordsTrue'
      BY <1>21 DEF SudoInstalled, Onward, RecordsTrue
    <2>2. \A q \in Runs : Labelled(q)'
      BY <1>21 DEF SudoInstalled, Onward, Labelled
    <2>3. \A q \in quiet' : Undisturbed(q)'
      BY <1>21, PlacedKeeps DEF SudoInstalled
    <2> QED
      BY <2>1, <2>2, <2>3
  <1>11. ASSUME NEW r \in Runs, Failed(r) PROVE IInv'
    <2>1. RecordsTrue'
      BY <1>11 DEF Failed, End, Mishap, RecordsTrue, Labelled, NoRecords
    <2>2. \A q \in Runs : Labelled(q)'
      BY <1>11 DEF Failed, End, Mishap, Labelled
    <2>3. \A q \in quiet' : Undisturbed(q)'
      <3>1. /\ source' = source /\ out' = out /\ quiet' \subseteq quiet \ {r}
            /\ \A q \in Runs \ {r} : Same(q)
        BY <1>11 DEF Failed, End, Mishap, Undisturbed, Same
      <3> QED
        BY <3>1, Frame
    <2> QED
      BY <2>1, <2>2, <2>3
  <1>12. ASSUME NEW r \in Runs, NotStamped(r) PROVE IInv'
    <2>1. RecordsTrue'
      BY <1>12 DEF NotStamped, End, Mishap, RecordsTrue, Labelled, NoRecords
    <2>2. \A q \in Runs : Labelled(q)'
      BY <1>12 DEF NotStamped, End, Mishap, Labelled
    <2>3. \A q \in quiet' : Undisturbed(q)'
      <3>1. /\ source' = source /\ out' = out /\ quiet' \subseteq quiet \ {r}
            /\ \A q \in Runs \ {r} : Same(q)
        BY <1>12 DEF NotStamped, End, Mishap, Undisturbed, Same
      <3> QED
        BY <3>1, Frame
    <2> QED
      BY <2>1, <2>2, <2>3
  <1>13. ASSUME NEW r \in Runs, Stamp(r) PROVE IInv'
    <2>1. RecordsTrue'
      BY <1>13 DEF Stamp, End, RecordsTrue, Labelled, NoRecords
    <2>2. \A q \in Runs : Labelled(q)'
      BY <1>13 DEF Stamp, End, Labelled
    <2>3. \A q \in quiet' : Undisturbed(q)'
      <3> SUFFICES ASSUME NEW q \in quiet' PROVE Undisturbed(q)'
        OBVIOUS
      <3>1. CASE q = r
        <4>1. /\ print' = [print EXCEPT ![r] = Now(r)] /\ Goto(r, "digest") /\ pc[r] = "stamp"
              /\ UNCHANGED <<mode, set, on, at, saw, exempt, quiet, source, out>>
          BY <1>13, <3>1 DEF Stamp, End
        <4>2. \A o \in Outputs(mode[r]) : saw[r][o] = Missing
          BY <4>1, OutputsPlaced DEF Labelled, Unseen
        <4>3. Undisturbed(r) /\ Now(r)' = Now(r) /\ print'[r] = Now(r)
          BY <3>1, <4>1
        <4> QED
          BY <3>1, <4>1, <4>2, <4>3 DEF Undisturbed
      <3>2. CASE q # r
        <4>1. q \in quiet /\ Same(q)
          BY <1>13, <3>2 DEF Stamp, End, Same
        <4> QED
          BY <4>1, Frame
      <3> QED
        BY <3>1, <3>2
    <2> QED
      BY <2>1, <2>2, <2>3
  <1>14. ASSUME NEW r \in Runs, Digest(r) PROVE IInv'
    <2>1. CASE End(r, "passed")
      <3>1. RecordsTrue'
        BY <1>14, <2>1 DEF Digest, End, RecordsTrue, NoRecords
      <3>2. \A q \in Runs : Labelled(q)'
        BY <1>14, <2>1 DEF Digest, End, Labelled
      <3>3. \A q \in quiet' : q \in quiet /\ Same(q)
        BY <1>14, <2>1 DEF Digest, End, Same
      <3> QED
        BY <3>1, <3>2, <3>3, Frame
    <2>2. ASSUME NEW o \in Unread(r), Read(r, o) PROVE IInv'
      <3>1. /\ saw' = [saw EXCEPT ![r][o] = out[o]] /\ pc[r] = "digest" /\ o \in Places
            /\ UNCHANGED <<source, out, file, pc, mode, set, at, pass, print, rec, held, exempt, quiet>>
            /\ saw \in [Runs -> [Places -> Digests \cup {Missing}]]
        BY <1>14, <2>2, OutputsPlaced DEF Digest, Read, Unread, Views
      <3>2. RecordsTrue'
        BY <3>1 DEF RecordsTrue
      <3>3. /\ \A q \in Runs \ {r} : saw'[q] = saw[q]
            /\ \A p \in Places : saw'[r][p] = IF p = o THEN out[o] ELSE saw[r][p]
            /\ Outputs(mode[r]) \subseteq Places
        BY <3>1, OutputsPlaced
      <3>4. \A q \in Runs : Labelled(q)'
        BY <3>1, <3>3 DEF Labelled
      <3>5. \A q \in quiet' : Undisturbed(q)'
        <4>1. \A q \in quiet' \ {r} : q \in quiet /\ Same(q)
          BY <3>1, <3>3 DEF Same
        <4>2. ASSUME r \in quiet PROVE Undisturbed(r)'
          <5>1. Undisturbed(r) /\ Now(r)' = Now(r)
            BY <3>1, <4>2
          <5>2. \A p \in Outputs(mode[r]) : saw'[r][p] \in {Missing, out[p]}
            BY <3>1, <3>3, <5>1 DEF Undisturbed
          <5> QED
            BY <3>1, <5>1, <5>2 DEF Undisturbed
        <4> QED
          BY <3>1, <4>1, <4>2, Frame
      <3> QED
        BY <3>2, <3>4, <3>5
    <2>3. CASE Unread(r) = {}
      <3> DEFINE record == [inputs |-> print[r], left |-> Left(r), gates |-> Gates(r),
                            outs |-> [o \in Outputs(mode[r]) |-> saw[r][o]]]
      <3>1. /\ rec' = [rec EXCEPT ![r] = record] /\ pc[r] = "digest"
            /\ Goto(r, "merge") /\ print' = [print EXCEPT ![r] = NoPrint]
            /\ saw' = [saw EXCEPT ![r] = Unseen]
            /\ quiet' = quiet \ {r} /\ exempt' = exempt \ {r}
            /\ UNCHANGED <<file, held, mode, set, at, pass, source, out>>
        BY <1>14, <2>3 DEF Digest
      <3>2. IsTrue(mode[r], record)
        BY <2>3, <3>1, DigestIsTrue
      <3> HIDE DEF record
      <3>3. RecordsTrue'
        BY <3>1, <3>2 DEF RecordsTrue
      <3>4. \A q \in Runs : Labelled(q)'
        BY <3>1 DEF Labelled
      <3>5. \A q \in quiet' : q \in quiet /\ Same(q)
        BY <3>1 DEF Same
      <3> QED
        BY <3>1, <3>3, <3>4, <3>5, Frame
    <2> QED
      BY <1>14, <2>1, <2>2, <2>3 DEF Digest
  <1>15. ASSUME NEW r \in Runs, Merge(r) PROVE IInv'
    <2>1. RecordsTrue'
      BY <1>15 DEF Merge, Files, RecordsTrue, Labelled, NoRecords
    <2>2. \A q \in Runs : Labelled(q)'
      BY <1>15 DEF Merge, Files, Labelled
    <2>3. \A q \in quiet' : Undisturbed(q)'
      <3>1. /\ source' = source /\ out' = out /\ quiet' \subseteq quiet \ {r}
            /\ \A q \in Runs \ {r} : Same(q)
        BY <1>15 DEF Merge, Files, Undisturbed, Same
      <3> QED
        BY <3>1, Frame
    <2> QED
      BY <2>1, <2>2, <2>3
  <1>16. ASSUME NEW r \in Runs, Truncate(r) PROVE IInv'
    <2>1. RecordsTrue'
      BY <1>16 DEF Truncate, RecordsTrue, Labelled, NoRecords
    <2>2. \A q \in Runs : Labelled(q)'
      BY <1>16 DEF Truncate, Labelled
    <2>3. \A q \in quiet' : Undisturbed(q)'
      <3>1. /\ source' = source /\ out' = out /\ quiet' \subseteq quiet \ {r}
            /\ \A q \in Runs \ {r} : Same(q)
        BY <1>16 DEF Truncate, Undisturbed, Same
      <3> QED
        BY <3>1, Frame
    <2> QED
      BY <2>1, <2>2, <2>3
  <1>17. ASSUME NEW r \in Runs, Write(r) PROVE IInv'
    <2>1. RecordsTrue'
      <3>1. End(r, "passed") /\ file' \in {held[r], NoRecords}
        BY <1>17 DEF Write
      <3>2. \A m \in Modes : IsTrue(m, file'[m])
        BY <3>1 DEF RecordsTrue, NoRecords
      <3> QED
        BY <3>1, <3>2 DEF End, RecordsTrue, NoRecords
    <2>2. \A q \in Runs : Labelled(q)'
      BY <1>17 DEF Write, End, Labelled
    <2>3. \A q \in quiet' : Undisturbed(q)'
      <3>1. /\ source' = source /\ out' = out /\ quiet' \subseteq quiet \ {r}
            /\ \A q \in Runs \ {r} : Same(q)
        BY <1>17 DEF Write, End, Undisturbed, Same
      <3> QED
        BY <3>1, Frame
    <2> QED
      BY <2>1, <2>2, <2>3
  <1>18. ASSUME NEW r \in Runs, Kill(r) PROVE IInv'
    <2>1. RecordsTrue'
      BY <1>18 DEF Kill, End, Mishap, RecordsTrue, Labelled, NoRecords
    <2>2. \A q \in Runs : Labelled(q)'
      BY <1>18 DEF Kill, End, Mishap, Labelled
    <2>3. \A q \in quiet' : Undisturbed(q)'
      <3>1. /\ source' = source /\ out' = out /\ quiet' \subseteq quiet \ {r}
            /\ \A q \in Runs \ {r} : Same(q)
        BY <1>18 DEF Kill, End, Mishap, Undisturbed, Same
      <3> QED
        BY <3>1, Frame
    <2> QED
      BY <2>1, <2>2, <2>3
  <1>19. CASE UNCHANGED vars
    <2>1. RecordsTrue' /\ \A q \in Runs : Labelled(q)'
      BY <1>19 DEF vars, RecordsTrue, Labelled
    <2>2. \A q \in quiet' : Undisturbed(q)'
      BY <1>19, Frame DEF vars, Same
    <2> QED
      BY <2>1, <2>2
  <1> QED
    BY <1>1, <1>2, <1>3, <1>4, <1>5, <1>6, <1>7, <1>8, <1>9, <1>10, <1>11, <1>12, <1>13, <1>14, <1>15, <1>16, <1>17, <1>18, <1>19, <1>20, <1>21 DEF Next, Step

(* Spec => []IInv. *)
THEOREM InductiveInvariant == Spec => []IInv
  BY TypeCorrect, InvInit, InvStep, PTL DEF Spec

(* Spec => []StampsAreTrue: whatever happens to the stamp file, a record that an
   undisturbed run left is of inputs that passed the gate and of outputs built of
   them (recordReuse, writeReuseStamp). *)
THEOREM StampsStayTrue == Spec => []StampsAreTrue
  <1>1. IInv => StampsAreTrue
    BY DEF IInv, RecordsTrue, StampsAreTrue
  <1> QED
    BY <1>1, InductiveInvariant, PTL

(* Only reuseSatisfied's comparison ends a run as reused. *)
LEMMA OnlyCompareReuses ==
  ASSUME TypeOK, Next, NEW r \in Runs, Reuses(r)
  PROVE  Compare(r)
  <1>1. pc[r] = "compare" /\ pc'[r] = "reused" /\ DOMAIN pc = Runs
    BY DEF Reuses, TypeOK
  <1>2. ~ Edit /\ ~ Meddle
    BY <1>1 DEF Edit, Meddle
  <1>3. PICK q \in Runs : Begin(q) \/ Step(q) \/ Kill(q)
    BY <1>2 DEF Next
  <1>4. (\E label : Goto(q, label)) \/ pc' = pc
    <2>1. Look(q) => \E label : Goto(q, label)
      BY DEF Look
    <2>2. Fingerprint(q) => \E label : Goto(q, label)
      BY DEF Fingerprint, NoReuse
    <2>3. Compare(q) => (\E label : Goto(q, label)) \/ pc' = pc
      BY DEF Compare, NoReuse, Read, End
    <2>4. Gate(q) => \E label : Goto(q, label)
      BY DEF Gate, End
    <2>5. Compile(q) => \E label : Goto(q, label)
      BY DEF Compile
    <2>6. Compiled(q) => \E label : Goto(q, label)
      BY DEF Compiled, NextPass
    <2>16. NotCompiled(q) => \E label : Goto(q, label)
      BY DEF NotCompiled, NextPass
    <2>17. SudoInstalled(q) => \E label : Goto(q, label)
      BY DEF SudoInstalled, Onward
    <2>7. Install(q) => \E label : Goto(q, label)
      BY DEF Install, Onward
    <2>8. Failed(q) => \E label : Goto(q, label)
      BY DEF Failed, End
    <2>9. NotStamped(q) => \E label : Goto(q, label)
      BY DEF NotStamped, End
    <2>10. Stamp(q) => \E label : Goto(q, label)
      BY DEF Stamp, End
    <2>11. Digest(q) => (\E label : Goto(q, label)) \/ pc' = pc
      BY DEF Digest, Read, End
    <2>12. Merge(q) => \E label : Goto(q, label)
      BY DEF Merge
    <2>13. Truncate(q) => \E label : Goto(q, label)
      BY DEF Truncate
    <2>14. Write(q) => \E label : Goto(q, label)
      BY DEF Write, End
    <2>15. Begin(q) \/ Kill(q) => \E label : Goto(q, label)
      BY DEF Begin, Kill, End
    <2> QED
      BY <1>3, <2>1, <2>2, <2>3, <2>4, <2>5, <2>6, <2>7, <2>8, <2>9, <2>10, <2>11, <2>12, <2>13, <2>14, <2>15, <2>16, <2>17 DEF Step
  <1>5. q = r
    BY <1>1, <1>4 DEF Goto
  <1>6. ~ Begin(r) /\ ~ Kill(r)
    BY <1>1 DEF Begin, Kill, End, Goto
  <1> QED
    BY <1>1, <1>3, <1>5, <1>6
    DEF Step, Look, Fingerprint, Gate, Compile, Compiled, NotCompiled, Install, SudoInstalled, Failed,
        NotStamped, Stamp, Digest, Merge, Truncate, Write

(* Spec => ReusedIsBuilt: a run that does nothing on such a record has found every
   output, as it digested it, built of the inputs it has fingerprinted; and all of them
   still are, when nobody else was at them or at the sources while it compared
   (reuseSatisfied, firstOutputMismatch). *)
THEOREM ReuseOnlyOfBuilt == Spec => ReusedIsBuilt
  <1> DEFINE Sound == \A r \in Runs : Reuses(r) /\ rec[r].left = "undisturbed" =>
         /\ rec[r].inputs = print[r]
         /\ Built(mode[r], saw[r], rec[r])
         /\ r \in quiet => print[r] = Now(r) /\ Built(mode[r], out, rec[r])
  <1>1. TypeOK /\ IInv /\ [Next]_vars => [Sound]_vars
    <2> SUFFICES ASSUME TypeOK, IInv, Next, NEW r \in Runs,
                        Reuses(r), rec[r].left = "undisturbed"
                 PROVE  /\ rec[r].inputs = print[r]
                        /\ Built(mode[r], saw[r], rec[r])
                        /\ r \in quiet => print[r] = Now(r) /\ Built(mode[r], out, rec[r])
      OBVIOUS
    <2>1. Compare(r)
      BY OnlyCompareReuses
    <2>2. Unread(r) = {}
      BY <2>1 DEF Compare, NoReuse, Read, Goto, Reuses, TypeOK
    <2>3. /\ rec[r] # NoRecord /\ rec[r].inputs = print[r] /\ IsTrue(mode[r], rec[r])
          /\ \A o \in Outputs(mode[r]) : saw[r][o] \in {Missing, rec[r].outs[o]}
      BY DEF Reuses, IInv, Labelled, RecordsTrue
    <2>4. Built(mode[r], rec[r].outs, rec[r])
      BY <2>3 DEF IsTrue
    <2>5. \A o \in Outputs(mode[r]) : saw[r][o] # Missing /\ saw[r][o] = rec[r].outs[o]
      BY <2>2, <2>3 DEF Unread
    <2>6. Built(mode[r], saw[r], rec[r])
      BY <2>4, <2>5 DEF Built
    <2>7. ASSUME r \in quiet PROVE print[r] = Now(r) /\ Built(mode[r], out, rec[r])
      <3>1. /\ print[r] = Now(r)
            /\ \A o \in Outputs(mode[r]) : saw[r][o] \in {Missing, out[o]}
        BY <2>7 DEF IInv, Undisturbed, Reuses
      <3> QED
        BY <2>5, <2>6, <3>1 DEF Built
    <2> QED
      BY <2>3, <2>6, <2>7
  <1> QED
    BY <1>1, TypeCorrect, InductiveInvariant, PTL DEF Spec, ReusedIsBuilt
=============================================================================
