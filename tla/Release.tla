------------------------------ MODULE Release ------------------------------
(***************************************************************************)
(* go-mk release: the stages of RELEASE_STAGE as the release workflow      *)
(* drives them, one leg per platform (compile, then sign, archive and      *)
(* attest), then publish and verify; and the empty stage, which runs all   *)
(* of it on one machine.  Failed jobs may be run again.  A file is         *)
(* modelled by what has been done to it.                                   *)
(***************************************************************************)
EXTENDS Naturals, FiniteSets

CONSTANTS
    ReleasePlatforms, \* RELEASE_PLATFORMS
    Darwin,           \* those of them that are darwin
    ReleaseBins,      \* the binaries RELEASE_BINS names
    Filter,           \* Filter[b]: the platforms of its options, {} for none
    darwinSignAttempts, \* 3 in the code
    MaxReruns         \* bound: how often failed jobs are run again

ASSUME ReleaseAssumption ==
    /\ IsFiniteSet(ReleasePlatforms) /\ Darwin \subseteq ReleasePlatforms
    /\ Filter \in [ReleaseBins -> SUBSET ReleasePlatforms]
    /\ darwinSignAttempts \in Nat \ {0} /\ MaxReruns \in Nat

Pairs == ReleaseBins \X ReleasePlatforms
BuildsFor(b, p) == Filter[b] = {} \/ p \in Filter[b]
BuiltFor(p) == {x \in Pairs : x[2] = p /\ BuildsFor(x[1], p)}
releaseAssetNames == {x \in Pairs : BuildsFor(x[1], x[2])}
NoRelease == [archives |-> {}, bundles |-> {}, sums |-> {}]

VARIABLES
    pipeline, \* "matrix" or "allInOne", once it has started
    config,   \* QUILL_SIGN_P12 is set, REQUIRE_DARWIN_CODESIGN is set
    leg,      \* where the job of each platform is
    binary,   \* dist/<name>_<os>_<arch>/<name>
    signs,    \* failed sign-and-notarize attempts of each binary
    archive,  \* its .tar.gz: what was in the binary then
    bundle_of,\* the archives with a provenance bundle beside them
    publish,  \* the publish job
    released, \* the release on GitHub
    reruns    \* how many jobs were run again

releaseVars ==
    <<pipeline, config, leg, binary, signs, archive, bundle_of, publish, released, reruns>>

LegStates == {"todo", "compiled", "signed", "packaged", "compileFailed", "packageFailed"}

ReleaseTypeOK ==
    /\ pipeline \in {"none", "matrix", "allInOne"}
    /\ config \in [material : BOOLEAN, required : BOOLEAN]
    /\ leg \in [ReleasePlatforms -> LegStates]
    /\ binary \in [Pairs -> {"absent", "built", "signed"}] /\ archive \in [Pairs -> {"absent", "built", "signed"}]
    /\ signs \in [Pairs -> 0..darwinSignAttempts] /\ bundle_of \subseteq Pairs
    /\ publish \in {"todo", "done", "failed", "verified", "notVerified"}
    /\ released \in [archives : SUBSET Pairs, bundles : SUBSET Pairs, sums : SUBSET Pairs]
    /\ reruns \in 0..MaxReruns

ReleaseInit ==
    /\ pipeline = "none" /\ config = [material |-> FALSE, required |-> FALSE]
    /\ leg = [p \in ReleasePlatforms |-> "todo"]
    /\ binary = [x \in Pairs |-> "absent"] /\ archive = binary /\ signs = [x \in Pairs |-> 0]
    /\ bundle_of = {} /\ publish = "todo" /\ released = NoRelease /\ reruns = 0

\* An error ends the all-in-one run, and its legs take each step together.
Running == publish = "todo" /\ (pipeline = "allInOne" =>
               \A p \in ReleasePlatforms : leg[p] \notin {"compileFailed", "packageFailed"})
InStep(p, states) == pipeline = "allInOne" => \A q \in ReleasePlatforms : leg[q] \in states

\* loadReleaseConfig and emitReleaseTag: one tag for all jobs.
StartRelease ==
    /\ pipeline = "none"
    /\ pipeline' \in {"matrix", "allInOne"}
    /\ config' \in [material : BOOLEAN, required : BOOLEAN]
    /\ UNCHANGED <<leg, binary, signs, archive, bundle_of, publish, released, reruns>>

\* compileStage, and the upload of dist, which refuses an empty one.
CompileLeg(p) ==
    /\ pipeline # "none" /\ Running /\ leg[p] = "todo"
    /\ BuiltFor(p) # {} \/ pipeline = "allInOne"
    /\ leg' = [leg EXCEPT ![p] = "compiled"]
    /\ binary' = [x \in Pairs |-> IF x \in BuiltFor(p) THEN "built" ELSE binary[x]]
    /\ UNCHANGED <<pipeline, config, signs, archive, bundle_of, publish, released, reruns>>

\* A build, a dependency or an upload that fails.
CompileFails(p) ==
    /\ pipeline # "none" /\ Running /\ leg[p] = "todo"
    /\ leg' = [leg EXCEPT ![p] = "compileFailed"]
    /\ UNCHANGED <<pipeline, config, binary, signs, archive, bundle_of, publish, released, reruns>>

MustSign(p) == p \in Darwin /\ config.material
Packaging(p) == Running /\ leg[p] = "compiled" /\ InStep(p, {"compiled", "signed", "packaged"})

SignBinary(x) ==
    /\ Packaging(x[2]) /\ MustSign(x[2]) /\ binary[x] = "built"
    /\ signs[x] < darwinSignAttempts
    /\ \/ binary' = [binary EXCEPT ![x] = "signed"] /\ UNCHANGED signs
       \/ signs' = [signs EXCEPT ![x] = @ + 1] /\ UNCHANGED binary
    /\ UNCHANGED <<pipeline, config, leg, archive, bundle_of, publish, released, reruns>>

SigningGivenUp(p) ==
    /\ Packaging(p)
    /\ IF MustSign(p) THEN \A x \in BuiltFor(p) : binary[x] = "signed" \/ signs[x] = darwinSignAttempts
                      ELSE p \in Darwin => ~config.required
    /\ leg' = [leg EXCEPT ![p] = "signed"]
    /\ UNCHANGED <<pipeline, config, binary, signs, archive, bundle_of, publish, released, reruns>>

SigningDone(p) ==
    /\ Packaging(p)
    /\ IF MustSign(p) THEN \A x \in BuiltFor(p) : binary[x] = "signed"
                      ELSE p \in Darwin => ~config.required
    /\ leg' = [leg EXCEPT ![p] = "signed"]
    /\ UNCHANGED <<pipeline, config, binary, signs, archive, bundle_of, publish, released, reruns>>

\* archivePlatforms; in the workflow the job then attests its archives, copies the bundle beside
\* each, and uploads them.
ArchiveLeg(p) ==
    /\ Running /\ leg[p] = "signed" /\ InStep(p, {"signed", "packaged"})
    /\ leg' = [leg EXCEPT ![p] = "packaged"]
    /\ archive' = [x \in Pairs |-> IF x \in BuiltFor(p) THEN binary[x] ELSE archive[x]]
    /\ bundle_of' = IF pipeline = "matrix" THEN bundle_of \cup BuiltFor(p) ELSE bundle_of
    /\ UNCHANGED <<pipeline, config, binary, signs, publish, released, reruns>>

\* The last attempt to sign, signing that is required without material, or any other error.
PackageFails(p) ==
    /\ Packaging(p) \/ (Running /\ leg[p] = "signed")
    /\ leg' = [leg EXCEPT ![p] = "packageFailed"]
    /\ UNCHANGED <<pipeline, config, binary, signs, archive, bundle_of, publish, released, reruns>>

\* "Re-run failed jobs": a fresh machine, with the artefact of the compile job if there is one.
RerunLeg(p) ==
    /\ pipeline = "matrix" /\ reruns < MaxReruns
    /\ leg[p] \in {"compileFailed", "packageFailed"}
    /\ LET again == IF leg[p] = "compileFailed" THEN "absent" ELSE "built"
       IN  binary' = [x \in Pairs |-> IF x \in BuiltFor(p) THEN again ELSE binary[x]]
    /\ leg' = [leg EXCEPT ![p] = IF @ = "compileFailed" THEN "todo" ELSE "compiled"]
    /\ signs' = [x \in Pairs |-> IF x[2] = p THEN 0 ELSE signs[x]]
    /\ reruns' = reruns + 1
    /\ UNCHANGED <<pipeline, config, archive, bundle_of, publish, released>>

\* Every archive and bundle that is in dist, and checksums over the archives.
Uploaded ==
    LET present == {x \in Pairs : archive[x] # "absent"}
    IN  [archives |-> present, bundles |-> bundle_of, sums |-> present]

\* publishStage, or the end of executeRelease: one gh release create, which refuses a tag that
\* exists.  Its answer may be lost.
Publish ==
    /\ pipeline # "none" /\ publish = "todo"
    /\ \A p \in ReleasePlatforms : leg[p] = "packaged"
    /\ \/ publish' = "done" /\ released = NoRelease /\ released' = Uploaded
       \/ publish' = "failed" /\ released' \in {released} \cup (IF released = NoRelease THEN {Uploaded} ELSE {})
    /\ UNCHANGED <<pipeline, config, leg, binary, signs, archive, bundle_of, reruns>>

RerunPublish ==
    /\ pipeline = "matrix" /\ publish = "failed" /\ reruns < MaxReruns
    /\ publish' = "todo" /\ reruns' = reruns + 1
    /\ UNCHANGED <<pipeline, config, leg, binary, signs, archive, bundle_of, released>>

\* verify-release with the required assets: every archive by checksum and bundle.
VerifyRelease ==
    /\ pipeline = "matrix" /\ publish = "done"
    /\ \/ /\ releaseAssetNames \subseteq released.sums
          /\ released.archives \subseteq released.sums \cap released.bundles
          /\ publish' = "verified"
       \/ publish' = "notVerified"
    /\ UNCHANGED <<pipeline, config, leg, binary, signs, archive, bundle_of, released, reruns>>

ReleaseNext ==
    \/ StartRelease \/ Publish \/ RerunPublish \/ VerifyRelease
    \/ \E p \in ReleasePlatforms :
        \/ CompileLeg(p) \/ CompileFails(p) \/ SigningDone(p) \/ ArchiveLeg(p)
        \/ PackageFails(p) \/ RerunLeg(p)
    \/ \E x \in Pairs : SignBinary(x)

ReleaseSpec == ReleaseInit /\ [][ReleaseNext]_releaseVars

(* A release that users can see is whole, whichever jobs failed and were run again, and even if  *)
(* the job that published it failed: it holds an archive for every binary and platform that      *)
(* make go-mk-release-assets lists and no other, each in the checksum file; a darwin archive is  *)
(* signed when signing is required or possible; in the workflow each archive has its bundle.     *)
ReleasedIsWhole ==
    released # NoRelease =>
        /\ released.archives = releaseAssetNames /\ released.sums = releaseAssetNames
        /\ pipeline = "matrix" => released.bundles = releaseAssetNames
        /\ config.material \/ config.required =>
            \A x \in released.archives : x[2] \in Darwin => archive[x] = "signed"
=============================================================================
