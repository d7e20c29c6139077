---------------------------- MODULE EngineProofs ----------------------------
(***************************************************************************)
(* What holds of the engine that make runs, from a checkout to a build that*)
(* skips its gates: for any make processes, and for any builds, runs, clocks*)
(* and keys.                                                               *)
(***************************************************************************)
EXTENDS Bootstrap, BuildGate, TLAPS

-----------------------------------------------------------------------------
(***************************************************************************)
(* Why an engine that was run is this checkout's own and whole, for any    *)
(* number of make processes: only what a checkout comes with is a link,    *)
(* and every way to an engine's execution passes a test that refuses links *)
(* or puts an own binary in place, which no later step turns into a link.  *)
(***************************************************************************)

(* The bound on what fails is a number. *)
LEMMA CrashBound == MaxCrash \in Nat
  BY BootstrapAssumption DEF BootstrapAssumption

\* Nothing runs before it is known what the checkout came with.
NothingRunsYet == helper = "unknown" => \A m \in Makes : at_make[m] = "idle"

BootTypeInv == BootTypeOK /\ NothingRunsYet

(* The helper, the engine's file and the processes keep to their types. *)
THEOREM BootTypeCorrect == BootSpec => []BootTypeInv
  <1> USE CrashBound
  <1>1. BootInit => BootTypeInv
    BY DEF BootInit, BootTypeInv, BootTypeOK, NothingRunsYet, NoEngine, EngineFiles, Binaries
  <1>2. BootTypeInv /\ [BootNext]_bootVars => BootTypeInv'
    <2> SUFFICES ASSUME BootTypeInv, [BootNext]_bootVars PROVE BootTypeInv'
      OBVIOUS
    <2> USE DEF BootTypeInv, BootTypeOK, NothingRunsYet, EngineFiles, Binaries, Own, NoEngine, GoOn, Crash
    <2>1. CASE Inherit
      <3>1. /\ helper' \in {"absent", "empty", "whole"}
            /\ settings' \in [dev : BOOLEAN, provisioned : BOOLEAN]
            /\ UNCHANGED <<at_make, executed, crashes>>
        BY <2>1 DEF Inherit
      <3>2. shared' \in Binaries
        BY <2>1 DEF Inherit
      <3>3. engine_file' \in EngineFiles
        <4>1. CASE engine_file' \in [binary : Binaries, link : {FALSE}]
          BY <4>1
        <4>2. CASE engine_file' = [binary |-> shared', link |-> TRUE]
          BY <3>2, <4>2
        <4> QED
          BY <2>1, <4>1, <4>2 DEF Inherit
      <3> QED
        BY <3>1, <3>2, <3>3
    <2>2. CASE OtherCheckout
      BY <2>2 DEF OtherCheckout
    <2>3. ASSUME NEW m \in Makes, BeginParse(m) PROVE BootTypeInv'
      BY <2>3 DEF BeginParse
    <2>4. ASSUME NEW m \in Makes, GetHelper(m) PROVE BootTypeInv'
      BY <2>4 DEF GetHelper
    <2>5. ASSUME NEW m \in Makes, HelperFails(m) PROVE BootTypeInv'
      BY <2>5 DEF HelperFails
    <2>6. ASSUME NEW m \in Makes, RunHelper(m) PROVE BootTypeInv'
      <3>1. helper \in {"absent", "empty", "whole"}
        BY <2>6 DEF RunHelper
      <3> QED
        BY <2>6, <3>1 DEF RunHelper
    <2>7. ASSUME NEW m \in Makes, ObtainEngine(m) PROVE BootTypeInv'
      BY <2>7 DEF ObtainEngine
    <2>8. ASSUME NEW m \in Makes, PutEngine(m) PROVE BootTypeInv'
      BY <2>8 DEF PutEngine
    <2>9. ASSUME NEW m \in Makes, ExecProvision(m) PROVE BootTypeInv'
      <3>1. helper' \in {helper, "whole"} /\ UNCHANGED <<engine_file, shared, settings>>
        BY <2>9 DEF ExecProvision
      <3>2. /\ executed' = [executed EXCEPT ![m] = engine_file]
            /\ GoOn(m, "exec", "ok") \/ GoOn(m, "exec", "error")
        BY <2>9 DEF ExecProvision
      <3>3. crashes' \in 0..MaxCrash
        BY <2>9 DEF ExecProvision
      <3>4. helper # "unknown"
        BY <3>2
      <3>5. BootTypeOK'
        <4>1. executed' \in [Makes -> EngineFiles]
          BY <3>2
        <4>2. at_make' \in [Makes -> {"idle", "helper", "bash", "engine", "exec", "target",
                 "resolve", "build", "install", "smoke", "unprovisioned", "ok", "error"}]
          BY <3>2
        <4>3. helper' \in {"unknown", "absent", "empty", "whole"}
          BY <3>1
        <4> QED
          BY <3>1, <3>3, <4>1, <4>2, <4>3
      <3>6. helper' # "unknown"
        BY <3>1, <3>4
      <3> QED
        BY <3>5, <3>6
    <2>10. ASSUME NEW m \in Makes, BeginTarget(m) PROVE BootTypeInv'
      BY <2>10 DEF BeginTarget, Parsed
    <2>11. ASSUME NEW m \in Makes, TargetEngine(m) PROVE BootTypeInv'
      BY <2>11 DEF TargetEngine
    <2>12. ASSUME NEW m \in Makes, ResolveBin(m) PROVE BootTypeInv'
      BY <2>12 DEF ResolveBin
    <2>13. ASSUME NEW m \in Makes, InstallEngine(m) PROVE BootTypeInv'
      BY <2>13 DEF InstallEngine
    <2>14. ASSUME NEW m \in Makes, BeginSmoke(m) PROVE BootTypeInv'
      BY <2>14 DEF BeginSmoke
    <2>15. ASSUME NEW m \in Makes, SmokeCopied(m) PROVE BootTypeInv'
      BY <2>15 DEF SmokeCopied
    <2>16. ASSUME NEW m \in Makes, MakeFails(m) PROVE BootTypeInv'
      BY <2>16 DEF MakeFails
    <2>17. ASSUME NEW m \in Makes, NextMake(m) PROVE BootTypeInv'
      BY <2>17 DEF NextMake
    <2>18. CASE UNCHANGED bootVars
      BY <2>18 DEF bootVars
    <2> QED
      BY <2>1, <2>2, <2>3, <2>4, <2>5, <2>6, <2>7, <2>8, <2>9, <2>10, <2>11, <2>12, <2>13,
         <2>14, <2>15, <2>16, <2>17, <2>18 DEF BootNext
  <1> QED
    BY <1>1, <1>2, PTL DEF BootSpec

\* An engine that is about to be executed, or installed once more, is no link.
NoLinkAhead ==
    \A m \in Makes : at_make[m] \in {"exec", "resolve", "install", "smoke"} => ~engine_file.link

BootInv == NoLinkAhead /\ EngineServesItsConsumer

(* Whatever a checkout comes with and whoever replaces the binaries it shares, an engine that a  *)
(* make process has run provides the command and is the checkout's own: obtain_go_mk in          *)
(* go-mk-bootstrap.sh and go-mk-bin.sh lets nothing else through.                                *)
THEOREM EngineAlwaysServes == BootSpec => []EngineServesItsConsumer
  <1> USE CrashBound
  <1>1. BootInit => BootInv
    BY DEF BootInit, BootInv, NoLinkAhead, EngineServesItsConsumer
  <1>2. BootTypeInv /\ BootInv /\ [BootNext]_bootVars => BootInv'
    <2> SUFFICES ASSUME BootTypeInv, BootInv, [BootNext]_bootVars PROVE BootInv'
      OBVIOUS
    <2> USE DEF BootInv, BootTypeInv, NothingRunsYet, NoLinkAhead, EngineServesItsConsumer, GoOn
    <2>1. CASE Inherit
      BY <2>1 DEF Inherit
    <2>2. CASE OtherCheckout
      BY <2>2 DEF OtherCheckout, BootTypeOK, EngineFiles
    <2>3. ASSUME NEW m \in Makes, BeginParse(m) PROVE BootInv'
      BY <2>3 DEF BeginParse, BootTypeOK
    <2>4. ASSUME NEW m \in Makes, GetHelper(m) PROVE BootInv'
      BY <2>4 DEF GetHelper, BootTypeOK
    <2>5. ASSUME NEW m \in Makes, HelperFails(m) PROVE BootInv'
      BY <2>5 DEF HelperFails, BootTypeOK
    <2>6. ASSUME NEW m \in Makes, RunHelper(m) PROVE BootInv'
      <3>1. helper \in {"whole", "empty", "absent"}
        BY <2>6 DEF RunHelper, BootTypeOK
      <3> QED
        BY <2>6, <3>1 DEF RunHelper, BootTypeOK
    <2>7. ASSUME NEW m \in Makes, ObtainEngine(m) PROVE BootInv'
      BY <2>7 DEF ObtainEngine, Reusable, BootTypeOK
    <2>8. ASSUME NEW m \in Makes, PutEngine(m) PROVE BootInv'
      BY <2>8 DEF PutEngine, Own, BootTypeOK
    <2>9. ASSUME NEW m \in Makes, ExecProvision(m) PROVE BootInv'
      <3>1. Provides(engine_file) => engine_file = Own
        BY <2>9 DEF ExecProvision, Provides, Own, BootTypeOK, EngineFiles
      <3> QED
        BY <2>9, <3>1 DEF ExecProvision, BootTypeOK
    <2>10. ASSUME NEW m \in Makes, BeginTarget(m) PROVE BootInv'
      BY <2>10 DEF BeginTarget, Parsed, BootTypeOK
    <2>11. ASSUME NEW m \in Makes, TargetEngine(m) PROVE BootInv'
      BY <2>11 DEF TargetEngine, Reusable, Own, BootTypeOK
    <2>12. ASSUME NEW m \in Makes, ResolveBin(m) PROVE BootInv'
      <3>1. Provides(engine_file) => engine_file = Own
        BY <2>12 DEF ResolveBin, Provides, Own, BootTypeOK, EngineFiles
      <3> QED
        BY <2>12, <3>1 DEF ResolveBin, BootTypeOK
    <2>13. ASSUME NEW m \in Makes, InstallEngine(m) PROVE BootInv'
      BY <2>13 DEF InstallEngine, Own, BootTypeOK
    <2>14. ASSUME NEW m \in Makes, BeginSmoke(m) PROVE BootInv'
      BY <2>14 DEF BeginSmoke, BootTypeOK
    <2>15. ASSUME NEW m \in Makes, SmokeCopied(m) PROVE BootInv'
      BY <2>15 DEF SmokeCopied, BootTypeOK
    <2>16. ASSUME NEW m \in Makes, MakeFails(m) PROVE BootInv'
      BY <2>16 DEF MakeFails, BootTypeOK
    <2>17. ASSUME NEW m \in Makes, NextMake(m) PROVE BootInv'
      BY <2>17 DEF NextMake, Parsed, BootTypeOK
    <2>18. CASE UNCHANGED bootVars
      BY <2>18 DEF bootVars
    <2> QED
      BY <2>1, <2>2, <2>3, <2>4, <2>5, <2>6, <2>7, <2>8, <2>9, <2>10, <2>11, <2>12, <2>13,
         <2>14, <2>15, <2>16, <2>17, <2>18 DEF BootNext
  <1>3. BootInv => EngineServesItsConsumer
    BY DEF BootInv
  <1> QED
    BY <1>1, <1>2, <1>3, BootTypeCorrect, PTL DEF BootSpec

(* No step of a make leaves an empty helper behind, so the parse goes on without an engine only   *)
(* in a checkout that came with one: it is moved into place whole, or removed with .make.         *)
THEOREM ParsedUnlessLeftEmpty ==
    BootSpec /\ [][Inherit => helper' # "empty"]_bootVars => []ParsedWithEngine
  <1> DEFINE Filled == helper # "empty" /\ ParsedWithEngine
  <1>1. BootInit => Filled
    BY DEF BootInit, ParsedWithEngine
  <1>2. ASSUME BootTypeInv, Filled, [BootNext]_bootVars, [Inherit => helper' # "empty"]_bootVars
        PROVE  Filled'
    <2> USE <1>2 DEF BootTypeInv, BootTypeOK, ParsedWithEngine, GoOn
    <2>1. CASE Inherit
      <3>1. CASE helper' # "empty"
        BY <2>1, <3>1 DEF Inherit
      <3>2. CASE UNCHANGED bootVars
        BY <3>2 DEF bootVars
      <3> QED
        BY <1>2, <2>1, <3>1, <3>2
    <2>2. CASE OtherCheckout
      BY <2>2 DEF OtherCheckout
    <2>3. ASSUME NEW m \in Makes, BeginParse(m) PROVE Filled'
      BY <2>3 DEF BeginParse
    <2>4. ASSUME NEW m \in Makes, GetHelper(m) PROVE Filled'
      BY <2>4 DEF GetHelper
    <2>5. ASSUME NEW m \in Makes, HelperFails(m) PROVE Filled'
      BY <2>5 DEF HelperFails
    <2>6. ASSUME NEW m \in Makes, RunHelper(m) PROVE Filled'
      <3>1. helper \in {"absent", "whole"} /\ UNCHANGED helper
        BY <2>6 DEF RunHelper, NothingRunsYet
      <3>2. CASE helper = "whole"
        BY <2>6, <3>1, <3>2 DEF RunHelper
      <3>3. CASE helper = "absent"
        BY <2>6, <3>1, <3>3 DEF RunHelper
      <3> QED
        BY <3>1, <3>2, <3>3
    <2>7. ASSUME NEW m \in Makes, ObtainEngine(m) PROVE Filled'
      BY <2>7 DEF ObtainEngine
    <2>8. ASSUME NEW m \in Makes, PutEngine(m) PROVE Filled'
      BY <2>8 DEF PutEngine
    <2>9. ASSUME NEW m \in Makes, ExecProvision(m) PROVE Filled'
      BY <2>9 DEF ExecProvision
    <2>10. ASSUME NEW m \in Makes, BeginTarget(m) PROVE Filled'
      BY <2>10 DEF BeginTarget, Parsed
    <2>11. ASSUME NEW m \in Makes, TargetEngine(m) PROVE Filled'
      BY <2>11 DEF TargetEngine
    <2>12. ASSUME NEW m \in Makes, ResolveBin(m) PROVE Filled'
      BY <2>12 DEF ResolveBin
    <2>13. ASSUME NEW m \in Makes, InstallEngine(m) PROVE Filled'
      BY <2>13 DEF InstallEngine
    <2>14. ASSUME NEW m \in Makes, BeginSmoke(m) PROVE Filled'
      BY <2>14 DEF BeginSmoke
    <2>15. ASSUME NEW m \in Makes, SmokeCopied(m) PROVE Filled'
      BY <2>15 DEF SmokeCopied
    <2>16. ASSUME NEW m \in Makes, MakeFails(m) PROVE Filled'
      BY <2>16 DEF MakeFails, Parsed
    <2>17. ASSUME NEW m \in Makes, NextMake(m) PROVE Filled'
      BY <2>17 DEF NextMake, Parsed
    <2>18. CASE UNCHANGED bootVars
      BY <2>18 DEF bootVars
    <2> QED
      BY <2>1, <2>2, <2>3, <2>4, <2>5, <2>6, <2>7, <2>8, <2>9,
         <2>10, <2>11, <2>12, <2>13, <2>14, <2>15, <2>16, <2>17, <2>18 DEF BootNext
  <1>3. Filled => ParsedWithEngine
    OBVIOUS
  <1> QED
    BY <1>1, <1>2, <1>3, BootTypeCorrect, PTL DEF BootSpec

-----------------------------------------------------------------------------
(***************************************************************************)
(* Why a build that skips its gates is of the run whose credentials it     *)
(* holds, for any builds, runs, clocks and keys: from the moment a build   *)
(* has a token, the token is that of its credentials, and the environment  *)
(* no longer changes.                                                      *)
(***************************************************************************)

(* The bounds are numbers, and there is a key to begin with. *)
LEMMA Bounds ==
    /\ ciProofClockSkew \in Nat /\ Lifetime \in Nat /\ MaxDrift \in Nat
    /\ MaxTicks \in Nat /\ MaxKey \in Nat \ {0}
  BY GateAssumption DEF GateAssumption

(* Clocks, tokens, keys and environments keep to their types. *)
THEOREM GateTypeCorrect == GateSpec => []GateTypeOK
  <1> USE Bounds
  <1>1. GateInit => GateTypeOK
    BY DEF GateInit, GateTypeOK, RunIds, NoToken
  <1>2. GateTypeOK /\ [GateNext]_gateVars => GateTypeOK'
    <2> SUFFICES ASSUME GateTypeOK, [GateNext]_gateVars PROVE GateTypeOK'
      OBVIOUS
    <2> USE DEF GateTypeOK, Reach
    <2>1. CASE Tick
      BY <2>1 DEF Tick
    <2>2. CASE RotateKey
      <3>1. signer \in 1..MaxKey /\ published \subseteq 1..MaxKey
        OBVIOUS
      <3>2. signer' \in 1..MaxKey /\ published' \subseteq 1..MaxKey
        <4>1. CASE /\ signer < MaxKey /\ published' = {signer, signer + 1}
                   /\ UNCHANGED signer
          <5>1. signer + 1 \in 1..MaxKey
            BY <3>1, <4>1
          <5> QED
            BY <3>1, <4>1, <5>1
        <4>2. CASE signer + 1 \in published /\ signer' = signer + 1 /\ UNCHANGED published
          BY <3>1, <4>2
        <4>3. CASE published' = {signer} /\ UNCHANGED signer
          BY <3>1, <4>3
        <4> QED
          BY <2>2, <4>1, <4>2, <4>3 DEF RotateKey
      <3> QED
        BY <2>2, <3>2 DEF RotateKey
    <2>3. ASSUME NEW r \in WorkflowRuns, RunMoves(r) PROVE GateTypeOK'
      BY <2>3 DEF RunMoves
    <2>4. ASSUME NEW b \in Builds, BeginBuild(b) PROVE GateTypeOK'
      BY <2>4 DEF BeginBuild
    <2>5. ASSUME NEW b \in Builds, RequestToken(b) PROVE GateTypeOK'
      BY <2>5 DEF RequestToken
    <2>6. ASSUME NEW b \in Builds, FetchKeys(b) PROVE GateTypeOK'
      BY <2>6 DEF FetchKeys
    <2>7. ASSUME NEW b \in Builds, ProofFails(b) PROVE GateTypeOK'
      BY <2>7 DEF ProofFails
    <2>8. ASSUME NEW b \in Builds, VerifyToken(b) PROVE GateTypeOK'
      <3>1. at_build' = [at_build EXCEPT ![b] = "proved"] \/ at_build' = [at_build EXCEPT ![b] = "checking"]
        BY <2>8 DEF VerifyToken
      <3>2. proved_at' = [proved_at EXCEPT ![b] = ticks] \/ UNCHANGED proved_at
        BY <2>8 DEF VerifyToken
      <3>3. UNCHANGED <<ticks, run_state, signer, published, env, drift, oidc, jwks>>
        BY <2>8 DEF VerifyToken
      <3>4. at_build' \in [Builds -> {"idle", "begun", "token", "keys", "checking", "proved"}]
        BY <3>1
      <3>5. proved_at' \in [Builds -> 0..MaxTicks]
        BY <3>2
      <3> QED
        BY <3>3, <3>4, <3>5
    <2>9. CASE UNCHANGED gateVars
      BY <2>9 DEF gateVars
    <2> QED
      BY <2>1, <2>2, <2>3, <2>4, <2>5, <2>6, <2>7, <2>8, <2>9 DEF GateNext
  <1> QED
    BY <1>1, <1>2, PTL DEF GateSpec

\* A token in hand is one of the run whose credentials the environment holds.
TokensAreOfCredentials ==
    \A b \in Builds :
        at_build[b] \in {"token", "keys", "proved"} => oidc[b].run = env[b].credentials

GateInv == TokensAreOfCredentials /\ SkippedGatesAreTheRuns

(* Whatever environment is left over, however the clocks go and the keys rotate, a build whose   *)
(* proof is accepted is of the run it names, and the token was not too old: claimsMatch in       *)
(* ci_proof.go leaves no other way to skip build-check.                                          *)
THEOREM SkippedAreTheRuns == GateSpec => []SkippedGatesAreTheRuns
  <1> USE Bounds
  <1>1. GateInit => GateInv
    BY DEF GateInit, GateInv, TokensAreOfCredentials, SkippedGatesAreTheRuns
  <1>2. GateTypeOK /\ GateInv /\ [GateNext]_gateVars => GateInv'
    <2> SUFFICES ASSUME GateTypeOK, GateInv, [GateNext]_gateVars PROVE GateInv'
      OBVIOUS
    <2> USE DEF GateInv, TokensAreOfCredentials, SkippedGatesAreTheRuns, Reach
    <2>1. CASE Tick
      BY <2>1 DEF Tick
    <2>2. CASE RotateKey
      BY <2>2 DEF RotateKey
    <2>3. ASSUME NEW r \in WorkflowRuns, RunMoves(r) PROVE GateInv'
      BY <2>3 DEF RunMoves
    \* only a build that is idle gets an environment
    <2>4. ASSUME NEW b \in Builds, BeginBuild(b) PROVE GateInv'
      BY <2>4 DEF BeginBuild, GateTypeOK
    <2>5. ASSUME NEW b \in Builds, RequestToken(b) PROVE GateInv'
      BY <2>5 DEF RequestToken, GateTypeOK
    <2>6. ASSUME NEW b \in Builds, FetchKeys(b) PROVE GateInv'
      BY <2>6 DEF FetchKeys, GateTypeOK
    <2>7. ASSUME NEW b \in Builds, ProofFails(b) PROVE GateInv'
      BY <2>7 DEF ProofFails, GateTypeOK
    <2>8. ASSUME NEW b \in Builds, VerifyToken(b) PROVE GateInv'
      <3>1. CASE ~(oidc[b].key \in jwks[b] /\ ClaimsMatch(b))
        BY <2>8, <3>1 DEF VerifyToken, GateTypeOK
      <3>2. CASE oidc[b].key \in jwks[b] /\ ClaimsMatch(b)
        <4>1. env[b].id = env[b].credentials
          BY <2>8, <3>2 DEF VerifyToken, ClaimsMatch
        \* the machine's clock is slow by MaxDrift at most
        <4>2. ticks - oidc[b].issued < Lifetime + ciProofClockSkew + MaxDrift
          <5>1. oidc[b].issued \in Int /\ ticks \in Int /\ drift[b] \in Int /\ -MaxDrift <= drift[b]
            BY DEF GateTypeOK
          <5> QED
            BY <3>2, <5>1 DEF ClaimsMatch
        <4> QED
          BY <2>8, <3>2, <4>1, <4>2 DEF VerifyToken, GateTypeOK
      <3> QED
        BY <3>1, <3>2
    <2>9. CASE UNCHANGED gateVars
      BY <2>9 DEF gateVars
    <2> QED
      BY <2>1, <2>2, <2>3, <2>4, <2>5, <2>6, <2>7, <2>8, <2>9 DEF GateNext
  <1>3. GateInv => SkippedGatesAreTheRuns
    BY DEF GateInv
  <1> QED
    BY <1>1, <1>2, <1>3, GateTypeCorrect, PTL DEF GateSpec
=============================================================================
