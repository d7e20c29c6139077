----------------------------- MODULE BuildGate -----------------------------
(***************************************************************************)
(* go-mk build-gate: a build runs build-check first unless GitHub's OIDC   *)
(* token proves that it belongs to a workflow run, whose gate job then     *)
(* does.  The environment that names the run may be left over, or of       *)
(* another run.  GitHub is outside: it issues tokens to runs in progress,  *)
(* rotates the keys that sign them and publishes the current ones.         *)
(***************************************************************************)
EXTENDS Integers, FiniteSets

CONSTANTS
    Builds,       \* builds, in a run or in a shell
    WorkflowRuns, \* GITHUB_RUN_IDs, of one repository
    ciProofClockSkew, \* in ticks: 30 s in the code
    Lifetime,     \* how long a token is valid, in ticks
    MaxDrift,     \* bound: how far a machine's clock is off
    MaxTicks, MaxKey \* bounds: the clock, the signing keys

ASSUME GateAssumption ==
    /\ {ciProofClockSkew, Lifetime, MaxDrift, MaxTicks, MaxKey} \subseteq Nat /\ MaxKey # 0
    /\ IsFiniteSet(Builds)

NoRunId == "none"
NoToken == [run |-> NoRunId, issued |-> 0, key |-> 0]

VARIABLES
    ticks,    \* the true time
    run_state,\* each run: not begun, in progress, over
    signer,   \* the key GitHub signs with
    published,\* the keys of the JWKS
    at_build, \* where each build is
    env,      \* its environment: GITHUB_RUN_ID, and the run whose credentials it holds
    drift,    \* what its machine's clock adds to the time
    oidc,     \* the token it got
    jwks,     \* the keys it got
    proved_at \* history: the time at which it was proved

gateVars == <<ticks, run_state, signer, published, at_build, env, drift, oidc, jwks, proved_at>>

RunIds == WorkflowRuns \cup {NoRunId}

GateTypeOK ==
    /\ ticks \in 0..MaxTicks /\ signer \in 1..MaxKey /\ published \subseteq 1..MaxKey
    /\ run_state \in [WorkflowRuns -> {"queued", "inProgress", "over"}]
    /\ at_build \in [Builds -> {"idle", "begun", "token", "keys", "checking", "proved"}]
    /\ env \in [Builds -> [id : RunIds, credentials : RunIds]]
    /\ drift \in [Builds -> -MaxDrift..MaxDrift] /\ jwks \in [Builds -> SUBSET (1..MaxKey)]
    /\ oidc \in [Builds -> [run : RunIds, issued : 0..MaxTicks, key : 0..MaxKey]]
    /\ proved_at \in [Builds -> 0..MaxTicks]

GateInit ==
    /\ ticks = 0 /\ run_state = [r \in WorkflowRuns |-> "queued"] /\ signer = 1 /\ published = {1}
    /\ at_build = [b \in Builds |-> "idle"]
    /\ env = [b \in Builds |-> [id |-> NoRunId, credentials |-> NoRunId]]
    /\ drift = [b \in Builds |-> 0] /\ oidc = [b \in Builds |-> NoToken]
    /\ jwks = [b \in Builds |-> {}] /\ proved_at = [b \in Builds |-> 0]

Tick ==
    /\ ticks < MaxTicks /\ ticks' = ticks + 1
    /\ UNCHANGED <<run_state, signer, published, at_build, env, drift, oidc, jwks, proved_at>>

\* A run begins or ends; with its end its credentials do.
RunMoves(r) ==
    /\ run_state' = [run_state EXCEPT ![r] = IF @ = "queued" THEN "inProgress" ELSE "over"]
    /\ run_state[r] # "over"
    /\ UNCHANGED <<ticks, signer, published, at_build, env, drift, oidc, jwks, proved_at>>

\* GitHub publishes the next key, signs with it, and withdraws the one before.
RotateKey ==
    /\ \/ published = {signer} /\ signer < MaxKey /\ published' = {signer, signer + 1} /\ UNCHANGED signer
       \/ signer + 1 \in published /\ signer' = signer + 1 /\ UNCHANGED published
       \/ signer - 1 \in published /\ published' = {signer} /\ UNCHANGED signer
    /\ UNCHANGED <<ticks, run_state, at_build, env, drift, oidc, jwks, proved_at>>

-----------------------------------------------------------------------------
Reach(b, to) == at_build' = [at_build EXCEPT ![b] = to]

\* A build in a run that is in progress, or with any environment an earlier one left.
BeginBuild(b) ==
    /\ at_build[b] = "idle"
    /\ \E e \in [id : RunIds, credentials : RunIds] :
        /\ \A r \in {e.id, e.credentials} \ {NoRunId} : run_state[r] # "queued"
        /\ env' = [env EXCEPT ![b] = e]
        /\ Reach(b, IF NoRunId \in {e.id, e.credentials} THEN "checking" ELSE "begun")
    /\ \E d \in -MaxDrift..MaxDrift : drift' = [drift EXCEPT ![b] = d]
    /\ UNCHANGED <<ticks, run_state, signer, published, oidc, jwks, proved_at>>

\* requestOIDCToken.
RequestToken(b) ==
    /\ at_build[b] = "begun" /\ run_state[env[b].credentials] = "inProgress"
    /\ oidc' = [oidc EXCEPT ![b] = [run |-> env[b].credentials, issued |-> ticks, key |-> signer]]
    /\ Reach(b, "token")
    /\ UNCHANGED <<ticks, run_state, signer, published, env, drift, jwks, proved_at>>

FetchKeys(b) ==
    /\ at_build[b] = "token"
    /\ jwks' = [jwks EXCEPT ![b] = published]
    /\ Reach(b, "keys")
    /\ UNCHANGED <<ticks, run_state, signer, published, env, drift, oidc, proved_at>>

\* A request that is refused or fails: the build checks for itself.
ProofFails(b) ==
    /\ at_build[b] \in {"begun", "token"}
    /\ Reach(b, "checking")
    /\ UNCHANGED <<ticks, run_state, signer, published, env, drift, oidc, jwks, proved_at>>

ClaimsMatchUnexpired(b) ==
    /\ oidc[b].run = env[b].id
    /\ oidc[b].issued <= ticks + drift[b] + ciProofClockSkew

\* claimsMatch, with this machine's clock.
ClaimsMatch(b) ==
    LET now == ticks + drift[b] IN
    /\ oidc[b].run = env[b].id
    /\ oidc[b].issued + Lifetime > now - ciProofClockSkew
    /\ oidc[b].issued <= now + ciProofClockSkew

VerifyToken(b) ==
    /\ at_build[b] = "keys"
    /\ IF oidc[b].key \in jwks[b] /\ ClaimsMatch(b)
       THEN Reach(b, "proved") /\ proved_at' = [proved_at EXCEPT ![b] = ticks]
       ELSE Reach(b, "checking") /\ UNCHANGED proved_at
    /\ UNCHANGED <<ticks, run_state, signer, published, env, drift, oidc, jwks>>

GateNext ==
    \/ Tick \/ RotateKey
    \/ \E r \in WorkflowRuns : RunMoves(r)
    \/ \E b \in Builds : BeginBuild(b) \/ RequestToken(b) \/ FetchKeys(b) \/ ProofFails(b) \/ VerifyToken(b)

GateSpec == GateInit /\ [][GateNext]_gateVars

-----------------------------------------------------------------------------
(* A build that skips its own gates names the run whose credentials it holds, and GitHub vouched *)
(* for that run no longer ago than a token lives, the allowed skew and the error of the          *)
(* machine's clock aside: an environment left over from a run that is over, or put together from *)
(* two runs, skips nothing, however long the two requests take and whichever keys rotate.        *)
SkippedGatesAreTheRuns ==
    \A b \in Builds :
        at_build[b] = "proved" =>
            /\ env[b].id = env[b].credentials
            /\ proved_at[b] - oidc[b].issued < Lifetime + ciProofClockSkew + MaxDrift
=============================================================================
