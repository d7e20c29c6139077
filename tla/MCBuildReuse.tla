---------------------------- MODULE MCBuildReuse ----------------------------
(* Small instances of BuildReuse: runs, an editor and a meddler. *)
EXTENDS BuildReuse, TLC

CONSTANTS r1, r2, fine, broken, plain, tagged

TwoRuns == {r1, r2}
EitherRun == Permutations(TwoRuns)
MCModes == {"install", "build-gate"}
GateOnly == {"build-gate"}
MCContents == {fine, broken}
MCGood == {fine}
MCSettings == {plain, tagged}
OneSetting == {plain}
NoProof == {FALSE}
MCProof == {TRUE, FALSE}
=============================================================================
