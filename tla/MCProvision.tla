---------------------------- MODULE MCProvision ----------------------------
(* Small instances of Provision: runs after one another, or side by side. *)
EXTENDS Provision

CONSTANTS p1, p2, p3
TwoPids == {p1, p2}
ThreePids == {p1, p2, p3}
MCBase == <<"go.mk", "golangci.yml">>
MCModules == {"go-build.mk"}
NoModules == {}
MCRefs == {"main", "next"}
OneRef == {"main"}
MCDev == {"go.mk"}

Setting(mods, ref, how) ==
    [mods |-> mods, ref |-> ref, dev |-> "dev" \in how, vendored |-> "vendored" \in how, ci |-> "ci" \in how]
EverySource ==
    {Setting(MCModules, "main", how) : how \in {{}, {"dev"}, {"ci"}, {"vendored", "ci"}}}
        \cup {Setting(MCModules, "next", {})}
LocalOnly == {Setting({}, "main", {})}
LocalOrCI == {Setting({}, "main", how) : how \in {{}, {"ci"}}}
=============================================================================
