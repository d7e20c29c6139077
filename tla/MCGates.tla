------------------------------- MODULE MCGates -------------------------------
(* A small instance of Gates: two notices, one of them of a scope that is not  *)
(* all of its gate, and a finding that one platform alone shows.               *)
EXTENDS Gates

MCGateOrder == <<"golangci-lint", "deadcode", "staticcheck-extra">>
MCMatrix == <<"darwin", "linux">>
MCFindings == {"scoped", "other", "foreign", "dead", "sleep"}
MCGateOf == [f \in MCFindings |-> IF f = "dead" THEN "deadcode"
                                 ELSE IF f = "sleep" THEN "staticcheck-extra" ELSE "golangci-lint"]
MCSeenOn == [f \in MCFindings |-> IF f = "foreign" THEN {"linux"} ELSE {"darwin", "linux"}]
MCScope == [d \in {1, 2} |-> IF d = 1 THEN {"scoped"} ELSE {"sleep"}]
==============================================================================
