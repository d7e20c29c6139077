----------------------------- MODULE MCRecords -----------------------------
(* Small instances of the three places where a record of an earlier run     *)
(* stands for what it saw: the fetch state beside .make, the key of an      *)
(* entry in the workflows' caches, and the baseline of a gate.  They share  *)
(* no state: a behaviour is one of exactly one of them, chosen at its       *)
(* start.                                                                   *)
EXTENDS MCProvision, OutputCache, MCGates

VARIABLE record \* which of them

recordVars == <<record, vars, cacheVars, gatesVars>>

RecordsInit ==
    /\ record \in {"fetch state", "cache", "baseline"}
    /\ Init /\ CacheInit /\ GatesInit

\* Runs one at a time are alike, so that it is enough to begin them in one order.
InTurn == (pc[p2] # "unborn" => pc[p1] # "unborn") /\ (pc[p3] # "unborn" => pc[p2] # "unborn")

RecordsNext ==
    /\ UNCHANGED record
    /\ \/ record = "fetch state" /\ Next /\ InTurn' /\ UNCHANGED <<cacheVars, gatesVars>>
       \/ record = "cache" /\ CacheNext /\ UNCHANGED <<vars, gatesVars>>
       \/ record = "baseline" /\ GatesNext /\ UNCHANGED <<vars, cacheVars>>

RecordsSpec == RecordsInit /\ [][RecordsNext]_recordVars
=============================================================================
