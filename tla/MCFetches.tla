----------------------------- MODULE MCFetches -----------------------------
(* Small instances of the two ways assets are fetched without the update    *)
(* lock.  They share no state: a behaviour is one of go-mk provision, or    *)
(* one of the release archives' downloads, chosen at its start.             *)
EXTENDS MCProvision, Delivery

VARIABLE fetches \* which of them

fetchVars == <<fetches, vars, deliveryVars>>

FetchesInit == fetches \in {"assets", "archives"} /\ Init /\ DeliveryInit

Provisions == fetches = "assets" /\ UNCHANGED <<fetches, deliveryVars>>
Delivers == fetches = "archives" /\ UNCHANGED <<fetches, vars>>

FetchesNext == (Provisions /\ Next) \/ (Delivers /\ DeliveryNext)

FetchesSpec ==
    /\ FetchesInit /\ [][FetchesNext]_fetchVars
    /\ \A p \in Pids : WF_fetchVars(Provisions /\ (Wait(p) \/ WorkStep(p)))
    /\ \A c \in Calls : WF_fetchVars(Delivers /\ Active(c) /\ CallStep(c))
=============================================================================
