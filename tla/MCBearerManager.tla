--------------------------- MODULE MCBearerManager ---------------------------
EXTENDS BearerProperties, TLC

CONSTANTS ble, relay, h1, h2

\* Two bearers under two names, and two that share one ("Relay").
TwoNames == ble :> "BT" @@ relay :> "Relay"
OneName == ble :> "Relay" @@ relay :> "Relay"
Alone1 == ble :> "BT"

HostSymmetry == Permutations(Hosts)
=============================================================================
