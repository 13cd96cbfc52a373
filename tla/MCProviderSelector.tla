------------------------- MODULE MCProviderSelector -------------------------
(* Instances of ProviderSelector for TLC: the three sizes that the         *)
(* constructor knows and a name that it does not.                          *)
EXTENDS ProviderSelector

CONSTANTS w1, w2, bad

FourHosts == {"provider-small", "provider-medium", "provider-large", "provider-huge"}
OneWorker == {w1}
TwoWorkers == {w1, w2}
=============================================================================
