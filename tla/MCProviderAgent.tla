-------------------------- MODULE MCProviderAgent --------------------------
(* Instances of ProviderAgent for TLC: two sessions with a consumer agent. *)
EXTENDS ProviderAgent

CONSTANTS s1, s2, d1, d2, none

TwoSessions == {s1, s2}
TwoConns == {d1, d2}
=============================================================================
