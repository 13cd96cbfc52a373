-------------------------- MODULE MCConsumerAgent --------------------------
(* Instances of ConsumerAgent for TLC: more sessions than connections.     *)
EXTENDS ConsumerAgent

CONSTANTS s1, s2, s3, k1, k2, none

ThreeSessions == {s1, s2, s3}
TwoConns == {k1, k2}
=============================================================================
