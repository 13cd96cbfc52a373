----------------------------- MODULE MCCoroPool -----------------------------
(* Instances of CoroPool for TLC. *)
EXTENDS CoroPool

CONSTANTS c1, c2, c3, c4, c5

ThreeCoroutines == {c1, c2, c3}
FourCoroutines == {c1, c2, c3, c4}
FiveCoroutines == {c1, c2, c3, c4, c5}
=============================================================================
