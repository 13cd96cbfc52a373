----------------------------- MODULE MCRegistry -----------------------------
(* Instances of Registry for TLC: two or three provider agents, of which    *)
(* one has a name that the selector knows and another has any name.         *)
EXTENDS Registry

CONSTANTS p1, p2, p3

TwoProviders == {p1, p2}
ThreeProviders == {p1, p2, p3}

MCInit == Init /\ \A p \in Providers \ {p2} : name[p] = "sized"

MCSpec == MCInit /\ [][Next]_vars
=============================================================================
