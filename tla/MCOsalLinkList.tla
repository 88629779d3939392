---------------------------- MODULE MCOsalLinkList ----------------------------
(* Small instances of OsalLinkList: four nodes, two objects.               *)
EXTENDS OsalLinkList, TLC

CONSTANTS n1, n2, n3, n4, a, b

FourNodes == {n1, n2, n3, n4}
TwoData   == {a, b}

Symmetry == Permutations(Nodes) \cup Permutations(Data)
=============================================================================
