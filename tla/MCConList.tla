----------------------------- MODULE MCConList -----------------------------
(* Addresses and connection IDs for model checking ConList.                *)
EXTENDS ConList, TLC

CONSTANTS n1, n2, n3, n4

FourNodes == {n1, n2, n3, n4}
FourIDs == 1 .. 4

Symmetry == Permutations(Addrs)
=============================================================================
