----------------------------- MODULE MCLinkList -----------------------------
(* Addresses, indexes and the groups of functions a caller may keep to.    *)
EXTENDS LinkList, TLC

CONSTANTS n1, n2, n3, i1, i2

\* Three: enough for a list that reads the same both ways and more.
ThreeNodes == {n1, n2, n3}
TwoIndexes == {i1, i2}
AnyOrOneEnd ==
  {Operations, {"add_first", "remove_first", "find_node"}, {"add_last", "remove_last"}}

Symmetry == Permutations(Addrs)
=============================================================================
