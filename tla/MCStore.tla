------------------------------ MODULE MCStore -------------------------------
(* Values for the constants of Store.                                      *)
EXTENDS Store, TLC

CONSTANTS c1, c2, c3, k1, k2, h1, h2, h3, v1, v2, v3

ThreeClients == {c1, c2, c3}
TwoKeys == {k1, k2}
TwoChans == {h1, h2}
ThreeChans == {h1, h2, h3}
TwoValues == {v1, v2}
(* one key, two keys, and the same key twice *)
SomeKeyLists == {<<k1>>, <<k1, k2>>, <<k1, k1>>}

Symmetry == Permutations(Clients) \cup Permutations(Chans) \cup Permutations(Values)
=============================================================================
