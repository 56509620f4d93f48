---------------------------- MODULE MCStreamOps -----------------------------
(* Values for the constants of StreamOps.                                  *)
EXTENDS StreamOps, TLC

CONSTANTS c1, c2, c3, k1, k2, h1, h2, h3, v1

TwoClients == {c1, c2}
ThreeClients == {c1, c2, c3}
TwoKeys == {k1, k2}
ThreeChans == {h1, h2, h3}
TwoChans == {h1, h2}
OneValue == {v1}
(* one key, and two keys *)
OneOrTwoKeys == {<<k1>>, <<k1, k2>>}

Symmetry == Permutations(Clients) \cup Permutations(Chans)
=============================================================================
