----------------------------- MODULE MCListOps ------------------------------
(* Values for the constants of ListOps.  Clients, channels and values are  *)
(* interchangeable; the symmetry is used by the runs without liveness.     *)
EXTENDS ListOps, TLC

CONSTANTS c1, c2, c3, k1, k2, h1, h2, h3, h4, v1, v2, v3, v4

TwoClients == {c1, c2}
ThreeClients == {c1, c2, c3}
OneKey == {k1}
TwoKeys == {k1, k2}
TwoChans == {h1, h2}
ThreeChans == {h1, h2, h3}
FourChans == {h1, h2, h3, h4}
TwoValues == {v1, v2}
ThreeValues == {v1, v2, v3}
FourValues == {v1, v2, v3, v4}
NoLPop == {}
AnyCount == {-1, 0, 1, 2}

(* Values and channels being interchangeable, a run with liveness, which   *)
(* cannot use the symmetry, lets them be taken in one order only: every    *)
(* behaviour is one of these with values and channels renamed.             *)
InOneOrder ==
  /\ pushed' \in {{}, {v1}, {v1, v2}, {v1, v2, v3}}
  /\ made'[h2] # "none" => made'[h1] # "none"

(* An LPOP that was overtaken may put back what others popped, and so on   *)
(* without end: no LPOP is called once a value was popped twice.           *)
FewDoubles ==
  (\E c \in Clients : pc[c] = "idle" /\ pc'[c] = "lpopCheck")
    => \A v \in Values : popped[v] < 2

Symmetry == Permutations(Clients) \cup Permutations(Chans) \cup Permutations(Values)
=============================================================================
