------------------------------ MODULE MCPubSub ------------------------------
(* Small instances of PubSub.                                              *)
EXTENDS PubSub, TLC

(* Clients are interchangeable.                                            *)
Symmetry == Permutations(Clients)
=============================================================================
