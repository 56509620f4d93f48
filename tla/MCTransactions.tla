--------------------------- MODULE MCTransactions ---------------------------
(* Values for the constants of Transactions.                               *)
EXTENDS Transactions, TLC

CONSTANTS c1, c2, k1

TwoClients == {c1, c2}
OneKey == {k1}
TtlOrNot == BOOLEAN
OneKeyLists == {<<k1>>}

(* While a queue is longer than one, the other clients only read and write *)
(* the store.  The third place is for what EXEC queues while it runs.      *)
LongQueues ==
  \A c \in Clients :
    /\ Len(cmdQueue[c]) > 1 =>
         /\ \A d \in Clients \ {c} : ~isMultiActive[d] /\ cmdQueue[d] = <<>> /\ watched[d] = {}
         /\ \A k \in Keys : writes[k] < MaxWrites
    /\ Len(cmdQueue[c]) > 2 => pc[c] = "run"

Symmetry == Permutations(Clients)
=============================================================================
