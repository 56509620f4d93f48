---------------------------- MODULE MCReplication ----------------------------
(* Small instances of Replication.                                         *)
EXTENDS Replication, TLC

(* Clients are interchangeable, and so are replicas.                       *)
Symmetry == Permutations(Clients) \cup Permutations(Replicas)

(* An action constraint, for all that replOffset is good for is the answer *)
(* to a GETACK.  A client's handler moves when the link's has a GETACK to  *)
(* answer or a command to count, and reads the offset right after its      *)
(* command; and once the link's handler has handled a command, nobody else *)
(* moves before it has counted it.  Every other step can come later.       *)
Counting(r) == due[r]["link"] > 0
Asked(r) == sync[r] = "stream" /\ link[r] # <<>> /\ Head(link[r]) = GetAck
CountsFirst ==
  \A r \in Replicas :
    /\ Counting(r) => due' # due \/ read' # read
    /\ due[r]["client"] > 0 /\ read[r]["client"] = -1 => read'[r]["client"] # -1
    /\ due'[r]["client"] # due[r]["client"] => Counting(r) \/ Asked(r)
    /\ locals' # locals => link[r] # <<>>

(* Where writes overlap, the offsets mean nothing any more, and no client  *)
(* of a replica adds to them.                                              *)
NoneOverlap == overlapped => locals = 0
=============================================================================
