----------------------------- MODULE ListPromise -----------------------------
(***************************************************************************)
(* What a list with blocking pops promises, without channels, mutex and    *)
(* timers.  A push hands its first value to the client that waits longest, *)
(* in one step, and adds the others; a client takes what it was handed or, *)
(* when it was handed nothing, may leave the queue.                        *)
(***************************************************************************)
EXTENDS Naturals, Sequences, SequencesExt

CONSTANTS Clients, Keys, Values, Empty, MaxBatch

VARIABLES
  list,    \* the list of each key
  queue,   \* the clients that wait on each key, longest wait first
  hand,    \* the value a client has been handed and not yet taken
  popped   \* how often each value was taken

vars == <<list, queue, hand, popped>>

Init ==
  /\ list = [k \in Keys |-> <<>>]
  /\ queue = [k \in Keys |-> <<>>]
  /\ hand = [c \in Clients |-> Empty]
  /\ popped = [v \in Values |-> 0]

Batches == UNION {[1..n -> Values] : n \in 1..MaxBatch}
Ends(vs, old) == {vs \o old, old \o vs}
Waiting(c) == \E k \in Keys : c \in Range(queue[k])

Store(k, vs) ==
  /\ queue[k] = <<>>
  /\ \E new \in Ends(vs, list[k]) : list' = [list EXCEPT ![k] = new]
  /\ UNCHANGED <<queue, hand, popped>>

HandOver(k, vs) ==
  /\ queue[k] # <<>>
  /\ hand[Head(queue[k])] = Empty
  /\ hand' = [hand EXCEPT ![Head(queue[k])] = Head(vs)]
  /\ queue' = [queue EXCEPT ![k] = Tail(@)]
  /\ \E new \in Ends(Tail(vs), list[k]) : list' = [list EXCEPT ![k] = new]
  /\ UNCHANGED popped

PopHead(k) ==
  /\ list[k] # <<>>
  /\ list' = [list EXCEPT ![k] = Tail(@)]
  /\ popped' = [popped EXCEPT ![Head(list[k])] = @ + 1]
  /\ UNCHANGED <<queue, hand>>

Wait(c, k) ==
  /\ list[k] = <<>>
  /\ hand[c] = Empty /\ ~Waiting(c)
  /\ queue' = [queue EXCEPT ![k] = Append(@, c)]
  /\ UNCHANGED <<list, hand, popped>>

Take(c) ==
  /\ hand[c] # Empty
  /\ popped' = [popped EXCEPT ![hand[c]] = @ + 1]
  /\ hand' = [hand EXCEPT ![c] = Empty]
  /\ UNCHANGED <<list, queue>>

Leave(c, k) ==
  /\ c \in Range(queue[k])
  /\ queue' = [queue EXCEPT ![k] = RemoveFirst(@, c)]
  /\ UNCHANGED <<list, hand, popped>>

Next ==
  \/ \E k \in Keys : PopHead(k) \/ \E vs \in Batches : Store(k, vs) \/ HandOver(k, vs)
  \/ \E c \in Clients : Take(c) \/ \E k \in Keys : Wait(c, k) \/ Leave(c, k)

Spec == Init /\ [][Next]_vars
=============================================================================
