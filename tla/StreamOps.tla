------------------------------ MODULE StreamOps ------------------------------
(***************************************************************************)
(* XADD and the blocking XREAD of store.Store, with the wait queues of     *)
(* module Waiters.  Entries of a stream carry increasing IDs (module       *)
(* StreamIDs), so a stream is the number of its entries here, and the ID   *)
(* an XREAD starts from is the position it stands for: `$` is the number   *)
(* of entries at the time of the call, an explicit ID any position.        *)
(*                                                                         *)
(* FirstKeyOnly and EveryQueue are faulty twins of the operator defined    *)
(* after them: no action uses them, a mutation puts one in place of its    *)
(* twin to show that a property notices.                                   *)
(***************************************************************************)
EXTENDS Waiters

CONSTANTS
  MaxEntries,  \* entries a stream holds at most
  KeyLists     \* the key arguments XREAD is called with, sequences of keys

ASSUME StreamOpsAssumption ==
  /\ MaxEntries \in Nat
  /\ KeyLists \subseteq Seq(Keys) \ {<<>>}

VARIABLES
  streams,   \* number of entries of s.streams[key]
  xkeys,     \* streamKeys of the XREAD a client is in
  starts,    \* startIDs of that XREAD, as positions
  sending,   \* the local variable waiters of XAdd: channels still to notify
  ahead,     \* that XREAD asked for entries beyond an ID no entry has yet
  swallowed  \* list values received, and dropped, by an XREAD

streamVars == <<streams, xkeys, starts, sending, ahead, swallowed>>

StreamPCs == {"idle", "xaddSend", "xreadWait", "xreadTimedOut", "xreadWoken"}

StreamInit ==
  /\ streams = [k \in Keys |-> 0]
  /\ xkeys = [c \in Clients |-> <<>>]
  /\ starts = [c \in Clients |-> <<>>]
  /\ sending = [c \in Clients |-> <<>>]
  /\ ahead = [c \in Clients |-> FALSE]
  /\ swallowed = {}

-----------------------------------------------------------------------------
(* collectEntries finds something: one of the streams has an entry beyond  *)
(* the position its read starts from.                                      *)
CollectEntries(ks, from) == \E i \in DOMAIN ks : streams[ks[i]] > from[i]

(* The channel joins the queue of every key it was called with, once for   *)
(* each time the key is named.                                             *)
FirstKeyOnly(ks, ch) ==
  [k \in Keys |-> IF k = ks[1] THEN Append(blockingClients[k], ch) ELSE blockingClients[k]]
EveryQueue(ks, ch) == [k \in Keys |-> Append(blockingClients[k], ch)]
RegisterAll(ks, ch) ==
  [k \in Keys |-> blockingClients[k] \o
                    [i \in 1..Cardinality({j \in DOMAIN ks : ks[j] = k}) |-> ch]]

(* removeWaiterFromKeys: one occurrence goes for each time the key is      *)
(* named.                                                                  *)
UnregisterTimes(queue, ch, n) ==
  LET left[i \in 0..n] == IF i = 0 THEN queue ELSE Unregister(left[i - 1], ch)
  IN  left[n]
RemoveWaiterFromKeys(ks, ch) ==
  [k \in Keys |-> UnregisterTimes(blockingClients[k], ch,
                                  Cardinality({j \in DOMAIN ks : ks[j] = k}))]

(* The non-blocking send of XAdd: a full channel is skipped.               *)
Offer(slot) == IF slot = Empty THEN StreamID ELSE slot

FinishRead(c) ==
  /\ EndWait(c)
  /\ xkeys' = [xkeys EXCEPT ![c] = <<>>]
  /\ starts' = [starts EXCEPT ![c] = <<>>]
  /\ ahead' = [ahead EXCEPT ![c] = FALSE]

-----------------------------------------------------------------------------
(* XADD adds the entry and takes over the whole queue under the lock; it   *)
(* notifies the channels after it has released it.  An ID that is refused  *)
(* changes nothing.                                                        *)
TakeQueue(queues, k) == [queues EXCEPT ![k] = <<>>]
XAdd(c, k) ==
  /\ pc[c] = "idle"
  /\ mu = Free
  /\ streams[k] < MaxEntries
  /\ streams' = [streams EXCEPT ![k] = @ + 1]
  /\ sending' = [sending EXCEPT ![c] = blockingClients[k]]
  /\ blockingClients' = TakeQueue(blockingClients, k)
  /\ pc' = [pc EXCEPT ![c] = IF blockingClients[k] = <<>> THEN "idle" ELSE "xaddSend"]
  /\ UNCHANGED <<mu, made, buf, myChan, timed, xkeys, starts, ahead, swallowed>>

XAddNotifies(c) ==
  /\ pc[c] = "xaddSend"
  /\ buf' = [buf EXCEPT ![Head(sending[c])] = Offer(@)]
  /\ sending' = [sending EXCEPT ![c] = Tail(@)]
  /\ pc' = [pc EXCEPT ![c] = IF Len(sending[c]) = 1 THEN "idle" ELSE "xaddSend"]
  /\ UNCHANGED <<mu, blockingClients, made, myChan, timed, streams, xkeys, starts,
                 ahead, swallowed>>

(* XREAD finds nothing new and waits.  When it finds something, or when    *)
(* blockForMs is negative, it replies at once and changes nothing.         *)
XReadWaits(c, ks, from, ch, hasTimeout) ==
  /\ pc[c] = "idle"
  /\ mu = Free
  /\ ~CollectEntries(ks, from)
  /\ StartWait(c, ch, "xread", RegisterAll(ks, ch), hasTimeout, "xreadWait")
  /\ xkeys' = [xkeys EXCEPT ![c] = ks]
  /\ starts' = [starts EXCEPT ![c] = from]
  /\ ahead' = [ahead EXCEPT ![c] = \E i \in DOMAIN ks : from[i] > streams[ks[i]]]
  /\ UNCHANGED <<streams, sending, swallowed>>

(* The select takes its receive branch; what was received is not used.     *)
XReadReceives(c) ==
  /\ pc[c] = "xreadWait"
  /\ buf[myChan[c]] # Empty
  /\ swallowed' = swallowed \cup ({buf[myChan[c]]} \cap Values)
  /\ Drain(c)
  /\ pc' = [pc EXCEPT ![c] = "xreadWoken"]
  /\ UNCHANGED <<mu, blockingClients, made, myChan, timed, streams, xkeys, starts,
                 sending, ahead>>

(* Then, under the lock, it leaves all queues and replies what it collects.*)
XReadReplies(c) ==
  /\ pc[c] = "xreadWoken"
  /\ mu = Free
  /\ blockingClients' = RemoveWaiterFromKeys(xkeys[c], myChan[c])
  /\ FinishRead(c)
  /\ UNCHANGED <<mu, made, buf, streams, sending, swallowed>>

XReadTimesOut(c) ==
  /\ TimerFires(c, "xreadWait", "xreadTimedOut")
  /\ UNCHANGED streamVars

(* After the timeout, under the lock: leave all queues, look at the        *)
(* channel once more, and reply the entries if something was there, nil    *)
(* otherwise.                                                              *)
XReadGivesUp(c) ==
  /\ pc[c] = "xreadTimedOut"
  /\ mu = Free
  /\ blockingClients' = RemoveWaiterFromKeys(xkeys[c], myChan[c])
  /\ swallowed' = swallowed \cup ({buf[myChan[c]]} \cap Values)
  /\ Drain(c)
  /\ FinishRead(c)
  /\ UNCHANGED <<mu, made, streams, sending>>

-----------------------------------------------------------------------------
CallXAdd(c) == \E k \in Keys : XAdd(c, k)

CallXRead(c) ==
  \E ks \in KeyLists : \E from \in [DOMAIN ks -> 0..MaxEntries] :
    \E ch \in Chans, hasTimeout \in BOOLEAN : XReadWaits(c, ks, from, ch, hasTimeout)

StreamProgress(c) ==
  \/ XAddNotifies(c)
  \/ XReadReceives(c) \/ XReadReplies(c) \/ XReadTimesOut(c) \/ XReadGivesUp(c)

StreamNext == \E c \in Clients : CallXAdd(c) \/ CallXRead(c) \/ StreamProgress(c)

vars == <<waitVars, streamVars>>

Init == WaitersInit /\ StreamInit
Spec == Init /\ [][StreamNext]_vars

(* Goroutines that can run do run, and timers fire.                        *)
LiveSpec == Spec /\ \A c \in Clients : WF_vars(StreamProgress(c))

-----------------------------------------------------------------------------
(* The variables have the types of the code.                               *)
TypeOK ==
  /\ WaitersTypeOK(StreamPCs)
  /\ streams \in [Keys -> 0..MaxEntries]
  /\ xkeys \in [Clients -> Seq(Keys)]
  /\ starts \in [Clients -> Seq(Nat)]
  /\ sending \in [Clients -> Seq(Chans)]
  /\ ahead \in [Clients -> BOOLEAN]
  /\ swallowed \in SUBSET Values

HasNew(c) == CollectEntries(xkeys[c], starts[c])
BeingNotified(ch) ==
  \E d \in Clients : pc[d] = "xaddSend" /\ \E i \in DOMAIN sending[d] : sending[d][i] = ch

(* No lost wake-up: while an XREAD waits although one of its streams has   *)
(* an entry for it, its channel holds a message or some XADD is still on   *)
(* its way to it (store.go:513-522 runs after the unlock).  So an XREAD    *)
(* that times out misses an entry only of an XADD that has not replied.    *)
NoLostWakeup ==
  \A c \in Clients :
    pc[c] \in {"xreadWait", "xreadTimedOut"} /\ HasNew(c)
      => buf[myChan[c]] # Empty \/ BeingNotified(myChan[c])

(* An XREAD that was woken has something to reply: it never turns a wake-up*)
(* into the nil reply of a timeout (store.go:735-739), except one that     *)
(* asked for entries beyond an ID no entry had: any XADD wakes it, and it  *)
(* replies nil even when it should block for ever.  The values are of the  *)
(* types above.                                                            *)
Woken(c) ==
  \/ pc[c] = "xreadWoken"
  \/ pc[c] = "xreadTimedOut" /\ buf[myChan[c]] # Empty
WokenHasEntries == TypeOK /\ \A c \in Clients : Woken(c) => HasNew(c) \/ ahead[c]

(* Once a waiting XREAD has an entry to return, it returns.                *)
EntryReachesReader ==
  \A c \in Clients : (pc[c] = "xreadWait" /\ HasNew(c)) ~> pc[c] = "idle"
=============================================================================
