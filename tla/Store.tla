-------------------------------- MODULE Store --------------------------------
(***************************************************************************)
(* store.Store with list and stream commands at the same time.  BLPOP and  *)
(* XREAD queue their channels in the same map s.blockingClients, so a push *)
(* can meet the channel of an XREAD and an XADD the channel of a BLPOP:    *)
(* nothing stops a client from using one key for a list and a stream.      *)
(* LPOP, which does not touch the wait queues, is left to ListOps.         *)
(***************************************************************************)
EXTENDS Waiters

CONSTANTS NoKey, MaxBatch, MaxEntries, KeyLists

ASSUME StoreAssumption ==
  /\ NoKey \notin Keys
  /\ MaxBatch \in Nat \ {0}
  /\ MaxEntries \in Nat
  /\ KeyLists \subseteq Seq(Keys) \ {<<>>}

VARIABLES
  elements, entries, arg, side, vals, want, rest, pushed, popped, raced, crashed,
  streams, xkeys, starts, sending, ahead, swallowed

List == INSTANCE ListOps WITH PopCounts <- {}
Stream == INSTANCE StreamOps

listVars ==
  <<elements, entries, arg, side, vals, want, rest, pushed, popped, raced, crashed>>
streamVars == <<streams, xkeys, starts, sending, ahead, swallowed>>
vars == <<waitVars, listVars, streamVars>>

Init == WaitersInit /\ List!ListInit /\ Stream!StreamInit

ListStep(c) ==
  /\ List!CallPush(c) \/ List!CallBLPop(c) \/ List!ListProgress(c)
  /\ UNCHANGED streamVars

StreamStep(c) ==
  /\ Stream!CallXAdd(c) \/ Stream!CallXRead(c) \/ Stream!StreamProgress(c)
  /\ UNCHANGED listVars

StoreNext == \E c \in Clients : ListStep(c) \/ StreamStep(c)

Spec == Init /\ [][StoreNext]_vars

-----------------------------------------------------------------------------
(* A push is stuck in its send, with s.mu locked and the whole store       *)
(* behind it, only when the channel is that of an XREAD that named more    *)
(* than one key (or one key twice): such a channel stays registered after  *)
(* it has been filled (store.go:459, 722-725).  A channel of BLPOP is      *)
(* registered once and never blocks a push, whatever XADD does to it.      *)
StuckOnlyBehindXRead ==
  mu # Free =>
    /\ pc[mu] = "pushSend"
    /\ \E d \in Clients \ {mu} :
         /\ myChan[d] = myChan[mu]
         /\ pc[d] \in {"xreadWait", "xreadTimedOut", "xreadWoken"}
         /\ Len(xkeys[d]) > 1

(* A value handed to a BLPOP is never left in a channel nobody reads, also *)
(* when an XADD on the same key notifies that channel (store.go:417-428).  *)
BLPopNeverDropsValue ==
  \A ch \in Chans : made[ch] = "blpop" /\ buf[ch] \in Values =>
    \E c \in Clients : myChan[c] = ch /\ pc[c] \in {"blpopWait", "blpopTimedOut"}

(* Where a pushed value may end: at a client that popped it, in a list, in *)
(* a channel, or swallowed by an XREAD - in exactly one of them.           *)
OnePlace ==
  \A v \in Values :
    List!Copies(v) + (IF v \in swallowed THEN 1 ELSE 0) = IF v \in pushed THEN 1 ELSE 0
=============================================================================
