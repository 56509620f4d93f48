---------------------------- MODULE Store_proofs ----------------------------
(***************************************************************************)
(* Proofs about Store, for any number of clients, keys, channels and       *)
(* values: what BLPOP and a push can rely on although XREAD and XADD use   *)
(* the same wait queues.                                                   *)
(***************************************************************************)
EXTENDS Store, SequenceFacts

-----------------------------------------------------------------------------
BLPopPCs == {"blpopWait", "blpopTimedOut"}
XReadPCs == {"xreadWait", "xreadTimedOut", "xreadWoken"}
StorePCs == {"idle", "pushSend", "xaddSend"} \cup BLPopPCs \cup XReadPCs

(* The variables have the types of the code.                               *)
StoreTypeOK ==
  /\ mu \in Clients \cup {Free}
  /\ blockingClients \in [Keys -> Seq(Chans)]
  /\ made \in [Chans -> {"none", "blpop", "xread"}]
  /\ buf \in [Chans -> Values \cup {StreamID, Empty}]
  /\ pc \in [Clients -> StorePCs]
  /\ myChan \in [Clients -> Chans \cup {NoChan}]
  /\ elements \in [Keys -> Seq(Values)]
  /\ arg \in [Clients -> Keys \cup {NoKey}]
  /\ side \in [Clients -> {"L", "R"}]
  /\ vals \in [Clients -> Seq(Values)]
  /\ pushed \in SUBSET Values
  /\ popped \in [Values -> Nat]
  /\ xkeys \in [Clients -> Seq(Keys)]
  /\ sending \in [Clients -> Seq(Chans)]
  /\ swallowed \in SUBSET Values

-----------------------------------------------------------------------------
(* The inductive invariant, part by part.                                  *)

Waits(where) == where \in BLPopPCs \cup XReadPCs

(* How often a waiting client registers with the queue of k: BLPOP once    *)
(* with the queue of its key, XREAD once for each time it names k.         *)
TimesNamed(where, key, ks, k) ==
  IF where \in BLPopPCs THEN IF key = k THEN 1 ELSE 0 ELSE Occurrences(ks, k)

(* A client that registers once, with one queue.                           *)
OneKey(where, ks) == where \in BLPopPCs \/ (where \in XReadPCs /\ Len(ks) = 1)

(* s.mu is locked only by a push whose channel is that of an XREAD that    *)
(* registered more than once.                                              *)
BehindXRead(c, d) ==
  d # c /\ myChan[d] = myChan[c] /\ pc[d] \in XReadPCs /\ Len(xkeys[d]) > 1
Locked ==
  /\ mu # Free => pc[mu] = "pushSend"
  /\ \A c \in Clients : pc[c] = "pushSend" =>
       mu = c /\ arg[c] \in Keys /\ vals[c] # <<>> /\ \E d \in Clients : BehindXRead(c, d)

(* A waiting client has a channel of its kind, which no other one has.     *)
HasChannel ==
  \A c \in Clients :
    /\ Waits(pc[c]) => myChan[c] \in Chans
    /\ pc[c] \in BLPopPCs => made[myChan[c]] = "blpop" /\ arg[c] \in Keys
    /\ pc[c] \in XReadPCs => made[myChan[c]] = "xread" /\ xkeys[c] # <<>>
OneWaiter ==
  \A c, d \in Clients : c # d /\ Waits(pc[c]) /\ Waits(pc[d]) => myChan[c] # myChan[d]

(* A registered channel is a waiting client's, and is in no queue more     *)
(* often than that client named the key.                                   *)
Owned ==
  \A k \in Keys, ch \in Chans : Holds(blockingClients[k], ch) =>
    \E c \in Clients : Waits(pc[c]) /\ myChan[c] = ch
AsNamed ==
  \A c \in Clients, k \in Keys : Waits(pc[c]) =>
    Occurrences(blockingClients[k], myChan[c]) <= TimesNamed(pc[c], arg[c], xkeys[c], k)

(* As long as a client that registers once is registered, nothing is in    *)
(* its channel or on the way there.                                        *)
SingleIsEmpty ==
  \A c \in Clients, k \in Keys :
    OneKey(pc[c], xkeys[c]) /\ Holds(blockingClients[k], myChan[c]) =>
      buf[myChan[c]] = Empty /\ \A d \in Clients : ~Holds(sending[d], myChan[c])
NewIsUnknown ==
  \A ch \in Chans : made[ch] = "none" =>
    buf[ch] = Empty /\ \A d \in Clients : ~Holds(sending[d], ch)

(* An XADD under way has somebody left to notify.                          *)
SomeoneToNotify == \A c \in Clients : pc[c] = "xaddSend" => sending[c] # <<>>

StoreInv ==
  /\ Locked /\ HasChannel /\ OneWaiter /\ Owned /\ AsNamed /\ SingleIsEmpty
  /\ NewIsUnknown /\ SomeoneToNotify /\ BLPopNeverDropsValue

-----------------------------------------------------------------------------
(* The operators of ListOps and StreamOps.                                 *)

(* A batch is a non-empty sequence of new values, in either order.         *)
LEMMA BatchType ==
  ASSUME NEW vs \in List!FreshBatches, NEW end \in {"L", "R"}
  PROVE  /\ List!InOrder(end, vs) \in Seq(Values) /\ List!InOrder(end, vs) # <<>>
         /\ Tail(List!InOrder(end, vs)) \in Seq(Values)
         /\ Head(List!InOrder(end, vs)) \in Values
         /\ Range(vs) \subseteq Values
<1>1. PICK n \in 1..MaxBatch : vs \in [1..n -> Values \ pushed]
  BY DEF List!FreshBatches
<1>2. n \in Nat /\ n >= 1
  BY StoreAssumption
<1>3. vs \in Seq(Values) /\ Len(vs) = n
  BY <1>1, <1>2
<1>4. List!Reverse(vs) \in Seq(Values) /\ Len(List!Reverse(vs)) = n
  BY <1>2, <1>3 DEF List!Reverse
<1>5. List!InOrder(end, vs) \in Seq(Values) /\ List!InOrder(end, vs) # <<>>
  BY <1>2, <1>3, <1>4 DEF List!InOrder
<1>6. Range(vs) \subseteq Values
  BY <1>1 DEF Range
<1> QED
  BY <1>5, <1>6, HeadTailProperties

(* Adding values to either end of a list gives a list of values.           *)
LEMMA JoinType ==
  ASSUME NEW end, NEW a \in Seq(Values), NEW b \in Seq(Values)
  PROVE  List!Join(end, a, b) \in Seq(Values)
BY ConcatProperties DEF List!Join

(* What a push stores beside the value it hands over: adding nothing       *)
(* leaves a list as it is.                                                 *)
LEMMA AddOthersIs ==
  ASSUME NEW c \in Clients, NEW k \in Keys, NEW end, NEW vs, List!AddOthers(c, k, end, vs),
         elements \in [Keys -> Seq(Values)]
  PROVE  elements' = [elements EXCEPT ![k] = List!Join(end, Tail(vs), @)]
<1>1. CASE Tail(vs) # <<>>
  BY <1>1 DEF List!AddOthers, List!AddTo, List!Leftover
<1>2. CASE Tail(vs) = <<>>
  <2>1. elements' = elements
    BY <1>2 DEF List!AddOthers, List!Leftover
  <2>2. \A list \in Seq(Values) : List!Join(end, <<>>, list) = list
    BY DEF List!Join
  <2>3. elements = [elements EXCEPT ![k] = List!Join(end, <<>>, @)]
    BY <2>2
  <2> QED
    BY <1>2, <2>1, <2>3
<1> QED
  BY <1>1, <1>2

(* LPOP is not called here.                                                *)
LEMMA NoLPop ==
  ASSUME StoreTypeOK, NEW c \in Clients
  PROVE  /\ ~List!LPopChecks(c) /\ ~List!LPopCompares(c) /\ ~List!LPopCuts(c)
         /\ ~List!LPopReads(c) /\ ~List!LPopSlices(c) /\ ~List!LPopStores(c)
BY DEF List!LPopChecks, List!LPopCompares, List!LPopCuts, List!LPopReads, List!LPopSlices,
       List!LPopStores, StoreTypeOK, StorePCs, BLPopPCs, XReadPCs

(* What a BLPOP replies keeps the counts of popped values.                 *)
LEMMA ReplyType ==
  ASSUME NEW counts \in [Values -> Nat], NEW msg
  PROVE  /\ List!Reply(counts, msg) \in [Values -> Nat]
         /\ List!PollReply(counts, msg) \in [Values -> Nat]
BY DEF List!Reply, List!PollReply

LEMMA CardinalityIs ==
  ASSUME NEW S
  PROVE  Stream!Cardinality(S) = Cardinality(S)
BY Zenon DEF Stream!Cardinality, Cardinality, Stream!IsFiniteSet, IsFiniteSet

(* removeWaiter, once and any number of times.                             *)
LEMMA UnregisterIs ==
  ASSUME NEW queue, NEW ch, NEW n
  PROVE  /\ List!Unregister(queue, ch) = RemoveFirst(queue, ch)
         /\ Stream!UnregisterTimes(queue, ch, n) = RemoveTimes(queue, ch, n)
<1>1. List!Unregister(queue, ch) = RemoveFirst(queue, ch)
  BY DEF List!Unregister, RemoveFirst, List!RemoveFirst, SelectInSeq, List!SelectInSeq,
         RemoveAt, List!RemoveAt, Min, List!Min
<1>2. Stream!UnregisterTimes(queue, ch, n) = RemoveTimes(queue, ch, n)
  BY DEF Stream!UnregisterTimes, RemoveTimes, Stream!Unregister, RemoveFirst,
         Stream!RemoveFirst, SelectInSeq, Stream!SelectInSeq, RemoveAt, Stream!RemoveAt,
         Min, Stream!Min
<1> QED
  BY <1>1, <1>2

(* A served waiter has gone from the head of the queue, and nobody else.   *)
LEMMA ServedCounts ==
  ASSUME NEW queue \in Seq(Chans), queue # <<>>
  PROVE  /\ Tail(queue) \in Seq(Chans) /\ Head(queue) \in Chans
         /\ Holds(queue, Head(queue))
         /\ \A x : /\ Occurrences(Tail(queue), x) <= Occurrences(queue, x)
                   /\ Occurrences(Tail(queue), Head(queue)) <= Occurrences(queue, Head(queue)) - 1
<1>1. /\ Head(queue) = queue[1] /\ Tail(queue) \in Seq(Chans) /\ Head(queue) \in Chans
      /\ 1 \in DOMAIN queue
  BY EmptySeq, LenProperties, HeadTailProperties
<1>2. Holds(queue, Head(queue))
  BY <1>1 DEF Holds
<1>3. ASSUME NEW x PROVE Occurrences(Tail(queue), x) <= Occurrences(queue, x)
  <2>1. Occurrences(Tail(queue), x) \in Nat /\ Occurrences(queue, x) \in Nat
    BY <1>1, OccurrencesCount
  <2>2. Occurrences(Tail(queue), x) <= Occurrences(queue, x) - (IF Head(queue) = x THEN 1 ELSE 0)
    BY TailOccurs
  <2> QED
    BY <2>1, <2>2
<1>4. Occurrences(Tail(queue), Head(queue)) <= Occurrences(queue, Head(queue)) - 1
  BY TailOccurs
<1> QED
  BY <1>1, <1>2, <1>3, <1>4

(* The channel of a BLPOP joins one queue, that of an XREAD the queue of   *)
(* each key as often as it is named.                                       *)
LEMMA RegisterJoins ==
  ASSUME blockingClients \in [Keys -> Seq(Chans)], NEW ks \in Seq(Keys), NEW ch \in Chans
  PROVE  /\ Stream!RegisterAll(ks, ch) \in [Keys -> Seq(Chans)]
         /\ \A k \in Keys : FollowedBy(Stream!RegisterAll(ks, ch)[k], blockingClients[k], ch,
                                       Occurrences(ks, k))
<1>1. ASSUME NEW k \in Keys
      PROVE  /\ Stream!RegisterAll(ks, ch)[k] \in Seq(Chans)
             /\ FollowedBy(Stream!RegisterAll(ks, ch)[k], blockingClients[k], ch,
                           Occurrences(ks, k))
  <2>1. PICK n \in Nat : n = Occurrences(ks, k)
    BY OccurrencesCount
  <2>2. PICK q \in Seq(Chans) : q = blockingClients[k]
    OBVIOUS
  <2>3. Stream!RegisterAll(ks, ch)[k] = q \o [i \in 1..n |-> ch]
    <3>1. n = Cardinality({j \in DOMAIN ks : ks[j] = k})
      BY <2>1, Zenon DEF Occurrences, PlacesOf
    <3>2. Stream!RegisterAll(ks, ch)[k]
            = blockingClients[k] \o [i \in 1..Cardinality({j \in DOMAIN ks : ks[j] = k}) |-> ch]
      BY CardinalityIs DEF Stream!RegisterAll
    <3> QED
      BY <2>2, <3>1, <3>2
  <2>4. /\ q \o [i \in 1..n |-> ch] \in Seq(Chans)
        /\ FollowedBy(q \o [i \in 1..n |-> ch], q, ch, n)
    BY ConcatFollows
  <2> QED
    BY <2>1, <2>2, <2>3, <2>4
<1> QED
  BY <1>1 DEF Stream!RegisterAll

(* removeWaiterFromKeys takes the channel off every queue in which it is   *)
(* no more often than its key is named, and no other channel.              *)
LEMMA RemoveWaiterCounts ==
  ASSUME blockingClients \in [Keys -> Seq(Chans)], NEW ks \in Seq(Keys), NEW ch \in Chans
  PROVE  /\ Stream!RemoveWaiterFromKeys(ks, ch) \in [Keys -> Seq(Chans)]
         /\ \A k \in Keys :
              /\ \A x : Occurrences(Stream!RemoveWaiterFromKeys(ks, ch)[k], x)
                          <= Occurrences(blockingClients[k], x)
              /\ Occurrences(blockingClients[k], ch) <= Occurrences(ks, k)
                   => ~Holds(Stream!RemoveWaiterFromKeys(ks, ch)[k], ch)
<1>1. ASSUME NEW k \in Keys
      PROVE  /\ Stream!RemoveWaiterFromKeys(ks, ch)[k] \in Seq(Chans)
             /\ \A x : Occurrences(Stream!RemoveWaiterFromKeys(ks, ch)[k], x)
                          <= Occurrences(blockingClients[k], x)
             /\ Occurrences(blockingClients[k], ch) <= Occurrences(ks, k)
                   => ~Holds(Stream!RemoveWaiterFromKeys(ks, ch)[k], ch)
  <2>1. PICK n \in Nat : n = Occurrences(ks, k)
    BY OccurrencesCount
  <2>2. PICK q \in Seq(Chans) : q = blockingClients[k]
    OBVIOUS
  <2>3. Stream!RemoveWaiterFromKeys(ks, ch)[k] = Stream!UnregisterTimes(q, ch, n)
    <3>1. n = Cardinality({j \in DOMAIN ks : ks[j] = k})
      BY <2>1, Zenon DEF Occurrences, PlacesOf
    <3>2. Stream!RemoveWaiterFromKeys(ks, ch)[k]
            = Stream!UnregisterTimes(blockingClients[k], ch, Cardinality({j \in DOMAIN ks : ks[j] = k}))
      BY CardinalityIs DEF Stream!RemoveWaiterFromKeys
    <3> QED
      BY <2>2, <3>1, <3>2
  <2>4. Stream!RemoveWaiterFromKeys(ks, ch)[k] = RemoveTimes(q, ch, n)
    BY <2>3, UnregisterIs
  <2>5. /\ RemoveTimes(q, ch, n) \in Seq(Chans)
        /\ \A x : Occurrences(RemoveTimes(q, ch, n), x) <= Occurrences(q, x)
        /\ Occurrences(q, ch) <= n => ~Holds(RemoveTimes(q, ch, n), ch)
    BY RemoveTimesKeeps, RemoveTimesOccurs
  <2> QED
    BY <2>1, <2>2, <2>4, <2>5
<1> QED
  BY <1>1 DEF Stream!RemoveWaiterFromKeys

-----------------------------------------------------------------------------
(* Every action keeps the types.                                           *)

LEMMA ListTypes ==
  ASSUME StoreTypeOK, StoreInv, NEW c \in Clients, ListStep(c)
  PROVE  StoreTypeOK'
<1> USE DEF StoreTypeOK, StorePCs, BLPopPCs, XReadPCs
<1>0. UNCHANGED <<xkeys, sending, swallowed>>
  BY DEF ListStep, streamVars
<1>1. ASSUME NEW k \in Keys, NEW end \in {"L", "R"}, NEW vs \in List!FreshBatches,
             List!PushStores(c, k, end, vs)
      PROVE  StoreTypeOK'
  <2>1. elements' \in [Keys -> Seq(Values)]
    BY <1>1, BatchType, JoinType DEF List!PushStores, List!AddTo
  <2>2. pushed' \in SUBSET Values
    BY <1>1, BatchType DEF List!PushStores, List!Range, Range
  <2> QED
    BY <1>0, <1>1, <2>1, <2>2 DEF List!PushStores, List!waitVars
<1>2. ASSUME NEW k \in Keys, NEW end \in {"L", "R"}, NEW vs \in List!FreshBatches,
             List!PushServes(c, k, end, vs)
      PROVE  StoreTypeOK'
  <2>1. elements' \in [Keys -> Seq(Values)]
    <3>1. List!AddOthers(c, k, end, List!InOrder(end, vs))
      BY <1>2 DEF List!PushServes
    <3>2. elements' = [elements EXCEPT ![k] = List!Join(end, Tail(List!InOrder(end, vs)), @)]
      BY <3>1, AddOthersIs
    <3> QED
      BY <3>2, BatchType, JoinType
  <2>2. pushed' \in SUBSET Values
    BY <1>2, BatchType DEF List!PushServes, List!Range, Range
  <2>3. blockingClients' \in [Keys -> Seq(Chans)]
    BY <1>2, ServedCounts DEF List!PushServes, List!Served
  <2>4. buf' \in [Chans -> Values \cup {StreamID, Empty}]
    BY <1>2, BatchType DEF List!PushServes
  <2> QED
    BY <1>0, <1>2, <2>1, <2>2, <2>3, <2>4 DEF List!PushServes
<1>3. ASSUME NEW k \in Keys, NEW end \in {"L", "R"}, NEW vs \in List!FreshBatches,
             List!PushBlocks(c, k, end, vs)
      PROVE  StoreTypeOK'
  <2>1. pushed' \in SUBSET Values
    BY <1>3, BatchType DEF List!PushBlocks, List!Range, Range
  <2>2. blockingClients' \in [Keys -> Seq(Chans)] /\ Head(blockingClients[k]) \in Chans
    BY <1>3, ServedCounts DEF List!PushBlocks, List!Served
  <2>3. vals' \in [Clients -> Seq(Values)]
    BY <1>3, BatchType DEF List!PushBlocks
  <2> QED
    BY <1>0, <1>3, <2>1, <2>2, <2>3 DEF List!PushBlocks
<1>4. ASSUME List!PushResumes(c)
      PROVE  StoreTypeOK'
  <2>1. arg[c] \in Keys /\ vals[c] # <<>> /\ vals[c] \in Seq(Values)
    BY <1>4 DEF List!PushResumes, StoreInv, Locked
  <2>2. Head(vals[c]) \in Values /\ Tail(vals[c]) \in Seq(Values)
    BY <2>1, HeadTailProperties
  <2>3. elements' \in [Keys -> Seq(Values)]
    <3>1. List!AddOthers(c, arg[c], side[c], vals[c])
      BY <1>4 DEF List!PushResumes
    <3>2. elements' = [elements EXCEPT ![arg[c]] = List!Join(side[c], Tail(vals[c]), @)]
      BY <2>1, <3>1, AddOthersIs
    <3> QED
      BY <2>1, <2>2, <3>2, JoinType
  <2>4. buf' \in [Chans -> Values \cup {StreamID, Empty}]
    BY <1>4, <2>2 DEF List!PushResumes
  <2> QED
    BY <1>0, <1>4, <2>3, <2>4 DEF List!PushResumes, List!EndWait, List!EndCall
<1>5. ASSUME NEW k \in Keys, List!BLPopNow(c, k)
      PROVE  StoreTypeOK'
  <2>1. elements' \in [Keys -> Seq(Values)] /\ popped' \in [Values -> Nat]
    BY <1>5, HeadTailProperties DEF List!BLPopNow
  <2> QED
    BY <1>0, <1>5, <2>1 DEF List!BLPopNow, List!waitVars
<1>6. ASSUME NEW k \in Keys, NEW ch \in Chans, NEW hasTimeout \in BOOLEAN,
             List!BLPopWaits(c, k, ch, hasTimeout)
      PROVE  StoreTypeOK'
  <2>1. blockingClients' \in [Keys -> Seq(Chans)]
    BY <1>6, AppendProperties DEF List!BLPopWaits, List!StartWait
  <2> QED
    BY <1>0, <1>6, <2>1 DEF List!BLPopWaits, List!StartWait
<1>7. ASSUME List!BLPopReceives(c)
      PROVE  StoreTypeOK'
  <2>1. popped' \in [Values -> Nat]
    BY <1>7, ReplyType DEF List!BLPopReceives
  <2> QED
    BY <1>0, <1>7, <2>1 DEF List!BLPopReceives, List!Drain, List!EndWait, List!EndCall
<1>8. ASSUME List!BLPopTimesOut(c)
      PROVE  StoreTypeOK'
  BY <1>0, <1>8 DEF List!BLPopTimesOut, List!TimerFires, List!listVars
<1>9. ASSUME List!BLPopGivesUp(c)
      PROVE  StoreTypeOK'
  <2>1. popped' \in [Values -> Nat]
    BY <1>9, ReplyType DEF List!BLPopGivesUp
  <2>2. myChan[c] \in Chans /\ arg[c] \in Keys
    BY <1>9 DEF List!BLPopGivesUp, StoreInv, HasChannel, Waits
  <2>3. blockingClients' \in [Keys -> Seq(Chans)]
    <3>1. List!Unregister(blockingClients[arg[c]], myChan[c]) \in Seq(Chans)
      <4>1. RemoveFirst(blockingClients[arg[c]], myChan[c]) \in Seq(Chans)
        BY <2>2, RemoveFirstType
      <4> QED
        BY <4>1, UnregisterIs
    <3> QED
      BY <1>9, <3>1 DEF List!BLPopGivesUp
  <2> QED
    BY <1>0, <1>9, <2>1, <2>3 DEF List!BLPopGivesUp, List!Drain, List!EndWait, List!EndCall
<1>10. /\ ~List!LPopChecks(c) /\ ~List!LPopCompares(c) /\ ~List!LPopCuts(c)
       /\ ~List!LPopReads(c) /\ ~List!LPopSlices(c) /\ ~List!LPopStores(c)
  BY NoLPop
<1> HIDE DEF StoreTypeOK
<1> QED
  BY <1>1, <1>2, <1>3, <1>4, <1>5, <1>6, <1>7, <1>8, <1>9, <1>10
  DEF ListStep, List!CallPush, List!CallBLPop, List!ListProgress

LEMMA StreamTypes ==
  ASSUME StoreTypeOK, StoreInv, NEW c \in Clients, StreamStep(c)
  PROVE  StoreTypeOK'
<1> USE DEF StoreTypeOK, StorePCs, BLPopPCs, XReadPCs
<1>0. UNCHANGED <<elements, arg, side, vals, pushed, popped>>
  BY DEF StreamStep, listVars
<1>1. ASSUME NEW k \in Keys, Stream!XAdd(c, k)
      PROVE  StoreTypeOK'
  <2>1. \A S : <<>> \in Seq(S)
    OBVIOUS
  <2>2. blockingClients' \in [Keys -> Seq(Chans)] /\ sending' \in [Clients -> Seq(Chans)]
    BY <1>1, <2>1 DEF Stream!XAdd, Stream!TakeQueue
  <2> QED
    BY <1>0, <1>1, <2>2 DEF Stream!XAdd
<1>2. ASSUME Stream!XAddNotifies(c)
      PROVE  StoreTypeOK'
  <2>1. sending[c] # <<>> /\ sending[c] \in Seq(Chans)
    BY <1>2 DEF Stream!XAddNotifies, StoreInv, SomeoneToNotify
  <2>2. Tail(sending[c]) \in Seq(Chans)
    BY <2>1, HeadTailProperties
  <2>3. sending' \in [Clients -> Seq(Chans)]
    BY <1>2, <2>2 DEF Stream!XAddNotifies
  <2>4. buf' \in [Chans -> Values \cup {StreamID, Empty}]
    BY <1>2 DEF Stream!XAddNotifies, Stream!Offer
  <2> QED
    BY <1>0, <1>2, <2>3, <2>4 DEF Stream!XAddNotifies
<1>3. ASSUME NEW ks \in KeyLists, NEW from, NEW ch \in Chans, NEW hasTimeout \in BOOLEAN,
             Stream!XReadWaits(c, ks, from, ch, hasTimeout)
      PROVE  StoreTypeOK'
  <2>1. ks \in Seq(Keys)
    BY StoreAssumption
  <2>2. blockingClients' \in [Keys -> Seq(Chans)]
    BY <1>3, <2>1, RegisterJoins DEF Stream!XReadWaits, Stream!StartWait
  <2> QED
    BY <1>0, <1>3, <2>1, <2>2 DEF Stream!XReadWaits, Stream!StartWait
<1>4. ASSUME Stream!XReadReceives(c)
      PROVE  StoreTypeOK'
  BY <1>0, <1>4 DEF Stream!XReadReceives, Stream!Drain
<1>5. ASSUME Stream!XReadReplies(c)
      PROVE  StoreTypeOK'
  <2>1. myChan[c] \in Chans /\ xkeys[c] \in Seq(Keys)
    BY <1>5 DEF Stream!XReadReplies, StoreInv, HasChannel, Waits
  <2>2. blockingClients' \in [Keys -> Seq(Chans)]
    BY <1>5, <2>1, RemoveWaiterCounts DEF Stream!XReadReplies
  <2>3. <<>> \in Seq(Keys)
    OBVIOUS
  <2> QED
    BY <1>0, <1>5, <2>2, <2>3 DEF Stream!XReadReplies, Stream!FinishRead, Stream!EndWait
<1>6. ASSUME Stream!XReadTimesOut(c)
      PROVE  StoreTypeOK'
  BY <1>0, <1>6 DEF Stream!XReadTimesOut, Stream!TimerFires, Stream!streamVars
<1>7. ASSUME Stream!XReadGivesUp(c)
      PROVE  StoreTypeOK'
  <2>1. myChan[c] \in Chans /\ xkeys[c] \in Seq(Keys)
    BY <1>7 DEF Stream!XReadGivesUp, StoreInv, HasChannel, Waits
  <2>2. blockingClients' \in [Keys -> Seq(Chans)]
    BY <1>7, <2>1, RemoveWaiterCounts DEF Stream!XReadGivesUp
  <2>3. <<>> \in Seq(Keys)
    OBVIOUS
  <2> QED
    BY <1>0, <1>7, <2>2, <2>3
    DEF Stream!XReadGivesUp, Stream!FinishRead, Stream!EndWait, Stream!Drain
<1> HIDE DEF StoreTypeOK
<1> QED
  BY <1>1, <1>2, <1>3, <1>4, <1>5, <1>6, <1>7
  DEF StreamStep, Stream!CallXAdd, Stream!CallXRead, Stream!StreamProgress

-----------------------------------------------------------------------------
(* Counting in the queues.                                                 *)

LEMMA QueueCounts ==
  ASSUME NEW q \in Seq(Chans), NEW x
  PROVE  Occurrences(q, x) \in Nat /\ (Occurrences(q, x) = 0 <=> ~Holds(q, x))
BY OccurrencesCount

(* A client that registers once does so with one key.                      *)
LEMMA NamesOneKey ==
  ASSUME NEW where, NEW key, NEW ks \in Seq(Keys), OneKey(where, ks)
  PROVE  \E kk : \A k : TimesNamed(where, key, ks, k) = IF kk = k THEN 1 ELSE 0
<1>1. CASE where \in BLPopPCs
  BY <1>1 DEF TimesNamed
<1>2. CASE where \notin BLPopPCs
  <2>1. Len(ks) = 1 /\ DOMAIN ks = {1}
    BY <1>2, LenProperties DEF OneKey
  <2>2. ASSUME NEW k PROVE Occurrences(ks, k) = IF ks[1] = k THEN 1 ELSE 0
    <3>1. PlacesOf(ks, k) = IF ks[1] = k THEN {1} ELSE {}
      BY <2>1 DEF PlacesOf
    <3>2. Cardinality({1}) = 1 /\ Cardinality({}) = 0
      BY FS_Singleton, FS_EmptySet
    <3> QED
      BY <3>1, <3>2 DEF Occurrences
  <2> QED
    BY <1>2, <2>2 DEF TimesNamed
<1> QED
  BY <1>1, <1>2

LEMMA TimesNamedType ==
  ASSUME NEW where, NEW key, NEW ks \in Seq(Keys), NEW k
  PROVE  TimesNamed(where, key, ks, k) \in Nat
BY OccurrencesCount DEF TimesNamed

(* Such a client is in one queue, and there once.                          *)
LEMMA OneQueue ==
  ASSUME StoreTypeOK, StoreInv, NEW d \in Clients, OneKey(pc[d], xkeys[d]),
         NEW k \in Keys, Holds(blockingClients[k], myChan[d])
  PROVE  /\ Occurrences(blockingClients[k], myChan[d]) = 1
         /\ \A j \in Keys : j # k => ~Holds(blockingClients[j], myChan[d])
<1>1. PICK kk : \A j : TimesNamed(pc[d], arg[d], xkeys[d], j) = IF kk = j THEN 1 ELSE 0
  <2>1. xkeys[d] \in Seq(Keys)
    BY DEF StoreTypeOK
  <2> QED
    BY <2>1, NamesOneKey
<1>2. \A j \in Keys : Occurrences(blockingClients[j], myChan[d]) <= IF kk = j THEN 1 ELSE 0
  <2>1. Waits(pc[d])
    BY DEF OneKey, Waits
  <2> QED
    BY <1>1, <2>1 DEF StoreInv, AsNamed
<1>3. \A j \in Keys : /\ Occurrences(blockingClients[j], myChan[d]) \in Nat
                      /\ Occurrences(blockingClients[j], myChan[d]) = 0
                           <=> ~Holds(blockingClients[j], myChan[d])
  BY QueueCounts DEF StoreTypeOK
<1> QED
  BY <1>2, <1>3

(* The channels of a queue have been made by those that wait on them.      *)
LEMMA RegisteredIsMade ==
  ASSUME StoreTypeOK, StoreInv, NEW k \in Keys, NEW ch \in Chans, Holds(blockingClients[k], ch)
  PROVE  \E d \in Clients :
           /\ Waits(pc[d]) /\ myChan[d] = ch
           /\ pc[d] \in BLPopPCs => made[ch] = "blpop"
           /\ pc[d] \in XReadPCs => made[ch] = "xread"
<1>1. PICK d \in Clients : Waits(pc[d]) /\ myChan[d] = ch
  BY DEF StoreInv, Owned
<1> QED
  BY <1>1 DEF StoreInv, HasChannel

-----------------------------------------------------------------------------
(* What a step does to the waits, whichever command takes it.              *)

(* Nobody starts or ends to wait; a channel may be emptied.                *)
Calm ==
  /\ UNCHANGED <<mu, blockingClients, made, myChan, arg, vals, xkeys, sending>>
  /\ \A d \in Clients :
       /\ pc'[d] \in BLPopPCs <=> pc[d] \in BLPopPCs
       /\ pc'[d] \in XReadPCs <=> pc[d] \in XReadPCs
       /\ pc'[d] = "pushSend" <=> pc[d] = "pushSend"
       /\ pc'[d] = "xaddSend" => pc[d] = "xaddSend"
  /\ \A ch \in Chans : buf'[ch] \in {buf[ch], Empty}

(* c starts to wait on the new channel ch, made by a command of that kind. *)
Joins(c, ch, kind) ==
  /\ mu = Free /\ pc[c] = "idle" /\ made[ch] = "none"
  /\ UNCHANGED <<mu, buf, vals, sending>>
  /\ \A x \in Chans : made'[x] = IF x = ch THEN kind ELSE made[x]
  /\ myChan'[c] = ch
  /\ \/ kind = "blpop" /\ pc'[c] \in BLPopPCs /\ arg'[c] \in Keys
     \/ kind = "xread" /\ pc'[c] \in XReadPCs /\ xkeys'[c] # <<>>
  /\ \A d \in Clients \ {c} :
       pc'[d] = pc[d] /\ myChan'[d] = myChan[d] /\ arg'[d] = arg[d] /\ xkeys'[d] = xkeys[d]
  /\ \A k \in Keys : FollowedBy(blockingClients'[k], blockingClients[k], ch,
                                TimesNamed(pc'[c], arg'[c], xkeys'[c], k))

(* c ends to wait, and its channel has left all queues.                    *)
Leaves(c) ==
  /\ Waits(pc[c])
  /\ pc[c] \in XReadPCs => mu = Free
  /\ UNCHANGED <<mu, made, vals, sending>>
  /\ pc'[c] = "idle"
  /\ \A d \in Clients \ {c} :
       pc'[d] = pc[d] /\ myChan'[d] = myChan[d] /\ arg'[d] = arg[d] /\ xkeys'[d] = xkeys[d]
  /\ \A ch \in Chans : buf'[ch] \in {buf[ch], Empty}
  /\ pc[c] \in BLPopPCs => buf'[myChan[c]] = Empty
  /\ \A k \in Keys :
       /\ ~Holds(blockingClients'[k], myChan[c])
       /\ \A x : Occurrences(blockingClients'[k], x) <= Occurrences(blockingClients[k], x)

LEMMA CalmKeeps ==
  ASSUME StoreTypeOK, StoreTypeOK', StoreInv, Calm
  PROVE  StoreInv'
<1>1. Locked'
  <2>1. \A c, d \in Clients : BehindXRead(c, d) => BehindXRead(c, d)'
    BY DEF Calm, BehindXRead
  <2> QED
    BY <2>1 DEF Calm, Locked, StoreInv, StoreTypeOK
<1>2. HasChannel' /\ OneWaiter'
  BY DEF Calm, HasChannel, OneWaiter, Waits, StoreInv
<1>3. Owned'
  BY DEF Calm, Owned, Waits, StoreInv
<1>4. AsNamed'
  BY DEF Calm, AsNamed, Waits, TimesNamed, StoreInv
<1>5. SingleIsEmpty'
  <2>1. \A d \in Clients : OneKey(pc'[d], xkeys[d]) => OneKey(pc[d], xkeys[d])
    BY DEF Calm, OneKey
  <2>2. \A d \in Clients : OneKey(pc[d], xkeys[d]) => myChan[d] \in Chans
    BY DEF OneKey, Waits, StoreInv, HasChannel
  <2> QED
    BY <2>1, <2>2 DEF Calm, SingleIsEmpty, StoreInv
<1>6. NewIsUnknown' /\ SomeoneToNotify'
  BY DEF Calm, NewIsUnknown, SomeoneToNotify, StoreInv
<1>7. BLPopNeverDropsValue'
  BY WaitersAssumption DEF Calm, BLPopNeverDropsValue, BLPopPCs, StoreInv
<1> QED
  BY <1>1, <1>2, <1>3, <1>4, <1>5, <1>6, <1>7 DEF StoreInv

LEMMA LeavesKeeps ==
  ASSUME StoreTypeOK, StoreTypeOK', StoreInv, NEW c \in Clients, Leaves(c)
  PROVE  StoreInv'
<1>1. pc'[c] = "idle" /\ ~Waits(pc'[c]) /\ Waits(pc[c]) /\ pc[c] # "pushSend"
  BY DEF Leaves, Waits, BLPopPCs, XReadPCs
<1>2. \A k \in Keys, x \in Chans :
        /\ Occurrences(blockingClients[k], x) \in Nat
        /\ Occurrences(blockingClients'[k], x) \in Nat
        /\ Occurrences(blockingClients'[k], x) <= Occurrences(blockingClients[k], x)
        /\ Holds(blockingClients'[k], x) => Holds(blockingClients[k], x)
  <2> TAKE k \in Keys, x \in Chans
  <2>1. blockingClients[k] \in Seq(Chans) /\ blockingClients'[k] \in Seq(Chans)
    BY DEF StoreTypeOK
  <2>2. Occurrences(blockingClients'[k], x) <= Occurrences(blockingClients[k], x)
    BY DEF Leaves
  <2> QED
    BY <2>1, <2>2, QueueCounts
<1>3. Locked'
  <2>1. \A e, d \in Clients : pc[e] = "pushSend" /\ BehindXRead(e, d) => BehindXRead(e, d)'
    <3>1. \A e \in Clients : pc[e] = "pushSend" => mu # Free /\ e # c
      BY <1>1, WaitersAssumption DEF StoreInv, Locked
    <3> QED
      BY <3>1 DEF Leaves, BehindXRead
  <2>2. \A e \in Clients : pc'[e] = "pushSend" => e # c /\ pc[e] = "pushSend" /\ arg'[e] = arg[e]
    BY <1>1 DEF Leaves
  <2>3. mu # Free => mu # c /\ mu \in Clients
    BY <1>1 DEF StoreInv, Locked, StoreTypeOK
  <2> QED
    BY <2>1, <2>2, <2>3 DEF Leaves, StoreInv, Locked
<1>4. \A d \in Clients : Waits(pc'[d]) \/ OneKey(pc'[d], xkeys'[d]) =>
        /\ d # c /\ pc'[d] = pc[d] /\ myChan'[d] = myChan[d] /\ arg'[d] = arg[d]
        /\ xkeys'[d] = xkeys[d] /\ Waits(pc[d]) /\ myChan[d] \in Chans
  BY <1>1 DEF Leaves, Waits, OneKey, StoreInv, HasChannel
<1>5. HasChannel' /\ OneWaiter'
  BY <1>4 DEF Leaves, HasChannel, OneWaiter, Waits, StoreInv
<1>6. Owned'
  <2> SUFFICES ASSUME NEW k \in Keys, NEW ch \in Chans, Holds(blockingClients'[k], ch)
               PROVE  \E d \in Clients : Waits(pc'[d]) /\ myChan'[d] = ch
    BY DEF Owned
  <2>1. PICK d \in Clients : Waits(pc[d]) /\ myChan[d] = ch
    BY <1>2 DEF StoreInv, Owned
  <2>2. d # c
    BY <2>1 DEF Leaves
  <2> QED
    BY <2>1, <2>2 DEF Leaves
<1>7. AsNamed'
  <2> SUFFICES ASSUME NEW d \in Clients, NEW k \in Keys, Waits(pc'[d])
               PROVE  Occurrences(blockingClients'[k], myChan'[d])
                        <= TimesNamed(pc'[d], arg'[d], xkeys'[d], k)
    BY DEF AsNamed
  <2>1. /\ pc'[d] = pc[d] /\ myChan'[d] = myChan[d] /\ arg'[d] = arg[d]
        /\ xkeys'[d] = xkeys[d] /\ Waits(pc[d]) /\ myChan[d] \in Chans
    BY <1>4
  <2>2. Occurrences(blockingClients[k], myChan[d]) <= TimesNamed(pc[d], arg[d], xkeys[d], k)
    BY <2>1 DEF StoreInv, AsNamed
  <2>3. TimesNamed(pc[d], arg[d], xkeys[d], k) \in Nat
    <3>1. xkeys[d] \in Seq(Keys)
      BY DEF StoreTypeOK
    <3> QED
      BY <3>1, TimesNamedType
  <2>4. /\ Occurrences(blockingClients[k], myChan[d]) \in Nat
        /\ Occurrences(blockingClients'[k], myChan[d]) \in Nat
        /\ Occurrences(blockingClients'[k], myChan[d]) <= Occurrences(blockingClients[k], myChan[d])
    BY <1>2, <2>1
  <2> QED
    BY <2>1, <2>2, <2>3, <2>4
<1>8. SingleIsEmpty'
  BY <1>2, <1>4 DEF Leaves, SingleIsEmpty, StoreInv
<1>9. NewIsUnknown' /\ SomeoneToNotify'
  BY DEF Leaves, NewIsUnknown, SomeoneToNotify, StoreInv
<1>10. BLPopNeverDropsValue'
  <2> SUFFICES ASSUME NEW ch \in Chans, made[ch] = "blpop", buf'[ch] \in Values
               PROVE  \E d \in Clients : myChan'[d] = ch /\ pc'[d] \in BLPopPCs
    BY DEF BLPopNeverDropsValue, BLPopPCs, Leaves
  <2>1. buf[ch] \in Values /\ buf'[ch] # Empty
    BY WaitersAssumption DEF Leaves
  <2>2. PICK d \in Clients : myChan[d] = ch /\ pc[d] \in BLPopPCs
    BY <2>1 DEF StoreInv, BLPopNeverDropsValue, BLPopPCs
  <2>3. d # c
    BY <2>1, <2>2 DEF Leaves
  <2> QED
    BY <2>2, <2>3 DEF Leaves
<1> QED
  BY <1>3, <1>5, <1>6, <1>7, <1>8, <1>9, <1>10 DEF StoreInv

LEMMA JoinsKeeps ==
  ASSUME StoreTypeOK, StoreTypeOK', StoreInv, NEW c \in Clients, NEW ch \in Chans,
         NEW kind, Joins(c, ch, kind)
  PROVE  StoreInv'
<1>1. /\ pc[c] = "idle" /\ ~Waits(pc[c]) /\ pc[c] # "pushSend" /\ pc'[c] # "pushSend"
      /\ pc'[c] # "xaddSend" /\ Waits(pc'[c])
  BY DEF Joins, Waits, BLPopPCs, XReadPCs
<1>2. \A d \in Clients : d # c /\ (Waits(pc'[d]) \/ OneKey(pc'[d], xkeys'[d])) =>
        /\ pc'[d] = pc[d] /\ myChan'[d] = myChan[d] /\ arg'[d] = arg[d]
        /\ xkeys'[d] = xkeys[d] /\ Waits(pc[d]) /\ myChan[d] \in Chans /\ myChan[d] # ch
  BY DEF Joins, Waits, OneKey, StoreInv, HasChannel
<1>3. \A k \in Keys : ~Holds(blockingClients[k], ch)
  BY RegisteredIsMade DEF Joins, Waits
<1>4. ASSUME NEW k \in Keys
      PROVE  /\ \A x : x # ch => Occurrences(blockingClients'[k], x) = Occurrences(blockingClients[k], x)
             /\ \A x : x # ch /\ Holds(blockingClients'[k], x) => Holds(blockingClients[k], x)
             /\ Occurrences(blockingClients'[k], ch) <= TimesNamed(pc'[c], arg'[c], xkeys'[c], k)
  <2>1. PICK q \in Seq(Chans) : q = blockingClients[k]
    BY DEF StoreTypeOK
  <2>2. PICK r \in Seq(Chans) : r = blockingClients'[k]
    BY DEF StoreTypeOK
  <2>3. PICK n \in Nat : n = TimesNamed(pc'[c], arg'[c], xkeys'[c], k)
    <3>1. xkeys'[c] \in Seq(Keys)
      BY DEF StoreTypeOK
    <3> QED
      BY <3>1, TimesNamedType
  <2>4. FollowedBy(r, q, ch, n)
    BY <2>1, <2>2, <2>3 DEF Joins
  <2>5. /\ \A y : y # ch => Occurrences(r, y) = Occurrences(q, y)
        /\ ~Holds(q, ch) => Occurrences(r, ch) <= n
    BY <2>4, FollowedOccurs
  <2>6. \A x : /\ Occurrences(q, x) = 0 <=> ~Holds(q, x)
               /\ Occurrences(r, x) = 0 <=> ~Holds(r, x)
    BY QueueCounts
  <2> QED
    BY <1>3, <2>1, <2>2, <2>3, <2>5, <2>6
<1>5. Locked'
  <2>1. mu' = Free /\ \A e \in Clients : pc'[e] # "pushSend"
    BY <1>1, WaitersAssumption DEF Joins, StoreInv, Locked
  <2> QED
    BY <2>1 DEF Locked
<1>6. HasChannel' /\ OneWaiter'
  <2>1. HasChannel'
    <3> SUFFICES ASSUME NEW d \in Clients
                 PROVE  /\ Waits(pc'[d]) => myChan'[d] \in Chans
                        /\ pc'[d] \in BLPopPCs => made'[myChan'[d]] = "blpop" /\ arg'[d] \in Keys
                        /\ pc'[d] \in XReadPCs => made'[myChan'[d]] = "xread" /\ xkeys'[d] # <<>>
      BY DEF HasChannel
    <3>1. CASE d = c
      <4>1. BLPopPCs \cap XReadPCs = {}
        BY DEF BLPopPCs, XReadPCs
      <4> QED
        BY <3>1, <4>1 DEF Joins
    <3>2. CASE d # c
      BY <1>2, <3>2 DEF Joins, StoreInv, HasChannel, Waits
    <3> QED
      BY <3>1, <3>2
  <2>2. OneWaiter'
    BY <1>2 DEF Joins, OneWaiter, StoreInv
  <2> QED
    BY <2>1, <2>2
<1>7. Owned'
  <2> SUFFICES ASSUME NEW k \in Keys, NEW x \in Chans, Holds(blockingClients'[k], x)
               PROVE  \E d \in Clients : Waits(pc'[d]) /\ myChan'[d] = x
    BY DEF Owned
  <2>1. CASE x = ch
    BY <1>1, <2>1 DEF Joins
  <2>2. CASE x # ch
    <3>1. Holds(blockingClients[k], x)
      BY <1>4, <2>2
    <3>2. PICK d \in Clients : Waits(pc[d]) /\ myChan[d] = x
      BY <3>1 DEF StoreInv, Owned
    <3> QED
      BY <1>1, <3>2 DEF Joins
  <2> QED
    BY <2>1, <2>2
<1>8. AsNamed'
  <2> SUFFICES ASSUME NEW d \in Clients, NEW k \in Keys, Waits(pc'[d])
               PROVE  Occurrences(blockingClients'[k], myChan'[d])
                        <= TimesNamed(pc'[d], arg'[d], xkeys'[d], k)
    BY DEF AsNamed
  <2>1. CASE d = c
    BY <1>4, <2>1 DEF Joins
  <2>2. CASE d # c
    <3>1. /\ pc'[d] = pc[d] /\ myChan'[d] = myChan[d] /\ arg'[d] = arg[d]
          /\ xkeys'[d] = xkeys[d] /\ Waits(pc[d]) /\ myChan[d] # ch
      BY <1>2, <2>2
    <3>2. Occurrences(blockingClients[k], myChan[d]) <= TimesNamed(pc[d], arg[d], xkeys[d], k)
      BY <3>1 DEF StoreInv, AsNamed
    <3> QED
      BY <1>4, <3>1, <3>2
  <2> QED
    BY <2>1, <2>2
<1>9. SingleIsEmpty'
  <2> SUFFICES ASSUME NEW d \in Clients, NEW k \in Keys, OneKey(pc'[d], xkeys'[d]),
                      Holds(blockingClients'[k], myChan'[d])
               PROVE  buf'[myChan'[d]] = Empty /\ \A e \in Clients : ~Holds(sending'[e], myChan'[d])
    BY DEF SingleIsEmpty
  <2>1. CASE d = c
    BY <2>1 DEF Joins, StoreInv, NewIsUnknown
  <2>2. CASE d # c
    BY <1>2, <1>4, <2>2 DEF Joins, StoreInv, SingleIsEmpty
  <2> QED
    BY <2>1, <2>2
<1>10. NewIsUnknown'
  <2>1. kind # "none"
    BY DEF Joins
  <2> QED
    BY <2>1 DEF Joins, NewIsUnknown, StoreInv
<1>11. SomeoneToNotify'
  BY <1>1 DEF Joins, SomeoneToNotify, StoreInv
<1>12. BLPopNeverDropsValue'
  <2> SUFFICES ASSUME NEW x \in Chans, made'[x] = "blpop", buf'[x] \in Values
               PROVE  \E d \in Clients : myChan'[d] = x /\ pc'[d] \in BLPopPCs
    BY DEF BLPopNeverDropsValue, BLPopPCs
  <2>1. buf[ch] = Empty /\ buf[x] \in Values
    BY DEF Joins, StoreInv, NewIsUnknown
  <2>2. x # ch /\ made[x] = "blpop"
    BY <2>1, WaitersAssumption DEF Joins
  <2>3. PICK d \in Clients : myChan[d] = x /\ pc[d] \in BLPopPCs
    BY <2>1, <2>2 DEF StoreInv, BLPopNeverDropsValue, BLPopPCs
  <2>4. d # c
    BY <1>1, <2>3 DEF Waits
  <2> QED
    BY <2>3, <2>4 DEF Joins
<1> QED
  BY <1>5, <1>6, <1>7, <1>8, <1>9, <1>10, <1>11, <1>12 DEF StoreInv

(* Queues that only became shorter.                                        *)
Shrinks ==
  \A k \in Keys, x \in Chans :
    Occurrences(blockingClients'[k], x) <= Occurrences(blockingClients[k], x)

LEMMA ShrinksKeeps ==
  ASSUME StoreTypeOK, StoreTypeOK', StoreInv, Shrinks,
         \A d \in Clients :
           /\ Waits(pc'[d]) <=> Waits(pc[d])
           /\ Waits(pc[d]) => /\ pc'[d] = pc[d] /\ myChan'[d] = myChan[d]
                              /\ arg'[d] = arg[d] /\ xkeys'[d] = xkeys[d]
  PROVE  /\ Owned' /\ AsNamed'
         /\ \A k \in Keys, x \in Chans : Holds(blockingClients'[k], x) => Holds(blockingClients[k], x)
<1>1. \A k \in Keys, x \in Chans :
        /\ Occurrences(blockingClients[k], x) \in Nat
        /\ Occurrences(blockingClients'[k], x) \in Nat
        /\ Occurrences(blockingClients'[k], x) <= Occurrences(blockingClients[k], x)
        /\ Holds(blockingClients'[k], x) => Holds(blockingClients[k], x)
  <2> TAKE k \in Keys, x \in Chans
  <2>1. blockingClients[k] \in Seq(Chans) /\ blockingClients'[k] \in Seq(Chans)
    BY DEF StoreTypeOK
  <2>2. Occurrences(blockingClients'[k], x) <= Occurrences(blockingClients[k], x)
    BY DEF Shrinks
  <2> QED
    BY <2>1, <2>2, QueueCounts
<1>2. Owned'
  <2> SUFFICES ASSUME NEW k \in Keys, NEW ch \in Chans, Holds(blockingClients'[k], ch)
               PROVE  \E d \in Clients : Waits(pc'[d]) /\ myChan'[d] = ch
    BY DEF Owned
  <2>1. PICK d \in Clients : Waits(pc[d]) /\ myChan[d] = ch
    BY <1>1 DEF StoreInv, Owned
  <2> QED
    BY <2>1
<1>3. AsNamed'
  <2> SUFFICES ASSUME NEW d \in Clients, NEW k \in Keys, Waits(pc'[d])
               PROVE  Occurrences(blockingClients'[k], myChan'[d])
                        <= TimesNamed(pc'[d], arg'[d], xkeys'[d], k)
    BY DEF AsNamed
  <2>1. /\ pc'[d] = pc[d] /\ myChan'[d] = myChan[d] /\ arg'[d] = arg[d]
        /\ xkeys'[d] = xkeys[d] /\ Waits(pc[d]) /\ myChan[d] \in Chans
    BY DEF StoreInv, HasChannel
  <2>2. Occurrences(blockingClients[k], myChan[d]) <= TimesNamed(pc[d], arg[d], xkeys[d], k)
    BY <2>1 DEF StoreInv, AsNamed
  <2>3. TimesNamed(pc[d], arg[d], xkeys[d], k) \in Nat
    <3>1. xkeys[d] \in Seq(Keys)
      BY DEF StoreTypeOK
    <3> QED
      BY <3>1, TimesNamedType
  <2>4. /\ Occurrences(blockingClients[k], myChan[d]) \in Nat
        /\ Occurrences(blockingClients'[k], myChan[d]) \in Nat
        /\ Occurrences(blockingClients'[k], myChan[d]) <= Occurrences(blockingClients[k], myChan[d])
    BY <1>1, <2>1
  <2> QED
    BY <2>1, <2>2, <2>3, <2>4
<1> QED
  BY <1>1, <1>2, <1>3

(* A push hands its value to the first waiter of the queue.                *)
LEMMA ServesKeeps ==
  ASSUME StoreTypeOK, StoreTypeOK', StoreInv, NEW c \in Clients, NEW k \in Keys,
         NEW end \in {"L", "R"}, NEW vs \in List!FreshBatches,
         List!PushServes(c, k, end, vs), UNCHANGED streamVars
  PROVE  StoreInv'
<1>1. PICK q \in Seq(Chans) : q = blockingClients[k] /\ q # <<>>
  BY DEF List!PushServes, StoreTypeOK
<1>2. PICK ch \in Chans : ch = Head(q)
  BY <1>1, ServedCounts
<1>3. PICK msg \in Values : msg = Head(List!InOrder(end, vs))
  BY BatchType
<1>4. /\ UNCHANGED <<mu, made, pc, myChan, arg, vals, xkeys, sending>>
      /\ buf[ch] = Empty
      /\ \A x \in Chans : buf'[x] = IF x = ch THEN msg ELSE buf[x]
      /\ \A j \in Keys : blockingClients'[j] = IF j = k THEN Tail(q) ELSE blockingClients[j]
  BY <1>1, <1>2, <1>3 DEF List!PushServes, List!Served, streamVars, StoreTypeOK
<1>5. Shrinks
  <2> SUFFICES ASSUME NEW j \in Keys, NEW x \in Chans
               PROVE  Occurrences(blockingClients'[j], x) <= Occurrences(blockingClients[j], x)
    BY DEF Shrinks
  <2>1. blockingClients[j] \in Seq(Chans)
    BY DEF StoreTypeOK
  <2>2. Occurrences(blockingClients[j], x) \in Nat
    BY <2>1, QueueCounts
  <2> QED
    BY <1>1, <1>4, <2>2, ServedCounts
<1>6. /\ Owned' /\ AsNamed'
      /\ \A j \in Keys, x \in Chans : Holds(blockingClients'[j], x) => Holds(blockingClients[j], x)
  BY <1>4, <1>5, ShrinksKeeps
<1>7. PICK d \in Clients : /\ Waits(pc[d]) /\ myChan[d] = ch
                           /\ pc[d] \in BLPopPCs => made[ch] = "blpop"
                           /\ pc[d] \in XReadPCs => made[ch] = "xread"
  BY <1>1, <1>2, ServedCounts, RegisteredIsMade
<1>8. Locked'
  <2>1. \A e, f \in Clients : BehindXRead(e, f) => BehindXRead(e, f)'
    BY <1>4 DEF BehindXRead
  <2> QED
    BY <1>4, <2>1 DEF Locked, StoreInv
<1>9. HasChannel' /\ OneWaiter' /\ SomeoneToNotify'
  BY <1>4 DEF HasChannel, OneWaiter, SomeoneToNotify, StoreInv
<1>10. SingleIsEmpty'
  <2> SUFFICES ASSUME NEW e \in Clients, NEW j \in Keys, OneKey(pc[e], xkeys[e]),
                      Holds(blockingClients'[j], myChan[e])
               PROVE  buf'[myChan[e]] = Empty /\ \A f \in Clients : ~Holds(sending[f], myChan[e])
    BY <1>4 DEF SingleIsEmpty
  <2>1. myChan[e] \in Chans
    BY DEF OneKey, Waits, StoreInv, HasChannel
  <2>2. Holds(blockingClients[j], myChan[e])
    BY <1>6, <2>1
  <2>3. buf[myChan[e]] = Empty /\ \A f \in Clients : ~Holds(sending[f], myChan[e])
    BY <2>2 DEF StoreInv, SingleIsEmpty
  <2>4. myChan[e] # ch
    <3> SUFFICES ASSUME myChan[e] = ch PROVE FALSE
      OBVIOUS
    <3>1. Holds(blockingClients[k], myChan[e])
      BY <1>1, <1>2, ServedCounts
    <3>2. Occurrences(q, ch) = 1 /\ \A i \in Keys : i # k => ~Holds(blockingClients[i], ch)
      BY <1>1, <3>1, OneQueue
    <3>3. Occurrences(Tail(q), ch) <= Occurrences(q, ch) - 1 /\ Tail(q) \in Seq(Chans)
      BY <1>1, <1>2, ServedCounts
    <3>4. ~Holds(Tail(q), ch)
      <4>1. Occurrences(Tail(q), ch) \in Nat /\ (Occurrences(Tail(q), ch) = 0 <=> ~Holds(Tail(q), ch))
        BY <3>3, QueueCounts
      <4> QED
        BY <3>2, <3>3, <4>1
    <3> QED
      BY <1>4, <2>2, <3>2, <3>4
  <2> QED
    BY <1>4, <2>1, <2>3, <2>4
<1>11. NewIsUnknown'
  BY <1>4, <1>7 DEF NewIsUnknown, StoreInv, Waits
<1>12. BLPopNeverDropsValue'
  BY <1>4, <1>7 DEF BLPopNeverDropsValue, StoreInv, Waits, BLPopPCs, XReadPCs
<1> QED
  BY <1>6, <1>8, <1>9, <1>10, <1>11, <1>12 DEF StoreInv

(* A push blocks only in the send to an XREAD that registered more than    *)
(* once: whoever registers once has an empty channel.                      *)
LEMMA BlocksKeeps ==
  ASSUME StoreTypeOK, StoreTypeOK', StoreInv, NEW c \in Clients, NEW k \in Keys,
         NEW end \in {"L", "R"}, NEW vs \in List!FreshBatches,
         List!PushBlocks(c, k, end, vs), UNCHANGED streamVars
  PROVE  StoreInv'
<1>1. PICK q \in Seq(Chans) : q = blockingClients[k] /\ q # <<>>
  BY DEF List!PushBlocks, StoreTypeOK
<1>2. PICK ch \in Chans : ch = Head(q)
  BY <1>1, ServedCounts
<1>3. List!InOrder(end, vs) # <<>>
  BY BatchType
<1>4. /\ UNCHANGED <<made, buf, xkeys, sending>>
      /\ mu = Free /\ mu' = c /\ pc[c] = "idle" /\ buf[ch] # Empty
      /\ pc'[c] = "pushSend" /\ myChan'[c] = ch /\ arg'[c] = k /\ vals'[c] # <<>>
      /\ \A d \in Clients \ {c} : /\ pc'[d] = pc[d] /\ myChan'[d] = myChan[d]
                                  /\ arg'[d] = arg[d] /\ vals'[d] = vals[d]
      /\ \A j \in Keys : blockingClients'[j] = IF j = k THEN Tail(q) ELSE blockingClients[j]
  BY <1>1, <1>2, <1>3 DEF List!PushBlocks, List!Served, streamVars, StoreTypeOK
<1>5. Shrinks
  <2> SUFFICES ASSUME NEW j \in Keys, NEW x \in Chans
               PROVE  Occurrences(blockingClients'[j], x) <= Occurrences(blockingClients[j], x)
    BY DEF Shrinks
  <2>1. blockingClients[j] \in Seq(Chans)
    BY DEF StoreTypeOK
  <2>2. Occurrences(blockingClients[j], x) \in Nat
    BY <2>1, QueueCounts
  <2> QED
    BY <1>1, <1>4, <2>2, ServedCounts
<1>6. /\ ~Waits(pc[c]) /\ ~Waits(pc'[c])
      /\ \A d \in Clients : Waits(pc'[d]) \/ OneKey(pc'[d], xkeys[d]) => d # c
  BY <1>4 DEF Waits, OneKey, BLPopPCs, XReadPCs
<1>7. /\ Owned' /\ AsNamed'
      /\ \A j \in Keys, x \in Chans : Holds(blockingClients'[j], x) => Holds(blockingClients[j], x)
  BY <1>4, <1>5, <1>6, ShrinksKeeps
<1>8. Locked'
  <2>1. PICK d \in Clients : Waits(pc[d]) /\ myChan[d] = ch
    BY <1>1, <1>2, ServedCounts, RegisteredIsMade
  <2>2. ~OneKey(pc[d], xkeys[d])
    BY <1>1, <1>2, <1>4, <2>1, ServedCounts DEF StoreInv, SingleIsEmpty
  <2>3. pc[d] \in XReadPCs /\ xkeys[d] # <<>> /\ Len(xkeys[d]) # 1 /\ xkeys[d] \in Seq(Keys)
    BY <2>1, <2>2 DEF OneKey, Waits, StoreInv, HasChannel, StoreTypeOK
  <2>4. Len(xkeys[d]) > 1
    <3>1. PICK n \in Nat : n = Len(xkeys[d])
      BY <2>3, LenProperties
    <3>2. n # 0
      BY <2>3, <3>1, EmptySeq
    <3>3. n # 1
      BY <2>3, <3>1
    <3>4. n > 1
      BY <3>2, <3>3
    <3> QED
      BY <3>1, <3>4
  <2>5. d # c
    BY <1>6, <2>1
  <2>6. BehindXRead(c, d)'
    BY <1>4, <2>1, <2>3, <2>4, <2>5 DEF BehindXRead
  <2>7. \A e \in Clients : pc'[e] = "pushSend" => e = c
    BY <1>4, WaitersAssumption DEF StoreInv, Locked
  <2> QED
    BY <1>4, <2>6, <2>7 DEF Locked
<1>9. HasChannel' /\ OneWaiter' /\ SomeoneToNotify'
  <2>1. HasChannel'
    BY <1>4, <1>6 DEF HasChannel, StoreInv, Waits
  <2>2. OneWaiter'
    BY <1>4, <1>6 DEF OneWaiter, StoreInv
  <2>3. SomeoneToNotify'
    BY <1>4 DEF SomeoneToNotify, StoreInv
  <2> QED
    BY <2>1, <2>2, <2>3
<1>10. SingleIsEmpty'
  <2>1. \A d \in Clients : OneKey(pc'[d], xkeys[d]) => OneKey(pc[d], xkeys[d]) /\ myChan'[d] = myChan[d]
                                                       /\ myChan[d] \in Chans
    BY <1>4, <1>6 DEF OneKey, Waits, StoreInv, HasChannel
  <2> QED
    BY <1>4, <1>7, <2>1 DEF SingleIsEmpty, StoreInv
<1>11. NewIsUnknown'
  BY <1>4 DEF NewIsUnknown, StoreInv
<1>12. BLPopNeverDropsValue'
  <2>1. \A d \in Clients : pc[d] \in BLPopPCs => d # c
    BY <1>6 DEF Waits
  <2> QED
    BY <1>4, <2>1 DEF BLPopNeverDropsValue, StoreInv, BLPopPCs
<1> QED
  BY <1>7, <1>8, <1>9, <1>10, <1>11, <1>12 DEF StoreInv

(* The blocked send goes through: the value is for that XREAD.             *)
LEMMA ResumesKeeps ==
  ASSUME StoreTypeOK, StoreTypeOK', StoreInv, NEW c \in Clients,
         List!PushResumes(c), UNCHANGED streamVars
  PROVE  StoreInv'
<1>1. PICK d \in Clients : BehindXRead(c, d)
  BY DEF List!PushResumes, StoreInv, Locked
<1>2. PICK ch \in Chans : ch = myChan[d] /\ ch = myChan[c] /\ made[ch] = "xread"
  BY <1>1 DEF BehindXRead, StoreInv, HasChannel, Waits
<1>3. /\ UNCHANGED <<made, blockingClients, xkeys, sending>>
      /\ mu = c /\ mu' = Free /\ pc[c] = "pushSend" /\ pc'[c] = "idle"
      /\ \A e \in Clients \ {c} : /\ pc'[e] = pc[e] /\ myChan'[e] = myChan[e]
                                  /\ arg'[e] = arg[e] /\ vals'[e] = vals[e]
      /\ \A x \in Chans : x # ch => buf'[x] = buf[x]
  BY <1>2 DEF List!PushResumes, List!EndWait, List!EndCall, streamVars, StoreTypeOK,
              StoreInv, Locked
<1>4. /\ ~Waits(pc[c]) /\ ~Waits(pc'[c])
      /\ \A e \in Clients : Waits(pc'[e]) \/ OneKey(pc'[e], xkeys[e]) => e # c
  BY <1>3 DEF Waits, OneKey, BLPopPCs, XReadPCs
<1>5. Locked'
  <2>1. \A e \in Clients : pc'[e] # "pushSend"
    BY <1>3 DEF StoreInv, Locked
  <2> QED
    BY <1>3, <2>1 DEF Locked
<1>6. Owned' /\ AsNamed'
  <2>1. Shrinks
    <3>1. \A j \in Keys, x \in Chans : Occurrences(blockingClients[j], x) \in Nat
      BY QueueCounts DEF StoreTypeOK
    <3> QED
      BY <1>3, <3>1 DEF Shrinks
  <2> QED
    BY <1>3, <1>4, <2>1, ShrinksKeeps
<1>7. HasChannel' /\ OneWaiter' /\ SomeoneToNotify'
  <2>1. HasChannel'
    BY <1>3, <1>4 DEF HasChannel, StoreInv, Waits
  <2>2. OneWaiter'
    BY <1>3, <1>4 DEF OneWaiter, StoreInv
  <2>3. SomeoneToNotify'
    BY <1>3 DEF SomeoneToNotify, StoreInv
  <2> QED
    BY <2>1, <2>2, <2>3
<1>8. SingleIsEmpty'
  <2>1. ASSUME NEW e \in Clients, OneKey(pc'[e], xkeys[e])
        PROVE  /\ OneKey(pc[e], xkeys[e]) /\ myChan'[e] = myChan[e]
               /\ myChan[e] \in Chans /\ myChan[e] # ch
    <3>1. /\ OneKey(pc[e], xkeys[e]) /\ myChan'[e] = myChan[e] /\ Waits(pc[e])
          /\ myChan[e] \in Chans
      BY <1>3, <1>4, <2>1 DEF OneKey, Waits, StoreInv, HasChannel
    <3>2. e # d
      <4>1. Len(xkeys[d]) > 1 /\ xkeys[d] \in Seq(Keys) /\ pc[d] \notin BLPopPCs
        BY <1>1 DEF BehindXRead, BLPopPCs, XReadPCs, StoreTypeOK
      <4>2. Len(xkeys[d]) # 1
        <5>1. PICK n \in Nat : n = Len(xkeys[d])
          BY <4>1, LenProperties
        <5>2. n > 1
          BY <4>1, <5>1
        <5>3. n # 1
          BY <5>2
        <5> QED
          BY <5>1, <5>3
      <4> QED
        BY <3>1, <4>1, <4>2 DEF OneKey
    <3>3. Waits(pc[d])
      BY <1>1 DEF BehindXRead, Waits
    <3> QED
      BY <1>2, <3>1, <3>2, <3>3 DEF StoreInv, OneWaiter
  <2> QED
    BY <1>3, <2>1 DEF SingleIsEmpty, StoreInv
<1>9. NewIsUnknown'
  BY <1>2, <1>3 DEF NewIsUnknown, StoreInv
<1>10. BLPopNeverDropsValue'
  <2>1. \A e \in Clients : pc[e] \in BLPopPCs => e # c
    BY <1>4 DEF Waits
  <2> QED
    BY <1>2, <1>3, <2>1 DEF BLPopNeverDropsValue, StoreInv, BLPopPCs
<1> QED
  BY <1>5, <1>6, <1>7, <1>8, <1>9, <1>10 DEF StoreInv

(* XADD takes over the queue of its key, to notify it.                     *)
LEMMA XAddKeeps ==
  ASSUME StoreTypeOK, StoreTypeOK', StoreInv, NEW c \in Clients, NEW k \in Keys,
         Stream!XAdd(c, k), UNCHANGED listVars
  PROVE  StoreInv'
<1>1. /\ UNCHANGED <<mu, made, buf, myChan, arg, vals, xkeys>>
      /\ pc[c] = "idle"
      /\ pc'[c] = IF blockingClients[k] = <<>> THEN "idle" ELSE "xaddSend"
      /\ sending'[c] = blockingClients[k]
      /\ \A d \in Clients \ {c} : pc'[d] = pc[d] /\ sending'[d] = sending[d]
      /\ \A j \in Keys : blockingClients'[j] = IF j = k THEN <<>> ELSE blockingClients[j]
  BY DEF Stream!XAdd, Stream!TakeQueue, listVars, StoreTypeOK
<1>2. \A x : ~Holds(<<>>, x) /\ Occurrences(<<>>, x) = 0
  <2>1. <<>> \in Seq(Chans) /\ DOMAIN <<>> = {}
    OBVIOUS
  <2>2. \A x : ~Holds(<<>>, x)
    BY <2>1 DEF Holds
  <2> QED
    BY <2>1, <2>2, QueueCounts
<1>3. Shrinks
  <2> SUFFICES ASSUME NEW j \in Keys, NEW x \in Chans
               PROVE  Occurrences(blockingClients'[j], x) <= Occurrences(blockingClients[j], x)
    BY DEF Shrinks
  <2>1. Occurrences(blockingClients[j], x) \in Nat
    BY QueueCounts DEF StoreTypeOK
  <2> QED
    BY <1>1, <1>2, <2>1
<1>4. /\ ~Waits(pc[c]) /\ ~Waits(pc'[c]) /\ pc'[c] # "pushSend"
      /\ \A d \in Clients : Waits(pc'[d]) \/ OneKey(pc'[d], xkeys[d]) => d # c
  BY <1>1 DEF Waits, OneKey, BLPopPCs, XReadPCs
<1>5. /\ Owned' /\ AsNamed'
      /\ \A j \in Keys, x \in Chans : Holds(blockingClients'[j], x) => Holds(blockingClients[j], x)
  BY <1>1, <1>3, <1>4, ShrinksKeeps
<1>6. Locked'
  <2>1. \A e, f \in Clients : BehindXRead(e, f) => BehindXRead(e, f)'
    <3>1. \A f \in Clients : pc[f] \in XReadPCs => f # c
      BY <1>4 DEF Waits
    <3> QED
      BY <1>1, <3>1 DEF BehindXRead
  <2>2. mu # Free => mu \in Clients /\ mu # c
    BY <1>1 DEF StoreInv, Locked, StoreTypeOK
  <2> QED
    BY <1>1, <1>4, <2>1, <2>2 DEF Locked, StoreInv
<1>7. HasChannel' /\ OneWaiter' /\ SomeoneToNotify'
  <2>1. HasChannel'
    BY <1>1, <1>4 DEF HasChannel, StoreInv, Waits
  <2>2. OneWaiter'
    BY <1>1, <1>4 DEF OneWaiter, StoreInv
  <2>3. SomeoneToNotify'
    BY <1>1 DEF SomeoneToNotify, StoreInv
  <2> QED
    BY <2>1, <2>2, <2>3
<1>8. SingleIsEmpty'
  <2> SUFFICES ASSUME NEW d \in Clients, NEW j \in Keys, OneKey(pc'[d], xkeys[d]),
                      Holds(blockingClients'[j], myChan[d])
               PROVE  buf[myChan[d]] = Empty /\ \A e \in Clients : ~Holds(sending'[e], myChan[d])
    BY <1>1 DEF SingleIsEmpty
  <2>1. OneKey(pc[d], xkeys[d]) /\ myChan[d] \in Chans
    BY <1>1, <1>4 DEF OneKey, Waits, StoreInv, HasChannel
  <2>2. j # k /\ Holds(blockingClients[j], myChan[d])
    BY <1>1, <1>2
  <2>3. buf[myChan[d]] = Empty /\ \A e \in Clients : ~Holds(sending[e], myChan[d])
    BY <2>1, <2>2 DEF StoreInv, SingleIsEmpty
  <2>4. ~Holds(blockingClients[k], myChan[d])
    BY <2>1, <2>2, OneQueue
  <2> QED
    BY <1>1, <2>3, <2>4
<1>9. NewIsUnknown'
  <2>1. \A x \in Chans : made[x] = "none" => ~Holds(blockingClients[k], x)
    BY RegisteredIsMade DEF Waits
  <2> QED
    BY <1>1, <2>1 DEF NewIsUnknown, StoreInv
<1>10. BLPopNeverDropsValue'
  <2>1. \A d \in Clients : pc[d] \in BLPopPCs => d # c
    BY <1>4 DEF Waits
  <2> QED
    BY <1>1, <2>1 DEF BLPopNeverDropsValue, StoreInv, BLPopPCs
<1> QED
  BY <1>5, <1>6, <1>7, <1>8, <1>9, <1>10 DEF StoreInv

(* XADD notifies the next channel, if it has room.                         *)
LEMMA NotifiesKeeps ==
  ASSUME StoreTypeOK, StoreTypeOK', StoreInv, NEW c \in Clients,
         Stream!XAddNotifies(c), UNCHANGED listVars
  PROVE  StoreInv'
<1>1. PICK q \in Seq(Chans) : q = sending[c] /\ q # <<>>
  BY DEF Stream!XAddNotifies, StoreTypeOK, StoreInv, SomeoneToNotify
<1>2. PICK ch \in Chans : ch = Head(q)
  BY <1>1, ServedCounts
<1>3. /\ UNCHANGED <<mu, blockingClients, made, myChan, arg, vals, xkeys>>
      /\ pc[c] = "xaddSend"
      /\ pc'[c] = IF Len(q) = 1 THEN "idle" ELSE "xaddSend"
      /\ sending'[c] = Tail(q)
      /\ \A d \in Clients \ {c} : pc'[d] = pc[d] /\ sending'[d] = sending[d]
      /\ \A x \in Chans : x # ch => buf'[x] = buf[x]
      /\ buf'[ch] = IF buf[ch] = Empty THEN StreamID ELSE buf[ch]
  BY <1>1, <1>2 DEF Stream!XAddNotifies, Stream!Offer, listVars, StoreTypeOK
<1>4. Shrinks
  <2>1. \A j \in Keys, x \in Chans : Occurrences(blockingClients[j], x) \in Nat
    BY QueueCounts DEF StoreTypeOK
  <2> QED
    BY <1>3, <2>1 DEF Shrinks
<1>5. /\ ~Waits(pc[c]) /\ ~Waits(pc'[c]) /\ pc'[c] # "pushSend"
      /\ \A d \in Clients : Waits(pc'[d]) \/ OneKey(pc'[d], xkeys[d]) => d # c
  BY <1>3 DEF Waits, OneKey, BLPopPCs, XReadPCs
<1>6. Owned' /\ AsNamed'
  BY <1>3, <1>4, <1>5, ShrinksKeeps
<1>7. Locked'
  <2>1. \A e, f \in Clients : BehindXRead(e, f) => BehindXRead(e, f)'
    <3>1. \A f \in Clients : pc[f] \in XReadPCs => f # c
      BY <1>5 DEF Waits
    <3> QED
      BY <1>3, <3>1 DEF BehindXRead
  <2>2. mu # Free => mu \in Clients /\ mu # c
    BY <1>3 DEF StoreInv, Locked, StoreTypeOK
  <2> QED
    BY <1>3, <1>5, <2>1, <2>2 DEF Locked, StoreInv
<1>8. HasChannel' /\ OneWaiter'
  <2>1. HasChannel'
    BY <1>3, <1>5 DEF HasChannel, StoreInv, Waits
  <2>2. OneWaiter'
    BY <1>3, <1>5 DEF OneWaiter, StoreInv
  <2> QED
    BY <2>1, <2>2
<1>9. SomeoneToNotify'
  <2>1. Len(q) # 1 => Tail(q) # <<>>
    <3>1. PICK n \in Nat : n = Len(q)
      BY LenProperties
    <3>2. Len(Tail(q)) = n - 1
      BY <1>1, <3>1, HeadTailProperties
    <3>3. Len(<<>>) = 0
      OBVIOUS
    <3>4. n # 1 => Len(Tail(q)) # 0
      BY <3>1, <3>2
    <3> QED
      BY <3>1, <3>3, <3>4
  <2> QED
    BY <1>3, <2>1 DEF SomeoneToNotify, StoreInv
<1>10. /\ Holds(sending[c], ch)
       /\ \A x : \A d \in Clients : Holds(sending'[d], x) => Holds(sending[d], x)
  <2>1. \A x : Holds(Tail(q), x) => Holds(q, x)
    <3> SUFFICES ASSUME NEW x, Holds(Tail(q), x) PROVE Holds(q, x)
      OBVIOUS
    <3>1. /\ Occurrences(Tail(q), x) \in Nat
          /\ Occurrences(Tail(q), x) = 0 <=> ~Holds(Tail(q), x)
      BY <1>1, ServedCounts, QueueCounts
    <3>2. /\ Occurrences(q, x) \in Nat
          /\ Occurrences(q, x) = 0 <=> ~Holds(q, x)
      BY <1>1, QueueCounts
    <3>3. Occurrences(Tail(q), x) <= Occurrences(q, x)
      BY <1>1, ServedCounts
    <3> QED
      BY <3>1, <3>2, <3>3
  <2> QED
    BY <1>1, <1>2, <1>3, <2>1, ServedCounts
<1>11. SingleIsEmpty'
  <2>1. \A d \in Clients : OneKey(pc'[d], xkeys[d]) => OneKey(pc[d], xkeys[d]) /\ myChan[d] \in Chans
    BY <1>3, <1>5 DEF OneKey, Waits, StoreInv, HasChannel
  <2> QED
    BY <1>3, <1>10, <2>1 DEF SingleIsEmpty, StoreInv
<1>12. NewIsUnknown'
  BY <1>3, <1>10 DEF NewIsUnknown, StoreInv
<1>13. BLPopNeverDropsValue'
  <2>1. \A d \in Clients : pc[d] \in BLPopPCs => d # c
    BY <1>5 DEF Waits
  <2> QED
    BY <1>3, <2>1, WaitersAssumption DEF BLPopNeverDropsValue, StoreInv, BLPopPCs
<1> QED
  BY <1>6, <1>7, <1>8, <1>9, <1>11, <1>12, <1>13 DEF StoreInv

-----------------------------------------------------------------------------
(* Which step does what.                                                   *)

LEMMA BLPopWaitsJoins ==
  ASSUME StoreTypeOK, NEW c \in Clients, NEW k \in Keys, NEW ch \in Chans,
         NEW hasTimeout \in BOOLEAN, List!BLPopWaits(c, k, ch, hasTimeout), UNCHANGED streamVars
  PROVE  Joins(c, ch, "blpop")
<1>1. /\ mu = Free /\ pc[c] = "idle" /\ made[ch] = "none"
      /\ UNCHANGED <<mu, buf, vals, sending>>
      /\ \A x \in Chans : made'[x] = IF x = ch THEN "blpop" ELSE made[x]
      /\ myChan'[c] = ch /\ pc'[c] = "blpopWait" /\ arg'[c] = k
      /\ \A d \in Clients \ {c} :
           pc'[d] = pc[d] /\ myChan'[d] = myChan[d] /\ arg'[d] = arg[d] /\ xkeys'[d] = xkeys[d]
  BY DEF List!BLPopWaits, List!StartWait, streamVars, StoreTypeOK
<1>2. \A j \in Keys : blockingClients'[j] = IF j = k THEN Append(blockingClients[k], ch)
                                             ELSE blockingClients[j]
  BY DEF List!BLPopWaits, List!StartWait, StoreTypeOK
<1>3. ASSUME NEW j \in Keys
      PROVE  FollowedBy(blockingClients'[j], blockingClients[j], ch,
                        TimesNamed(pc'[c], arg'[c], xkeys'[c], j))
  <2>1. TimesNamed(pc'[c], arg'[c], xkeys'[c], j) = IF k = j THEN 1 ELSE 0
    BY <1>1 DEF TimesNamed, BLPopPCs
  <2>2. blockingClients[j] \in Seq(Chans)
    BY DEF StoreTypeOK
  <2>3. FollowedBy(blockingClients[j], blockingClients[j], ch, 0)
    BY <2>2, LenProperties DEF FollowedBy
  <2>4. FollowedBy(Append(blockingClients[j], ch), blockingClients[j], ch, 1)
    BY <2>2, AppendFollows
  <2> QED
    BY <1>2, <2>1, <2>3, <2>4
<1> QED
  BY <1>1, <1>3 DEF Joins, BLPopPCs

LEMMA XReadWaitsJoins ==
  ASSUME StoreTypeOK, NEW c \in Clients, NEW ks \in KeyLists, NEW from, NEW ch \in Chans,
         NEW hasTimeout \in BOOLEAN, Stream!XReadWaits(c, ks, from, ch, hasTimeout),
         UNCHANGED listVars
  PROVE  Joins(c, ch, "xread")
<1>1. ks \in Seq(Keys) /\ ks # <<>>
  BY StoreAssumption
<1>2. /\ mu = Free /\ pc[c] = "idle" /\ made[ch] = "none"
      /\ UNCHANGED <<mu, buf, vals, sending>>
      /\ \A x \in Chans : made'[x] = IF x = ch THEN "xread" ELSE made[x]
      /\ myChan'[c] = ch /\ pc'[c] = "xreadWait" /\ xkeys'[c] = ks
      /\ \A d \in Clients \ {c} :
           pc'[d] = pc[d] /\ myChan'[d] = myChan[d] /\ arg'[d] = arg[d] /\ xkeys'[d] = xkeys[d]
      /\ blockingClients' = Stream!RegisterAll(ks, ch)
  BY DEF Stream!XReadWaits, Stream!StartWait, listVars, StoreTypeOK
<1>3. \A j \in Keys : TimesNamed(pc'[c], arg'[c], xkeys'[c], j) = Occurrences(ks, j)
  BY <1>2 DEF TimesNamed, BLPopPCs
<1>4. \A j \in Keys : FollowedBy(blockingClients'[j], blockingClients[j], ch,
                                 TimesNamed(pc'[c], arg'[c], xkeys'[c], j))
  BY <1>1, <1>2, <1>3, RegisterJoins DEF StoreTypeOK
<1> QED
  BY <1>1, <1>2, <1>4 DEF Joins, XReadPCs

(* A BLPOP that receives was served: its channel is in no queue.           *)
LEMMA BLPopReceivesLeaves ==
  ASSUME StoreTypeOK, StoreInv, NEW c \in Clients, List!BLPopReceives(c), UNCHANGED streamVars
  PROVE  Leaves(c)
<1>1. /\ pc[c] = "blpopWait" /\ buf[myChan[c]] # Empty /\ myChan[c] \in Chans
  BY DEF List!BLPopReceives, StoreInv, HasChannel, Waits, BLPopPCs
<1>2. /\ UNCHANGED <<mu, made, vals, sending, blockingClients>>
      /\ pc'[c] = "idle"
      /\ \A d \in Clients \ {c} :
           pc'[d] = pc[d] /\ myChan'[d] = myChan[d] /\ arg'[d] = arg[d] /\ xkeys'[d] = xkeys[d]
      /\ \A x \in Chans : buf'[x] = IF x = myChan[c] THEN Empty ELSE buf[x]
  BY <1>1 DEF List!BLPopReceives, List!Drain, List!EndWait, List!EndCall, streamVars, StoreTypeOK
<1>3. \A j \in Keys : ~Holds(blockingClients[j], myChan[c])
  BY <1>1 DEF StoreInv, SingleIsEmpty, OneKey, BLPopPCs
<1>4. \A j \in Keys : \A x : Occurrences(blockingClients[j], x) <= Occurrences(blockingClients[j], x)
  <2>1. \A j \in Keys : \A x : Occurrences(blockingClients[j], x) \in Nat
    BY QueueCounts DEF StoreTypeOK
  <2> QED
    BY <2>1
<1> QED
  BY <1>1, <1>2, <1>3, <1>4 DEF Leaves, Waits, BLPopPCs, XReadPCs

(* One that gives up takes the only occurrence of its channel away.        *)
LEMMA BLPopGivesUpLeaves ==
  ASSUME StoreTypeOK, StoreInv, NEW c \in Clients, List!BLPopGivesUp(c), UNCHANGED streamVars
  PROVE  Leaves(c)
<1>1. /\ pc[c] = "blpopTimedOut" /\ myChan[c] \in Chans /\ arg[c] \in Keys
  BY DEF List!BLPopGivesUp, StoreInv, HasChannel, Waits, BLPopPCs
<1>2. /\ UNCHANGED <<mu, made, vals, sending>>
      /\ pc'[c] = "idle"
      /\ \A d \in Clients \ {c} :
           pc'[d] = pc[d] /\ myChan'[d] = myChan[d] /\ arg'[d] = arg[d] /\ xkeys'[d] = xkeys[d]
      /\ \A x \in Chans : buf'[x] = IF x = myChan[c] THEN Empty ELSE buf[x]
  BY <1>1 DEF List!BLPopGivesUp, List!Drain, List!EndWait, List!EndCall, streamVars, StoreTypeOK
<1>3. \A j \in Keys : blockingClients'[j] = IF j = arg[c] THEN RemoveFirst(blockingClients[j], myChan[c])
                                             ELSE blockingClients[j]
  <2>1. \A q : List!Unregister(q, myChan[c]) = RemoveFirst(q, myChan[c])
    BY UnregisterIs
  <2> QED
    BY <1>1, <2>1 DEF List!BLPopGivesUp, StoreTypeOK
<1>4. ASSUME NEW j \in Keys
      PROVE  /\ ~Holds(blockingClients'[j], myChan[c])
             /\ \A x : Occurrences(blockingClients'[j], x) <= Occurrences(blockingClients[j], x)
  <2>1. PICK q \in Seq(Chans) : q = blockingClients[j]
    BY DEF StoreTypeOK
  <2>2. Occurrences(q, myChan[c]) <= IF arg[c] = j THEN 1 ELSE 0
    BY <1>1, <2>1 DEF StoreInv, AsNamed, TimesNamed, Waits, BLPopPCs
  <2>3. \A x : Occurrences(q, x) \in Nat /\ (Occurrences(q, x) = 0 <=> ~Holds(q, x))
    BY QueueCounts
  <2>4. CASE j = arg[c]
    <3>1. PICK r \in Seq(Chans) : r = RemoveFirst(q, myChan[c])
      BY <1>1, RemoveFirstType
    <3>2. /\ \A x : Occurrences(r, x) <= Occurrences(q, x)
          /\ Holds(q, myChan[c]) => Occurrences(r, myChan[c]) <= Occurrences(q, myChan[c]) - 1
      BY <1>1, <3>1, RemoveFirstOccurs
    <3>3. Occurrences(r, myChan[c]) \in Nat /\ (Occurrences(r, myChan[c]) = 0 <=> ~Holds(r, myChan[c]))
      BY QueueCounts
    <3>4. Occurrences(r, myChan[c]) <= 0
      BY <2>2, <2>3, <2>4, <3>2, <3>3
    <3> QED
      BY <1>3, <2>1, <2>4, <3>1, <3>2, <3>3, <3>4
  <2>5. CASE j # arg[c]
    BY <1>3, <2>1, <2>2, <2>3, <2>5
  <2> QED
    BY <2>4, <2>5
<1> QED
  BY <1>1, <1>2, <1>4 DEF Leaves, Waits, BLPopPCs, XReadPCs

(* An XREAD takes its channel off as often as it registered it.            *)
LEMMA XReadLeaves ==
  ASSUME StoreTypeOK, StoreInv, NEW c \in Clients,
         Stream!XReadReplies(c) \/ Stream!XReadGivesUp(c), UNCHANGED listVars
  PROVE  Leaves(c)
<1>1. /\ pc[c] \in XReadPCs /\ myChan[c] \in Chans /\ mu = Free /\ xkeys[c] \in Seq(Keys)
  BY DEF Stream!XReadReplies, Stream!XReadGivesUp, StoreInv, HasChannel, Waits, XReadPCs,
         StoreTypeOK
<1>2. /\ UNCHANGED <<mu, made, vals, sending>>
      /\ pc'[c] = "idle"
      /\ \A d \in Clients \ {c} :
           pc'[d] = pc[d] /\ myChan'[d] = myChan[d] /\ arg'[d] = arg[d] /\ xkeys'[d] = xkeys[d]
      /\ \A x \in Chans : buf'[x] \in {buf[x], Empty}
      /\ blockingClients' = Stream!RemoveWaiterFromKeys(xkeys[c], myChan[c])
  BY <1>1 DEF Stream!XReadReplies, Stream!XReadGivesUp, Stream!Drain, Stream!FinishRead,
              Stream!EndWait, listVars, StoreTypeOK
<1>3. \A j \in Keys : Occurrences(blockingClients[j], myChan[c]) <= Occurrences(xkeys[c], j)
  BY <1>1 DEF StoreInv, AsNamed, TimesNamed, Waits, BLPopPCs, XReadPCs
<1>4. ASSUME NEW j \in Keys
      PROVE  /\ ~Holds(blockingClients'[j], myChan[c])
             /\ \A x : Occurrences(blockingClients'[j], x) <= Occurrences(blockingClients[j], x)
  <2>1. blockingClients \in [Keys -> Seq(Chans)]
    BY DEF StoreTypeOK
  <2>2. /\ \A x : Occurrences(Stream!RemoveWaiterFromKeys(xkeys[c], myChan[c])[j], x)
                    <= Occurrences(blockingClients[j], x)
        /\ ~Holds(Stream!RemoveWaiterFromKeys(xkeys[c], myChan[c])[j], myChan[c])
    BY <1>1, <1>3, <2>1, RemoveWaiterCounts
  <2> QED
    BY <1>2, <2>2
<1> QED
  BY <1>1, <1>2, <1>4 DEF Leaves, Waits, BLPopPCs, XReadPCs

(* The steps that neither start nor end a wait.                            *)
LEMMA ListCalm ==
  ASSUME StoreTypeOK, NEW c \in Clients, UNCHANGED streamVars,
         \/ \E k \in Keys, end \in {"L", "R"}, vs \in List!FreshBatches :
              List!PushStores(c, k, end, vs)
         \/ \E k \in Keys : List!BLPopNow(c, k)
         \/ List!BLPopTimesOut(c)
  PROVE  Calm
<1>1. CASE List!BLPopTimesOut(c)
  BY <1>1 DEF List!BLPopTimesOut, List!TimerFires, List!listVars, streamVars, Calm, StoreTypeOK,
              BLPopPCs, XReadPCs
<1>2. CASE UNCHANGED <<mu, blockingClients, made, myChan, arg, vals, xkeys, sending, pc, buf>>
  BY <1>2 DEF Calm
<1> QED
  BY <1>1, <1>2 DEF List!PushStores, List!BLPopNow, List!waitVars, streamVars

LEMMA StreamCalm ==
  ASSUME StoreTypeOK, NEW c \in Clients, UNCHANGED listVars,
         Stream!XReadReceives(c) \/ Stream!XReadTimesOut(c)
  PROVE  Calm
<1>1. CASE Stream!XReadReceives(c)
  BY <1>1 DEF Stream!XReadReceives, Stream!Drain, listVars, Calm, StoreTypeOK, BLPopPCs, XReadPCs
<1>2. CASE Stream!XReadTimesOut(c)
  BY <1>2 DEF Stream!XReadTimesOut, Stream!TimerFires, Stream!streamVars, listVars, Calm,
              StoreTypeOK, BLPopPCs, XReadPCs
<1> QED
  BY <1>1, <1>2

LEMMA InitInv == Init => StoreTypeOK /\ StoreInv
<1> SUFFICES ASSUME Init PROVE StoreTypeOK /\ StoreInv
  OBVIOUS
<1> USE DEF Init, WaitersInit, List!ListInit, Stream!StreamInit
<1>1. \A S : <<>> \in Seq(S)
  OBVIOUS
<1>2. StoreTypeOK
  BY <1>1 DEF StoreTypeOK, StorePCs
<1>3. \A x : ~Holds(<<>>, x)
  BY DEF Holds
<1>4. \A c \in Clients : /\ pc[c] = "idle" /\ ~Waits(pc[c]) /\ ~OneKey(pc[c], xkeys[c])
                        /\ sending[c] = <<>> /\ pc[c] \notin BLPopPCs /\ pc[c] \notin XReadPCs
  BY DEF Waits, OneKey, BLPopPCs, XReadPCs
<1>5. Locked /\ HasChannel /\ OneWaiter /\ AsNamed /\ SingleIsEmpty /\ SomeoneToNotify
  BY <1>4 DEF Locked, HasChannel, OneWaiter, AsNamed, SingleIsEmpty, SomeoneToNotify
<1>6. Owned /\ NewIsUnknown
  BY <1>3, <1>4 DEF Owned, NewIsUnknown
<1>7. BLPopNeverDropsValue
  BY DEF BLPopNeverDropsValue
<1> QED
  BY <1>2, <1>5, <1>6, <1>7 DEF StoreInv

LEMMA StepInv ==
  ASSUME StoreTypeOK, StoreInv, [StoreNext]_vars
  PROVE  StoreTypeOK' /\ StoreInv'
<1>0. CASE UNCHANGED vars
  <2>1. UNCHANGED <<mu, blockingClients, made, buf, pc, myChan, elements, arg, side, vals, pushed,
                    popped, xkeys, sending, swallowed>>
    BY <1>0 DEF vars, waitVars, listVars, streamVars
  <2>2. StoreTypeOK'
    BY <2>1 DEF StoreTypeOK
  <2>3. Calm
    BY <2>1 DEF Calm
  <2> QED
    BY <2>2, <2>3, CalmKeeps
<1>1. ASSUME NEW c \in Clients, ListStep(c)
      PROVE  StoreTypeOK' /\ StoreInv'
  <2>0. StoreTypeOK' /\ UNCHANGED streamVars
    BY <1>1, ListTypes DEF ListStep
  <2>1. CASE List!CallPush(c)
    BY <2>0, <2>1, ListCalm, CalmKeeps, ServesKeeps, BlocksKeeps DEF List!CallPush
  <2>2. CASE List!CallBLPop(c)
    BY <2>0, <2>2, ListCalm, CalmKeeps, BLPopWaitsJoins, JoinsKeeps DEF List!CallBLPop
  <2>3. CASE List!ListProgress(c)
    <3>1. /\ ~List!LPopChecks(c) /\ ~List!LPopCompares(c) /\ ~List!LPopCuts(c)
          /\ ~List!LPopReads(c) /\ ~List!LPopSlices(c) /\ ~List!LPopStores(c)
      BY NoLPop
    <3> QED
      BY <2>0, <2>3, <3>1, ResumesKeeps, BLPopReceivesLeaves, BLPopGivesUpLeaves, LeavesKeeps,
         ListCalm, CalmKeeps
      DEF List!ListProgress
  <2> QED
    BY <1>1, <2>0, <2>1, <2>2, <2>3 DEF ListStep
<1>2. ASSUME NEW c \in Clients, StreamStep(c)
      PROVE  StoreTypeOK' /\ StoreInv'
  <2>0. StoreTypeOK' /\ UNCHANGED listVars
    BY <1>2, StreamTypes DEF StreamStep
  <2>1. CASE Stream!CallXAdd(c)
    BY <2>0, <2>1, XAddKeeps DEF Stream!CallXAdd
  <2>2. CASE Stream!CallXRead(c)
    BY <2>0, <2>2, XReadWaitsJoins, JoinsKeeps DEF Stream!CallXRead
  <2>3. CASE Stream!StreamProgress(c)
    BY <2>0, <2>3, NotifiesKeeps, StreamCalm, CalmKeeps, XReadLeaves, LeavesKeeps
    DEF Stream!StreamProgress
  <2> QED
    BY <1>2, <2>0, <2>1, <2>2, <2>3 DEF StreamStep
<1> QED
  BY <1>0, <1>1, <1>2 DEF StoreNext

(* The invariant of the queues, the channels and the mutex that lists and  *)
(* streams share (store.go:415-471, 513-522, 722-745).                     *)
THEOREM StoreInvariant == Spec => [](StoreTypeOK /\ StoreInv)
<1>1. Init => StoreTypeOK /\ StoreInv
  BY InitInv
<1>2. StoreTypeOK /\ StoreInv /\ [StoreNext]_vars => (StoreTypeOK /\ StoreInv)'
  BY StepInv
<1> QED
  BY <1>1, <1>2, PTL DEF Spec

(* Every registered channel is a waiting client's: no BLPOP and no XREAD   *)
(* leaves a registration behind.                                           *)
THEOREM NobodyLeavesItsChannel == Spec => []RegisteredIsWaiting
<1>1. StoreTypeOK /\ StoreInv => RegisteredIsWaiting
  <2> SUFFICES ASSUME StoreTypeOK, StoreInv, NEW k \in Keys, NEW i \in DOMAIN blockingClients[k]
               PROVE  \E c \in Clients : myChan[c] = blockingClients[k][i] /\ pc[c] \in WaitingPCs
    BY DEF RegisteredIsWaiting
  <2>1. blockingClients[k] \in Seq(Chans)
    BY DEF StoreTypeOK
  <2>2. blockingClients[k][i] \in Chans /\ Holds(blockingClients[k], blockingClients[k][i])
    BY <2>1 DEF Holds
  <2>3. PICK c \in Clients : Waits(pc[c]) /\ myChan[c] = blockingClients[k][i]
    BY <2>2 DEF StoreInv, Owned
  <2> QED
    BY <2>3 DEF Waits, BLPopPCs, XReadPCs, WaitingPCs
<1> QED
  BY <1>1, StoreInvariant, PTL

(* A push is stuck only in the send to an XREAD with several keys.         *)
THEOREM PushesStuckBehindXRead == Spec => []StuckOnlyBehindXRead
<1>1. StoreTypeOK /\ StoreInv => StuckOnlyBehindXRead
  BY DEF StoreTypeOK, StoreInv, Locked, BehindXRead, XReadPCs, StuckOnlyBehindXRead
<1> QED
  BY <1>1, StoreInvariant, PTL

(* What a BLPOP was handed is always read.                                 *)
THEOREM HandedToBLPopIsRead == Spec => []BLPopNeverDropsValue
<1>1. StoreInv => BLPopNeverDropsValue
  BY DEF StoreInv
<1> QED
  BY <1>1, StoreInvariant, PTL

-----------------------------------------------------------------------------
(* Where the values are.                                                   *)

(* The places: the lists, the channels, the push that holds s.mu, and the  *)
(* clients - those that popped a value and those that swallowed it.        *)
ListAt(k) == <<"list", k>>
ChanAt(ch) == <<"chan", ch>>
HeldAt == <<"held", 0>>
PoppedAt == <<"popped", 0>>
LostAt == <<"lost", 0>>
PlaceTags ==
  {ListAt(k) : k \in Keys} \cup {ChanAt(ch) : ch \in Chans} \cup {HeldAt, PoppedAt, LostAt}

Where(lists, slots, held, gone, lost) ==
  [t \in PlaceTags |->
     IF t[1] = "list" THEN Range(lists[t[2]])
     ELSE IF t[1] = "chan" THEN {slots[t[2]]} \cap Values
     ELSE IF t[1] = "held" THEN held
     ELSE IF t[1] = "popped" THEN gone ELSE lost]

(* The sets P[i] have no value in common, and make up put.                 *)
Partition(P, I, put) ==
  /\ \A i, j \in I : i # j => P[i] \cap P[j] = {}
  /\ \A v : v \in put <=> \E i \in I : v \in P[i]

Held == IF mu = Free THEN {} ELSE Range(vals[mu])
Popped == {v \in Values : popped[v] = 1}
PlacesInv ==
  /\ \A k \in Keys : Distinct(elements[k])
  /\ mu # Free => Distinct(vals[mu])
  /\ \A v \in Values : popped[v] \in {0, 1}
  /\ Partition(Where(elements, buf, Held, Popped, swallowed), PlaceTags, pushed)

LEMMA TagsApart ==
  /\ \A k \in Keys : ListAt(k) \in PlaceTags
  /\ \A ch \in Chans : ChanAt(ch) \in PlaceTags
  /\ HeldAt \in PlaceTags /\ PoppedAt \in PlaceTags /\ LostAt \in PlaceTags
  /\ \A k, l \in Keys : k # l => ListAt(k) # ListAt(l)
  /\ \A ch, h \in Chans : ch # h => ChanAt(ch) # ChanAt(h)
  /\ \A k \in Keys, ch \in Chans : ListAt(k) # ChanAt(ch)
  /\ \A k \in Keys : ListAt(k) # HeldAt /\ ListAt(k) # PoppedAt /\ ListAt(k) # LostAt
  /\ \A ch \in Chans : ChanAt(ch) # HeldAt /\ ChanAt(ch) # PoppedAt /\ ChanAt(ch) # LostAt
  /\ HeldAt # PoppedAt /\ HeldAt # LostAt /\ PoppedAt # LostAt
  /\ \A t \in PlaceTags : \/ \E k \in Keys : t = ListAt(k)
                          \/ \E ch \in Chans : t = ChanAt(ch)
                          \/ t \in {HeldAt, PoppedAt, LostAt}
BY DEF PlaceTags, ListAt, ChanAt, HeldAt, PoppedAt, LostAt

LEMMA WhereIs ==
  ASSUME NEW lists, NEW slots, NEW held, NEW gone, NEW lost
  PROVE  LET P == Where(lists, slots, held, gone, lost)
         IN  /\ \A k \in Keys : P[ListAt(k)] = Range(lists[k])
             /\ \A ch \in Chans : P[ChanAt(ch)] = {slots[ch]} \cap Values
             /\ P[HeldAt] = held /\ P[PoppedAt] = gone /\ P[LostAt] = lost
<1>1. \A k \in Keys : /\ Where(lists, slots, held, gone, lost)[ListAt(k)] = Range(lists[k])
  BY TagsApart DEF Where, ListAt
<1>2. \A ch \in Chans :
        Where(lists, slots, held, gone, lost)[ChanAt(ch)] = {slots[ch]} \cap Values
  BY TagsApart DEF Where, ChanAt
<1>3. /\ Where(lists, slots, held, gone, lost)[HeldAt] = held
      /\ Where(lists, slots, held, gone, lost)[PoppedAt] = gone
      /\ Where(lists, slots, held, gone, lost)[LostAt] = lost
  BY TagsApart DEF Where, HeldAt, PoppedAt, LostAt
<1> QED
  BY <1>1, <1>2, <1>3

(* New values come to one place, and values move from one to another.      *)
LEMMA PartitionGrows ==
  ASSUME NEW P, NEW Q, NEW I, NEW put, Partition(P, I, put), NEW i \in I, NEW new,
         new \cap put = {}, Q[i] = P[i] \cup new, \A j \in I \ {i} : Q[j] = P[j]
  PROVE  Partition(Q, I, put \cup new)
<1>1. \A j \in I : Q[j] = IF j = i THEN P[i] \cup new ELSE P[j]
  OBVIOUS
<1> QED
  BY <1>1 DEF Partition

LEMMA PartitionMoves ==
  ASSUME NEW P, NEW Q, NEW I, NEW put, Partition(P, I, put), NEW i \in I, NEW j \in I, i # j,
         NEW out, out \subseteq P[i], Q[i] = P[i] \ out, Q[j] = P[j] \cup out,
         \A l \in I \ {i, j} : Q[l] = P[l]
  PROVE  Partition(Q, I, put)
<1>1. \A l \in I : Q[l] = IF l = i THEN P[i] \ out ELSE IF l = j THEN P[j] \cup out ELSE P[l]
  OBVIOUS
<1> QED
  BY <1>1 DEF Partition

(* The values of a batch are new, and each is there once.                  *)
LEMMA BatchDistinct ==
  ASSUME NEW vs \in List!FreshBatches, NEW end \in {"L", "R"}
  PROVE  /\ Distinct(List!InOrder(end, vs)) /\ Range(List!InOrder(end, vs)) = Range(vs)
         /\ Range(vs) \cap pushed = {}
<1>1. PICK n \in 1..MaxBatch : vs \in [1..n -> Values \ pushed]
  BY DEF List!FreshBatches
<1>2. n \in Nat /\ vs \in Seq(Values) /\ Len(vs) = n /\ DOMAIN vs = 1..n
  BY <1>1, StoreAssumption
<1>3. Distinct(vs) /\ Range(vs) \cap pushed = {}
  BY <1>1, <1>2 DEF List!FreshBatches, List!IsInjective, Distinct, Range
<1>4. Distinct(Reverse(vs)) /\ Range(Reverse(vs)) = Range(vs)
  BY <1>2, <1>3, ReverseDistinct
<1>5. List!Reverse(vs) = Reverse(vs)
  BY DEF List!Reverse, Reverse
<1> QED
  BY <1>3, <1>4, <1>5 DEF List!InOrder

LEMMA JoinDistinct ==
  ASSUME NEW end \in {"L", "R"}, NEW a \in Seq(Values), NEW b \in Seq(Values), Distinct(a), Distinct(b),
         Range(a) \cap Range(b) = {}
  PROVE  /\ Distinct(List!Join(end, a, b))
         /\ Range(List!Join(end, a, b)) = Range(a) \cup Range(b)
BY ConcatDistinct DEF List!Join

(* A place's content.                                                      *)
Filled(P, lists, slots, held, gone, lost) ==
  /\ \A k \in Keys : P[ListAt(k)] = Range(lists[k])
  /\ \A ch \in Chans : P[ChanAt(ch)] = {slots[ch]} \cap Values
  /\ P[HeldAt] = held /\ P[PoppedAt] = gone /\ P[LostAt] = lost

(* One list gains values or loses one.                                     *)
Gains(after, lists, k, new) ==
  \A j \in Keys : Range(after[j]) = IF j = k THEN Range(lists[k]) \cup new ELSE Range(lists[j])
Loses(after, lists, k, v) ==
  \A j \in Keys : Range(after[j]) = IF j = k THEN Range(lists[k]) \ {v} ELSE Range(lists[j])

LEMMA WhereFilled ==
  ASSUME NEW lists, NEW slots, NEW held, NEW gone, NEW lost
  PROVE  Filled(Where(lists, slots, held, gone, lost), lists, slots, held, gone, lost)
BY WhereIs DEF Filled

(* New values come to a list, or to the push that holds s.mu.              *)
LEMMA GrowList ==
  ASSUME NEW P, NEW Q, NEW put, NEW new, NEW lists, NEW after, NEW slots, NEW held, NEW gone,
         NEW lost, Filled(P, lists, slots, held, gone, lost),
         Filled(Q, after, slots, held, gone, lost),
         Partition(P, PlaceTags, put), new \cap put = {}, NEW k \in Keys,
         Gains(after, lists, k, new)
  PROVE  Partition(Q, PlaceTags, put \cup new)
<1>1. ListAt(k) \in PlaceTags /\ Q[ListAt(k)] = P[ListAt(k)] \cup new
  BY TagsApart DEF Filled, Gains
<1>2. \A t \in PlaceTags \ {ListAt(k)} : Q[t] = P[t]
  <2> SUFFICES ASSUME NEW t \in PlaceTags, t # ListAt(k) PROVE Q[t] = P[t]
    OBVIOUS
  <2>1. CASE \E j \in Keys : t = ListAt(j)
    BY <2>1 DEF Filled, Gains
  <2>2. CASE \E ch \in Chans : t = ChanAt(ch)
    BY <2>2 DEF Filled
  <2>3. CASE t \in {HeldAt, PoppedAt, LostAt}
    BY <2>3 DEF Filled
  <2> QED
    BY <2>1, <2>2, <2>3, TagsApart
<1> QED
  BY <1>1, <1>2, PartitionGrows

LEMMA GrowHeld ==
  ASSUME NEW P, NEW Q, NEW put, NEW new, NEW lists, NEW slots, NEW gone, NEW lost,
         Filled(P, lists, slots, {}, gone, lost), Filled(Q, lists, slots, new, gone, lost),
         Partition(P, PlaceTags, put), new \cap put = {}
  PROVE  Partition(Q, PlaceTags, put \cup new)
<1>1. HeldAt \in PlaceTags /\ Q[HeldAt] = P[HeldAt] \cup new
  BY TagsApart DEF Filled
<1>2. \A t \in PlaceTags \ {HeldAt} : Q[t] = P[t]
  <2> SUFFICES ASSUME NEW t \in PlaceTags, t # HeldAt PROVE Q[t] = P[t]
    OBVIOUS
  <2>1. CASE \E j \in Keys : t = ListAt(j)
    BY <2>1 DEF Filled
  <2>2. CASE \E ch \in Chans : t = ChanAt(ch)
    BY <2>2 DEF Filled
  <2>3. CASE t \in {PoppedAt, LostAt}
    BY <2>3 DEF Filled
  <2> QED
    BY <2>1, <2>2, <2>3, TagsApart
<1> QED
  BY <1>1, <1>2, PartitionGrows

(* Values move between two places.                                         *)
Moved(P, Q, i, j, out) ==
  /\ i # j /\ out \subseteq P[i] /\ Q[i] = P[i] \ out /\ Q[j] = P[j] \cup out
  /\ \A k \in Keys : ListAt(k) \notin {i, j} => Q[ListAt(k)] = P[ListAt(k)]
  /\ \A ch \in Chans : ChanAt(ch) \notin {i, j} => Q[ChanAt(ch)] = P[ChanAt(ch)]
  /\ \A t \in {HeldAt, PoppedAt, LostAt} \ {i, j} : Q[t] = P[t]

LEMMA MovesBetween ==
  ASSUME NEW P, NEW Q, NEW put, Partition(P, PlaceTags, put),
         NEW i \in PlaceTags, NEW j \in PlaceTags, NEW out, Moved(P, Q, i, j, out)
  PROVE  Partition(Q, PlaceTags, put)
<1>1. \A t \in PlaceTags \ {i, j} : Q[t] = P[t]
  <2> SUFFICES ASSUME NEW t \in PlaceTags, t \notin {i, j} PROVE Q[t] = P[t]
    OBVIOUS
  <2> QED
    BY TagsApart DEF Moved
<1>2. i # j /\ out \subseteq P[i] /\ Q[i] = P[i] \ out /\ Q[j] = P[j] \cup out
  BY DEF Moved
<1> QED
  BY <1>1, <1>2, PartitionMoves

LEMMA HeldToList ==
  ASSUME NEW P, NEW Q, NEW put, NEW new, NEW lists, NEW after, NEW slots, NEW gone, NEW lost,
         Filled(P, lists, slots, new, gone, lost), Filled(Q, after, slots, {}, gone, lost),
         Partition(P, PlaceTags, put), NEW k \in Keys,
         Gains(after, lists, k, new)
  PROVE  Partition(Q, PlaceTags, put)
<1>1. /\ new \subseteq P[HeldAt] /\ Q[HeldAt] = P[HeldAt] \ new
      /\ Q[ListAt(k)] = P[ListAt(k)] \cup new
      /\ \A j \in Keys : ListAt(j) # ListAt(k) => Q[ListAt(j)] = P[ListAt(j)]
      /\ \A ch \in Chans : Q[ChanAt(ch)] = P[ChanAt(ch)]
      /\ \A t \in {PoppedAt, LostAt} : Q[t] = P[t]
  BY DEF Filled, Gains
<1>2. Moved(P, Q, HeldAt, ListAt(k), new)
  BY <1>1, TagsApart DEF Moved
<1> QED
  BY <1>2, TagsApart, MovesBetween

LEMMA ListToChan ==
  ASSUME NEW P, NEW Q, NEW put, NEW v \in Values, NEW lists, NEW after, NEW slots, NEW filled,
         NEW held, NEW gone, NEW lost,
         Filled(P, lists, slots, held, gone, lost), Filled(Q, after, filled, held, gone, lost),
         Partition(P, PlaceTags, put), NEW k \in Keys, NEW ch \in Chans,
         v \in Range(lists[k]), slots[ch] \notin Values,
         Loses(after, lists, k, v),
         \A h \in Chans : filled[h] = IF h = ch THEN v ELSE slots[h]
  PROVE  Partition(Q, PlaceTags, put)
<1>1. /\ {v} \subseteq P[ListAt(k)] /\ Q[ListAt(k)] = P[ListAt(k)] \ {v}
      /\ \A j \in Keys : ListAt(j) # ListAt(k) => Q[ListAt(j)] = P[ListAt(j)]
      /\ \A t \in {HeldAt, PoppedAt, LostAt} : Q[t] = P[t]
  BY DEF Filled, Loses
<1>2. Q[ChanAt(ch)] = P[ChanAt(ch)] \cup {v}
  BY DEF Filled
<1>3. \A h \in Chans : ChanAt(h) # ChanAt(ch) => Q[ChanAt(h)] = P[ChanAt(h)]
  <2> SUFFICES ASSUME NEW h \in Chans, ChanAt(h) # ChanAt(ch) PROVE Q[ChanAt(h)] = P[ChanAt(h)]
    OBVIOUS
  <2>1. filled[h] = slots[h]
    OBVIOUS
  <2> QED
    BY <2>1 DEF Filled
<1>4. Moved(P, Q, ListAt(k), ChanAt(ch), {v})
  BY <1>1, <1>2, <1>3, TagsApart DEF Moved
<1> QED
  BY <1>4, TagsApart, MovesBetween

LEMMA ListToPopped ==
  ASSUME NEW P, NEW Q, NEW put, NEW v, NEW lists, NEW after, NEW slots, NEW held, NEW gone,
         NEW lost, Filled(P, lists, slots, held, gone, lost),
         Filled(Q, after, slots, held, gone \cup {v}, lost),
         Partition(P, PlaceTags, put), NEW k \in Keys, v \in Range(lists[k]),
         Loses(after, lists, k, v)
  PROVE  Partition(Q, PlaceTags, put)
<1>1. /\ {v} \subseteq P[ListAt(k)] /\ Q[ListAt(k)] = P[ListAt(k)] \ {v}
      /\ Q[PoppedAt] = P[PoppedAt] \cup {v}
      /\ \A j \in Keys : ListAt(j) # ListAt(k) => Q[ListAt(j)] = P[ListAt(j)]
      /\ \A ch \in Chans : Q[ChanAt(ch)] = P[ChanAt(ch)]
      /\ \A t \in {HeldAt, LostAt} : Q[t] = P[t]
  BY DEF Filled, Loses
<1>2. Moved(P, Q, ListAt(k), PoppedAt, {v})
  BY <1>1, TagsApart DEF Moved
<1> QED
  BY <1>2, TagsApart, MovesBetween

(* A channel is read by a BLPOP, or by an XREAD.                           *)
LEMMA ChanIsRead ==
  ASSUME NEW P, NEW Q, NEW put, NEW lists, NEW slots, NEW drained, NEW held, NEW gone, NEW lost,
         NEW gone2, NEW lost2,
         Filled(P, lists, slots, held, gone, lost), Filled(Q, lists, drained, held, gone2, lost2),
         Partition(P, PlaceTags, put), NEW ch \in Chans,
         \A h \in Chans : drained[h] = IF h = ch THEN Empty ELSE slots[h],
         \/ gone2 = gone \cup ({slots[ch]} \cap Values) /\ lost2 = lost
         \/ gone2 = gone /\ lost2 = lost \cup ({slots[ch]} \cap Values)
  PROVE  Partition(Q, PlaceTags, put)
<1> DEFINE out == {slots[ch]} \cap Values
<1>0. Empty \notin Values
  BY WaitersAssumption
<1>1. /\ out \subseteq P[ChanAt(ch)] /\ Q[ChanAt(ch)] = P[ChanAt(ch)] \ out
      /\ \A h \in Chans : ChanAt(h) # ChanAt(ch) => Q[ChanAt(h)] = P[ChanAt(h)]
  BY <1>0 DEF Filled
<1>2. \A k \in Keys : Q[ListAt(k)] = P[ListAt(k)]
  BY DEF Filled
<1>3. CASE gone2 = gone \cup out /\ lost2 = lost
  <2>1. Q[PoppedAt] = P[PoppedAt] \cup out /\ Q[HeldAt] = P[HeldAt] /\ Q[LostAt] = P[LostAt]
    BY <1>3 DEF Filled
  <2>2. Moved(P, Q, ChanAt(ch), PoppedAt, out)
    BY <1>1, <1>2, <2>1, TagsApart DEF Moved
  <2> QED
    BY <2>2, TagsApart, MovesBetween
<1>4. CASE gone2 = gone /\ lost2 = lost \cup out
  <2>1. Q[LostAt] = P[LostAt] \cup out /\ Q[HeldAt] = P[HeldAt] /\ Q[PoppedAt] = P[PoppedAt]
    BY <1>4 DEF Filled
  <2>2. Moved(P, Q, ChanAt(ch), LostAt, out)
    BY <1>1, <1>2, <2>1, TagsApart DEF Moved
  <2> QED
    BY <2>2, TagsApart, MovesBetween
<1> QED
  BY <1>3, <1>4

-----------------------------------------------------------------------------
(* Every step keeps each value in one place.                               *)

(* The steps of a push: new values are added to the list; the first one is *)
(* handed over.                                                            *)
LEMMA FreshApart ==
  ASSUME PlacesInv, NEW new, new \cap pushed = {}, NEW k \in Keys
  PROVE  new \cap Range(elements[k]) = {}
<1>1. Filled(Where(elements, buf, Held, Popped, swallowed), elements, buf, Held, Popped, swallowed)
  BY WhereFilled
<1>2. Range(elements[k]) \subseteq pushed
  BY <1>1, TagsApart DEF PlacesInv, Partition, Filled
<1> QED
  BY <1>2

LEMMA HeldApart ==
  ASSUME PlacesInv, mu # Free, NEW k \in Keys
  PROVE  Range(vals[mu]) \cap Range(elements[k]) = {}
<1>1. Filled(Where(elements, buf, Held, Popped, swallowed), elements, buf, Held, Popped, swallowed)
  BY WhereFilled
<1> QED
  BY <1>1, TagsApart DEF PlacesInv, Partition, Filled, Held

(* One list, after the values o were added to one of its ends.             *)
Added(after, lists, k, end, o) ==
  \A j \in Keys : after[j] = IF j = k THEN List!Join(end, o, lists[k]) ELSE lists[j]
EachOnce(lists) == \A k \in Keys : Distinct(lists[k])

LEMMA JoinsList ==
  ASSUME NEW lists \in [Keys -> Seq(Values)], NEW k \in Keys, NEW end \in {"L", "R"},
         NEW o \in Seq(Values), NEW after, Added(after, lists, k, end, o),
         Distinct(o), EachOnce(lists), Range(o) \cap Range(lists[k]) = {}
  PROVE  EachOnce(after) /\ Gains(after, lists, k, Range(o))
<1>1. PICK l \in Seq(Values) : l = lists[k] /\ Distinct(l) /\ Range(o) \cap Range(l) = {}
  BY DEF EachOnce
<1>2. Distinct(List!Join(end, o, l)) /\ Range(List!Join(end, o, l)) = Range(o) \cup Range(l)
  BY <1>1, JoinDistinct
<1> QED
  BY <1>1, <1>2 DEF Added, EachOnce, Gains

(* Handing over the first value of a batch that was added.                 *)
LEMMA HandsOver ==
  ASSUME NEW lists \in [Keys -> Seq(Values)], NEW k \in Keys, NEW end \in {"L", "R"},
         NEW o \in Seq(Values), NEW added, Added(added, lists, k, end, o),
         NEW after, Added(after, lists, k, end, Tail(o)),
         o # <<>>, Distinct(o), EachOnce(lists), Range(o) \cap Range(lists[k]) = {}
  PROVE  /\ Head(o) \in Values /\ Head(o) \in Range(added[k])
         /\ EachOnce(after) /\ Loses(after, added, k, Head(o))
<1>0. Distinct(Tail(o)) /\ Range(Tail(o)) = Range(o) \ {Head(o)} /\ Tail(o) \in Seq(Values)
  BY TailDistinct, HeadTailProperties
<1>1. PICK t \in Seq(Values) : /\ t = Tail(o) /\ Distinct(t) /\ Range(t) = Range(o) \ {Head(o)}
                               /\ Range(t) \cap Range(lists[k]) = {}
  BY <1>0
<1>2. Head(o) \in Range(o) /\ Head(o) \in Values
  BY HeadTailProperties, EmptySeq, LenProperties DEF Range
<1>3. Gains(added, lists, k, Range(o))
  BY JoinsList
<1>4. EachOnce(after) /\ Gains(after, lists, k, Range(t))
  BY <1>1, JoinsList
<1> QED
  BY <1>1, <1>2, <1>3, <1>4 DEF Gains, Loses

(* PlacesInv of the next state, from its parts.                            *)
LEMMA PlacesNext ==
  ASSUME EachOnce(elements'), mu' # Free => Distinct(vals'[mu']),
         \A v \in Values : popped'[v] \in {0, 1},
         NEW Q, Q = Where(elements', buf', Held', Popped', swallowed'),
         Partition(Q, PlaceTags, pushed')
  PROVE  PlacesInv'
BY DEF PlacesInv, EachOnce

LEMMA PushStoresPlaced ==
  ASSUME StoreTypeOK, PlacesInv, NEW c \in Clients, NEW k \in Keys, NEW end \in {"L", "R"},
         NEW vs \in List!FreshBatches, List!PushStores(c, k, end, vs), UNCHANGED streamVars
  PROVE  PlacesInv'
<1>1. PICK o \in Seq(Values) : /\ o = List!InOrder(end, vs) /\ Distinct(o)
                               /\ Range(o) = Range(vs) /\ Range(vs) \cap pushed = {}
  BY BatchType, BatchDistinct
<1>2. /\ UNCHANGED <<mu, vals, buf, popped, swallowed>>
      /\ Added(elements', elements, k, end, o)
      /\ pushed' = pushed \cup Range(o)
  BY <1>1 DEF List!PushStores, List!AddTo, List!waitVars, streamVars, StoreTypeOK, Added,
              List!Range, Range
<1>3. Held' = Held /\ Popped' = Popped
  BY <1>2 DEF Held, Popped
<1>4. EachOnce(elements) /\ elements \in [Keys -> Seq(Values)]
  BY DEF PlacesInv, EachOnce, StoreTypeOK
<1>5. Range(o) \cap Range(elements[k]) = {}
  BY <1>1, FreshApart
<1>6. EachOnce(elements') /\ Gains(elements', elements, k, Range(o))
  BY <1>1, <1>2, <1>4, <1>5, JoinsList
<1>7. PICK P : P = Where(elements, buf, Held, Popped, swallowed)
  OBVIOUS
<1>8. PICK Q : Q = Where(elements', buf', Held', Popped', swallowed')
  OBVIOUS
<1>9. /\ Filled(P, elements, buf, Held, Popped, swallowed)
      /\ Filled(Q, elements', buf, Held, Popped, swallowed)
  BY <1>2, <1>3, <1>7, <1>8, WhereFilled
<1>10. Partition(P, PlaceTags, pushed)
  BY <1>7 DEF PlacesInv
<1>11. Partition(Q, PlaceTags, pushed')
  BY <1>1, <1>2, <1>6, <1>9, <1>10, GrowList
<1>12. (mu' # Free => Distinct(vals'[mu'])) /\ \A v \in Values : popped'[v] \in {0, 1}
  BY <1>2 DEF PlacesInv
<1> QED
  BY <1>6, <1>8, <1>11, <1>12, PlacesNext

LEMMA PushServesPlaced ==
  ASSUME StoreTypeOK, PlacesInv, NEW c \in Clients, NEW k \in Keys, NEW end \in {"L", "R"},
         NEW vs \in List!FreshBatches, List!PushServes(c, k, end, vs), UNCHANGED streamVars
  PROVE  PlacesInv'
<1>1. PICK o \in Seq(Values) : /\ o = List!InOrder(end, vs) /\ Distinct(o) /\ o # <<>>
                               /\ Range(o) = Range(vs) /\ Range(vs) \cap pushed = {}
  BY BatchType, BatchDistinct
<1>2. PICK ch \in Chans : ch = Head(blockingClients[k])
  <2>1. blockingClients[k] \in Seq(Chans) /\ blockingClients[k] # <<>>
    BY DEF List!PushServes, StoreTypeOK
  <2> QED
    BY <2>1, ServedCounts
<1>3. /\ UNCHANGED <<mu, vals, popped, swallowed>>
      /\ Added(elements', elements, k, end, Tail(o))
      /\ pushed' = pushed \cup Range(o)
      /\ buf[ch] = Empty
      /\ \A h \in Chans : buf'[h] = IF h = ch THEN Head(o) ELSE buf[h]
  <2>1. elements' = [elements EXCEPT ![k] = List!Join(end, Tail(o), @)]
    <3>1. List!AddOthers(c, k, end, o)
      BY <1>1 DEF List!PushServes
    <3> QED
      BY <3>1, AddOthersIs DEF StoreTypeOK
  <2>2. Added(elements', elements, k, end, Tail(o))
    BY <2>1 DEF StoreTypeOK, Added
  <2> QED
    BY <1>1, <1>2, <2>2 DEF List!PushServes, streamVars, StoreTypeOK, List!Range, Range
<1>4. Held' = Held /\ Popped' = Popped /\ buf[ch] \notin Values
  BY <1>3, WaitersAssumption DEF Held, Popped
<1>5. EachOnce(elements) /\ elements \in [Keys -> Seq(Values)]
  BY DEF PlacesInv, EachOnce, StoreTypeOK
<1>6. Range(o) \cap Range(elements[k]) = {}
  BY <1>1, FreshApart
<1>7. PICK lists : Added(lists, elements, k, end, o)
  <2>1. Added([j \in Keys |-> IF j = k THEN List!Join(end, o, elements[k]) ELSE elements[j]],
              elements, k, end, o)
    BY DEF Added
  <2> QED
    BY <2>1
<1>8. Gains(lists, elements, k, Range(o))
  BY <1>1, <1>5, <1>6, <1>7, JoinsList
<1>9. /\ Head(o) \in Values /\ Head(o) \in Range(lists[k])
      /\ EachOnce(elements') /\ Loses(elements', lists, k, Head(o))
  BY <1>1, <1>3, <1>5, <1>6, <1>7, HandsOver
<1>10. PICK P : P = Where(elements, buf, Held, Popped, swallowed)
  OBVIOUS
<1>11. PICK M : M = Where(lists, buf, Held, Popped, swallowed)
  OBVIOUS
<1>12. PICK Q : Q = Where(elements', buf', Held', Popped', swallowed')
  OBVIOUS
<1>13. /\ Filled(P, elements, buf, Held, Popped, swallowed)
       /\ Filled(M, lists, buf, Held, Popped, swallowed)
       /\ Filled(Q, elements', buf', Held, Popped, swallowed)
  BY <1>3, <1>4, <1>10, <1>11, <1>12, WhereFilled
<1>14. Partition(P, PlaceTags, pushed)
  BY <1>10 DEF PlacesInv
<1>15. Partition(M, PlaceTags, pushed')
  BY <1>1, <1>3, <1>8, <1>13, <1>14, GrowList
<1>16. Partition(Q, PlaceTags, pushed')
  BY <1>3, <1>4, <1>9, <1>13, <1>15, ListToChan
<1>17. (mu' # Free => Distinct(vals'[mu'])) /\ \A v \in Values : popped'[v] \in {0, 1}
  BY <1>3 DEF PlacesInv
<1> QED
  BY <1>9, <1>12, <1>16, <1>17, PlacesNext

LEMMA PushBlocksPlaced ==
  ASSUME StoreTypeOK, PlacesInv, NEW c \in Clients, NEW k \in Keys, NEW end \in {"L", "R"},
         NEW vs \in List!FreshBatches, List!PushBlocks(c, k, end, vs), UNCHANGED streamVars
  PROVE  PlacesInv'
<1>1. PICK o \in Seq(Values) : /\ o = List!InOrder(end, vs) /\ Distinct(o)
                               /\ Range(o) = Range(vs) /\ Range(vs) \cap pushed = {}
  BY BatchType, BatchDistinct
<1>2. /\ UNCHANGED <<elements, buf, popped, swallowed>>
      /\ mu = Free /\ mu' = c /\ vals'[c] = o /\ pushed' = pushed \cup Range(o)
  BY <1>1 DEF List!PushBlocks, streamVars, StoreTypeOK, List!Range, Range
<1>3. Held = {} /\ Held' = Range(o) /\ Popped' = Popped
  BY <1>2, WaitersAssumption DEF Held, Popped
<1>4. PICK P : P = Where(elements, buf, Held, Popped, swallowed)
  OBVIOUS
<1>5. PICK Q : Q = Where(elements', buf', Held', Popped', swallowed')
  OBVIOUS
<1>6. /\ Filled(P, elements, buf, {}, Popped, swallowed)
      /\ Filled(Q, elements, buf, Range(o), Popped, swallowed)
  BY <1>2, <1>3, <1>4, <1>5, WhereFilled
<1>7. Partition(P, PlaceTags, pushed)
  BY <1>4 DEF PlacesInv
<1>8. Partition(Q, PlaceTags, pushed')
  BY <1>1, <1>2, <1>6, <1>7, GrowHeld
<1>9. /\ mu' # Free => Distinct(vals'[mu'])
      /\ \A v \in Values : popped'[v] \in {0, 1}
      /\ EachOnce(elements')
  BY <1>1, <1>2 DEF PlacesInv, EachOnce
<1> QED
  BY <1>5, <1>8, <1>9, PlacesNext

LEMMA PushResumesPlaced ==
  ASSUME StoreTypeOK, StoreInv, PlacesInv, NEW c \in Clients, List!PushResumes(c),
         UNCHANGED streamVars
  PROVE  PlacesInv'
<1>1. PICK d \in Clients : BehindXRead(c, d)
  BY DEF List!PushResumes, StoreInv, Locked
<1>2. PICK ch \in Chans : ch = myChan[c]
  BY <1>1 DEF BehindXRead, StoreInv, HasChannel, Waits
<1>3. mu = c /\ mu # Free /\ vals[c] # <<>>
  BY WaitersAssumption DEF List!PushResumes, StoreInv, Locked
<1>4. PICK o \in Seq(Values) : o = vals[c] /\ o # <<>> /\ Distinct(o)
  BY <1>3 DEF StoreTypeOK, PlacesInv
<1>5. PICK k \in Keys : k = arg[c]
  BY DEF List!PushResumes, StoreInv, Locked
<1>6. PICK end \in {"L", "R"} : end = side[c]
  BY DEF StoreTypeOK
<1>7. /\ UNCHANGED <<popped, swallowed, pushed>>
      /\ mu' = Free /\ buf[ch] = Empty
      /\ Added(elements', elements, k, end, Tail(o))
      /\ \A h \in Chans : buf'[h] = IF h = ch THEN Head(o) ELSE buf[h]
  <2>1. elements' = [elements EXCEPT ![k] = List!Join(end, Tail(o), @)]
    <3>1. List!AddOthers(c, k, end, o)
      BY <1>4, <1>5, <1>6 DEF List!PushResumes
    <3> QED
      BY <3>1, AddOthersIs DEF StoreTypeOK
  <2>2. Added(elements', elements, k, end, Tail(o))
    BY <2>1 DEF StoreTypeOK, Added
  <2> QED
    BY <1>2, <1>4, <1>5, <1>6, <2>2 DEF List!PushResumes, streamVars, StoreTypeOK
<1>8. Held = Range(o) /\ Held' = {} /\ Popped' = Popped /\ buf[ch] \notin Values
  BY <1>3, <1>4, <1>7, WaitersAssumption DEF Held, Popped
<1>9. EachOnce(elements) /\ elements \in [Keys -> Seq(Values)]
  BY DEF PlacesInv, EachOnce, StoreTypeOK
<1>10. Range(o) \cap Range(elements[k]) = {}
  BY <1>3, <1>4, HeldApart
<1>11. PICK lists : Added(lists, elements, k, end, o)
  <2>1. Added([j \in Keys |-> IF j = k THEN List!Join(end, o, elements[k]) ELSE elements[j]],
              elements, k, end, o)
    BY DEF Added
  <2> QED
    BY <2>1
<1>12. Gains(lists, elements, k, Range(o))
  BY <1>4, <1>9, <1>10, <1>11, JoinsList
<1>13. /\ Head(o) \in Values /\ Head(o) \in Range(lists[k])
       /\ EachOnce(elements') /\ Loses(elements', lists, k, Head(o))
  BY <1>4, <1>7, <1>9, <1>10, <1>11, HandsOver
<1>14. PICK P : P = Where(elements, buf, Held, Popped, swallowed)
  OBVIOUS
<1>15. PICK M : M = Where(lists, buf, {}, Popped, swallowed)
  OBVIOUS
<1>16. PICK Q : Q = Where(elements', buf', Held', Popped', swallowed')
  OBVIOUS
<1>17. /\ Filled(P, elements, buf, Range(o), Popped, swallowed)
       /\ Filled(M, lists, buf, {}, Popped, swallowed)
       /\ Filled(Q, elements', buf', {}, Popped, swallowed)
  BY <1>7, <1>8, <1>14, <1>15, <1>16, WhereFilled
<1>18. Partition(P, PlaceTags, pushed)
  BY <1>14 DEF PlacesInv
<1>19. Partition(M, PlaceTags, pushed)
  BY <1>12, <1>17, <1>18, HeldToList
<1>20. Partition(Q, PlaceTags, pushed')
  BY <1>7, <1>8, <1>13, <1>17, <1>19, ListToChan
<1>21. (mu' # Free => Distinct(vals'[mu'])) /\ \A v \in Values : popped'[v] \in {0, 1}
  BY <1>7 DEF PlacesInv
<1> QED
  BY <1>13, <1>16, <1>20, <1>21, PlacesNext

(* BLPOP takes the first value of a list.                                  *)
LEMMA BLPopNowPlaced ==
  ASSUME StoreTypeOK, PlacesInv, NEW c \in Clients, NEW k \in Keys,
         List!BLPopNow(c, k), UNCHANGED streamVars
  PROVE  PlacesInv'
<1>1. PICK l \in Seq(Values) : l = elements[k] /\ l # <<>> /\ Distinct(l)
  BY DEF List!BLPopNow, StoreTypeOK, PlacesInv
<1>2. /\ UNCHANGED <<mu, vals, buf, pushed, swallowed>>
      /\ \A j \in Keys : elements'[j] = IF j = k THEN Tail(l) ELSE elements[j]
      /\ popped' = [popped EXCEPT ![Head(l)] = @ + 1]
  BY <1>1 DEF List!BLPopNow, List!waitVars, streamVars, StoreTypeOK
<1>3. Distinct(Tail(l)) /\ Range(Tail(l)) = Range(l) \ {Head(l)}
  BY <1>1, TailDistinct
<1>4. Head(l) \in Range(l) /\ Head(l) \in Values
  BY <1>1, HeadTailProperties, EmptySeq, LenProperties DEF Range
<1>5. EachOnce(elements') /\ Loses(elements', elements, k, Head(l))
  BY <1>1, <1>2, <1>3 DEF EachOnce, Loses, PlacesInv
<1>6. PICK P : P = Where(elements, buf, Held, Popped, swallowed)
  OBVIOUS
<1>7. PICK Q : Q = Where(elements', buf', Held', Popped', swallowed')
  OBVIOUS
<1>8. Filled(P, elements, buf, Held, Popped, swallowed) /\ Partition(P, PlaceTags, pushed)
  BY <1>6, WhereFilled DEF PlacesInv
<1>9. Head(l) \notin Popped
  BY <1>1, <1>4, <1>8, TagsApart DEF Filled, Partition
<1>10. popped[Head(l)] = 0
  BY <1>4, <1>9 DEF PlacesInv, Popped
<1>11. \A v \in Values : popped'[v] = IF v = Head(l) THEN 1 ELSE popped[v]
  BY <1>2, <1>4, <1>10 DEF StoreTypeOK
<1>12. Popped' = Popped \cup {Head(l)} /\ Held' = Held
  BY <1>2, <1>4, <1>11 DEF Popped, Held
<1>13. Filled(Q, elements', buf, Held, Popped \cup {Head(l)}, swallowed)
  BY <1>2, <1>7, <1>12, WhereFilled
<1>14. Partition(Q, PlaceTags, pushed')
  BY <1>1, <1>2, <1>4, <1>5, <1>8, <1>13, ListToPopped
<1>15. (mu' # Free => Distinct(vals'[mu'])) /\ \A v \in Values : popped'[v] \in {0, 1}
  BY <1>2, <1>11 DEF PlacesInv
<1> QED
  BY <1>5, <1>7, <1>14, <1>15, PlacesNext

(* A BLPOP replies what its channel holds.                                 *)
LEMMA BLPopTakesPlaced ==
  ASSUME StoreTypeOK, StoreInv, PlacesInv, NEW c \in Clients,
         List!BLPopReceives(c) \/ List!BLPopGivesUp(c), UNCHANGED streamVars
  PROVE  PlacesInv'
<1>1. PICK ch \in Chans : ch = myChan[c]
  BY DEF List!BLPopReceives, List!BLPopGivesUp, StoreInv, HasChannel, Waits, BLPopPCs
<1>2. /\ UNCHANGED <<mu, vals, elements, pushed, swallowed>>
      /\ \A h \in Chans : buf'[h] = IF h = ch THEN Empty ELSE buf[h]
      /\ popped' = List!Reply(popped, buf[ch])
  BY <1>1 DEF List!BLPopReceives, List!BLPopGivesUp, List!Drain, List!PollReply, streamVars,
              StoreTypeOK
<1>3. PICK P : P = Where(elements, buf, Held, Popped, swallowed)
  OBVIOUS
<1>4. PICK Q : Q = Where(elements', buf', Held', Popped', swallowed')
  OBVIOUS
<1>5. Filled(P, elements, buf, Held, Popped, swallowed) /\ Partition(P, PlaceTags, pushed)
  BY <1>3, WhereFilled DEF PlacesInv
<1>6. ASSUME buf[ch] \in Values
      PROVE  popped[buf[ch]] = 0
  <2>1. P[ChanAt(ch)] = {buf[ch]} /\ P[PoppedAt] = Popped
    BY <1>5, <1>6 DEF Filled
  <2>2. P[ChanAt(ch)] \cap P[PoppedAt] = {}
    BY <1>5, TagsApart DEF Partition
  <2> QED
    BY <1>6, <2>1, <2>2 DEF PlacesInv, Popped
<1>7. \A v \in Values : popped'[v] = IF v = buf[ch] THEN 1 ELSE popped[v]
  BY <1>2, <1>6 DEF List!Reply, StoreTypeOK
<1>8. Popped' = Popped \cup ({buf[ch]} \cap Values) /\ Held' = Held
  BY <1>2, <1>7 DEF Popped, Held
<1>9. Filled(Q, elements, buf', Held, Popped \cup ({buf[ch]} \cap Values), swallowed)
  BY <1>2, <1>4, <1>8, WhereFilled
<1>10. Partition(Q, PlaceTags, pushed')
  BY <1>2, <1>5, <1>9, ChanIsRead
<1>11. /\ mu' # Free => Distinct(vals'[mu'])
       /\ \A v \in Values : popped'[v] \in {0, 1}
       /\ EachOnce(elements')
  BY <1>2, <1>7 DEF PlacesInv, EachOnce
<1> QED
  BY <1>4, <1>10, <1>11, PlacesNext

(* An XREAD drops what its channel holds.                                  *)
LEMMA XReadTakesPlaced ==
  ASSUME StoreTypeOK, StoreInv, PlacesInv, NEW c \in Clients,
         Stream!XReadReceives(c) \/ Stream!XReadGivesUp(c), UNCHANGED listVars
  PROVE  PlacesInv'
<1>1. PICK ch \in Chans : ch = myChan[c]
  BY DEF Stream!XReadReceives, Stream!XReadGivesUp, StoreInv, HasChannel, Waits, XReadPCs
<1>2. /\ UNCHANGED <<mu, vals, elements, pushed, popped>>
      /\ \A h \in Chans : buf'[h] = IF h = ch THEN Empty ELSE buf[h]
      /\ swallowed' = swallowed \cup ({buf[ch]} \cap Values)
  BY <1>1 DEF Stream!XReadReceives, Stream!XReadGivesUp, Stream!Drain, listVars, StoreTypeOK
<1>3. PICK P : P = Where(elements, buf, Held, Popped, swallowed)
  OBVIOUS
<1>4. PICK Q : Q = Where(elements', buf', Held', Popped', swallowed')
  OBVIOUS
<1>5. Filled(P, elements, buf, Held, Popped, swallowed) /\ Partition(P, PlaceTags, pushed)
  BY <1>3, WhereFilled DEF PlacesInv
<1>6. Popped' = Popped /\ Held' = Held
  BY <1>2 DEF Popped, Held
<1>7. Filled(Q, elements, buf', Held, Popped, swallowed \cup ({buf[ch]} \cap Values))
  BY <1>2, <1>4, <1>6, WhereFilled
<1>8. Partition(Q, PlaceTags, pushed')
  BY <1>2, <1>5, <1>7, ChanIsRead
<1>9. /\ mu' # Free => Distinct(vals'[mu'])
      /\ \A v \in Values : popped'[v] \in {0, 1}
      /\ EachOnce(elements')
  BY <1>2 DEF PlacesInv, EachOnce
<1> QED
  BY <1>4, <1>8, <1>9, PlacesNext

(* The other steps move no value.                                          *)
LEMMA UnmovedPlaced ==
  ASSUME PlacesInv, UNCHANGED <<elements, popped, pushed, swallowed>>, Held' = Held,
         \A h \in Chans : {buf'[h]} \cap Values = {buf[h]} \cap Values,
         mu' # Free => Distinct(vals'[mu'])
  PROVE  PlacesInv'
<1>1. PICK P : P = Where(elements, buf, Held, Popped, swallowed)
  OBVIOUS
<1>2. PICK Q : Q = Where(elements', buf', Held', Popped', swallowed')
  OBVIOUS
<1>3. Filled(P, elements, buf, Held, Popped, swallowed) /\ Partition(P, PlaceTags, pushed)
  BY <1>1, WhereFilled DEF PlacesInv
<1>4. Popped' = Popped
  BY DEF Popped
<1>5. Filled(Q, elements, buf', Held, Popped, swallowed)
  BY <1>2, <1>4, WhereFilled
<1>6. \A t \in PlaceTags : Q[t] = P[t]
  <2> SUFFICES ASSUME NEW t \in PlaceTags PROVE Q[t] = P[t]
    OBVIOUS
  <2>1. CASE \E j \in Keys : t = ListAt(j)
    BY <1>3, <1>5, <2>1 DEF Filled
  <2>2. CASE \E ch \in Chans : t = ChanAt(ch)
    BY <1>3, <1>5, <2>2 DEF Filled
  <2>3. CASE t \in {HeldAt, PoppedAt, LostAt}
    BY <1>3, <1>5, <2>3 DEF Filled
  <2> QED
    BY <2>1, <2>2, <2>3, TagsApart
<1>7. Partition(Q, PlaceTags, pushed')
  BY <1>3, <1>6 DEF Partition
<1>8. (\A v \in Values : popped'[v] \in {0, 1}) /\ EachOnce(elements')
  BY DEF PlacesInv, EachOnce
<1> QED
  BY <1>2, <1>7, <1>8, PlacesNext

LEMMA NotifiesPlaced ==
  ASSUME StoreTypeOK, StoreInv, PlacesInv, NEW c \in Clients, Stream!XAddNotifies(c),
         UNCHANGED listVars
  PROVE  PlacesInv'
<1>1. sending[c] \in Seq(Chans) /\ sending[c] # <<>>
  BY DEF Stream!XAddNotifies, StoreTypeOK, StoreInv, SomeoneToNotify
<1>2. PICK ch \in Chans : ch = Head(sending[c])
  BY <1>1, ServedCounts
<1>3. /\ UNCHANGED <<mu, vals, elements, popped, pushed, swallowed>>
      /\ \A h \in Chans : buf'[h] = IF h = ch THEN Stream!Offer(buf[h]) ELSE buf[h]
  BY <1>2 DEF Stream!XAddNotifies, listVars, StoreTypeOK
<1>4. \A slot : {Stream!Offer(slot)} \cap Values = {slot} \cap Values
  BY WaitersAssumption DEF Stream!Offer
<1>5. \A h \in Chans : {buf'[h]} \cap Values = {buf[h]} \cap Values
  BY <1>3, <1>4
<1>6. Held' = Held /\ (mu' # Free => Distinct(vals'[mu']))
  BY <1>3 DEF Held, PlacesInv
<1> QED
  BY <1>3, <1>5, <1>6, UnmovedPlaced

LEMMA QuietPlaced ==
  ASSUME PlacesInv, UNCHANGED <<mu, vals, elements, buf, popped, pushed, swallowed>>
  PROVE  PlacesInv'
<1>1. Held' = Held /\ (mu' # Free => Distinct(vals'[mu']))
  BY DEF Held, PlacesInv
<1> QED
  BY <1>1, UnmovedPlaced

LEMMA StepPlaced ==
  ASSUME StoreTypeOK, StoreInv, PlacesInv, [StoreNext]_vars
  PROVE  PlacesInv'
<1>0. CASE UNCHANGED vars
  BY <1>0, QuietPlaced DEF vars, waitVars, listVars, streamVars
<1>1. ASSUME NEW c \in Clients, ListStep(c)
      PROVE  PlacesInv'
  <2>0. UNCHANGED streamVars
    BY <1>1 DEF ListStep
  <2>1. CASE List!CallPush(c)
    BY <2>0, <2>1, PushStoresPlaced, PushServesPlaced, PushBlocksPlaced DEF List!CallPush
  <2>2. CASE List!CallBLPop(c)
    <3>1. CASE \E k \in Keys : List!BLPopNow(c, k)
      BY <2>0, <3>1, BLPopNowPlaced
    <3>2. CASE \E k \in Keys : \E ch \in Chans, hasTimeout \in BOOLEAN :
                 List!BLPopWaits(c, k, ch, hasTimeout)
      <4>1. UNCHANGED <<mu, vals, elements, buf, popped, pushed, swallowed>>
        BY <2>0, <3>2 DEF List!BLPopWaits, List!StartWait, streamVars
      <4> QED
        BY <4>1, QuietPlaced
    <3> QED
      BY <2>2, <3>1, <3>2 DEF List!CallBLPop
  <2>3. CASE List!ListProgress(c)
    <3>1. /\ ~List!LPopChecks(c) /\ ~List!LPopCompares(c) /\ ~List!LPopCuts(c)
          /\ ~List!LPopReads(c) /\ ~List!LPopSlices(c) /\ ~List!LPopStores(c)
      BY NoLPop
    <3>2. CASE List!BLPopTimesOut(c)
      <4>1. UNCHANGED <<mu, vals, elements, buf, popped, pushed, swallowed>>
        BY <2>0, <3>2 DEF List!BLPopTimesOut, List!TimerFires, List!listVars, streamVars
      <4> QED
        BY <4>1, QuietPlaced
    <3> QED
      BY <2>0, <2>3, <3>1, <3>2, PushResumesPlaced, BLPopTakesPlaced DEF List!ListProgress
  <2> QED
    BY <1>1, <2>1, <2>2, <2>3 DEF ListStep
<1>2. ASSUME NEW c \in Clients, StreamStep(c)
      PROVE  PlacesInv'
  <2>0. UNCHANGED listVars
    BY <1>2 DEF StreamStep
  <2>1. CASE Stream!XReadReceives(c) \/ Stream!XReadGivesUp(c)
    BY <2>0, <2>1, XReadTakesPlaced
  <2>2. CASE Stream!XAddNotifies(c)
    BY <2>0, <2>2, NotifiesPlaced
  <2>3. CASE Stream!CallXAdd(c) \/ Stream!CallXRead(c) \/ Stream!XReadTimesOut(c)
             \/ Stream!XReadReplies(c)
    <3>1. UNCHANGED <<mu, buf, swallowed>>
      BY <2>3 DEF Stream!CallXAdd, Stream!XAdd, Stream!CallXRead, Stream!XReadWaits,
                  Stream!StartWait, Stream!XReadTimesOut, Stream!TimerFires, Stream!streamVars,
                  Stream!XReadReplies
    <3> QED
      BY <2>0, <3>1, QuietPlaced DEF listVars
  <2> QED
    BY <1>2, <2>1, <2>2, <2>3 DEF StreamStep, Stream!StreamProgress
<1> QED
  BY <1>0, <1>1, <1>2 DEF StoreNext

-----------------------------------------------------------------------------
(* The places of a value, when each value is in one.                       *)
InListPlaces(v) ==
  UNION {{<<k, i>> : i \in {j \in DOMAIN elements[k] : elements[k][j] = v}} : k \in Keys}
InChanPlaces(v) == {ch \in Chans : buf[ch] = v}
InPushPlaces(v) == {c \in Clients : pc[c] = "pushSend" /\ v \in Range(vals[c])}

LEMMA PlacesSplit ==
  ASSUME NEW v
  PROVE  List!Places(v) = InListPlaces(v) \cup InChanPlaces(v) \cup InPushPlaces(v)
BY Zenon DEF List!Places, InListPlaces, InChanPlaces, InPushPlaces, List!Range, Range

LEMMA ListCardinalityIs ==
  ASSUME NEW S
  PROVE  List!Cardinality(S) = Cardinality(S)
BY Zenon DEF List!Cardinality, Cardinality, List!IsFiniteSet, IsFiniteSet

(* The places of each kind: one if the value is there, none otherwise.     *)
LEMMA OneInLists ==
  ASSUME StoreTypeOK, PlacesInv, NEW v
  PROVE  /\ \A k \in Keys : v \in Range(elements[k]) => \E p : InListPlaces(v) = {p}
         /\ (\A k \in Keys : v \notin Range(elements[k])) => InListPlaces(v) = {}
<1>0. Filled(Where(elements, buf, Held, Popped, swallowed), elements, buf, Held, Popped, swallowed)
  BY WhereFilled
<1>1. ASSUME NEW k \in Keys, v \in Range(elements[k])
      PROVE  \E p : InListPlaces(v) = {p}
  <2>1. PICK i \in DOMAIN elements[k] : elements[k][i] = v
    BY <1>1 DEF Range
  <2>2. ASSUME NEW l \in Keys, NEW j \in DOMAIN elements[l], elements[l][j] = v
        PROVE  l = k /\ j = i
    <3>1. v \in Range(elements[l])
      BY <2>2 DEF Range
    <3>2. l = k
      BY <1>0, <1>1, <3>1, TagsApart DEF PlacesInv, Partition, Filled
    <3> QED
      BY <2>1, <2>2, <3>2 DEF Distinct, PlacesInv
  <2>3. \A l \in Keys : {j \in DOMAIN elements[l] : elements[l][j] = v} =
                          IF l = k THEN {i} ELSE {}
    BY <2>1, <2>2
  <2>4. InListPlaces(v) = {<<k, i>>}
    BY <2>3 DEF InListPlaces
  <2> QED
    BY <2>4
<1>2. ASSUME \A k \in Keys : v \notin Range(elements[k])
      PROVE  InListPlaces(v) = {}
  <2>1. \A l \in Keys : {j \in DOMAIN elements[l] : elements[l][j] = v} = {}
    BY <1>2 DEF Range
  <2> QED
    BY <2>1 DEF InListPlaces
<1> QED
  BY <1>1, <1>2

LEMMA OneInChans ==
  ASSUME PlacesInv, NEW v \in Values
  PROVE  /\ \A ch \in Chans : buf[ch] = v => InChanPlaces(v) = {ch}
         /\ (\A ch \in Chans : buf[ch] # v) => InChanPlaces(v) = {}
<1>0. Filled(Where(elements, buf, Held, Popped, swallowed), elements, buf, Held, Popped, swallowed)
  BY WhereFilled
<1>1. ASSUME NEW ch \in Chans, NEW h \in Chans, buf[ch] = v, buf[h] = v
      PROVE  ch = h
  BY <1>0, <1>1, TagsApart DEF PlacesInv, Partition, Filled
<1> QED
  BY <1>1 DEF InChanPlaces

LEMMA OneInPush ==
  ASSUME StoreTypeOK, StoreInv, NEW v
  PROVE  InPushPlaces(v) = IF v \in Held THEN {mu} ELSE {}
<1>1. \A c \in Clients : pc[c] = "pushSend" <=> mu # Free /\ mu = c
  BY WaitersAssumption DEF StoreInv, Locked, StoreTypeOK
<1> QED
  BY <1>1 DEF InPushPlaces, Held, StoreTypeOK

LEMMA OneCopy ==
  ASSUME StoreTypeOK, StoreInv, PlacesInv, NEW v \in Values
  PROVE  List!Copies(v) + (IF v \in swallowed THEN 1 ELSE 0) = IF v \in pushed THEN 1 ELSE 0
<1>1. PICK P : P = Where(elements, buf, Held, Popped, swallowed)
  OBVIOUS
<1>2. Filled(P, elements, buf, Held, Popped, swallowed) /\ Partition(P, PlaceTags, pushed)
  BY <1>1, WhereFilled DEF PlacesInv
<1>3. /\ \A k \in Keys : v \in P[ListAt(k)] <=> v \in Range(elements[k])
      /\ \A ch \in Chans : v \in P[ChanAt(ch)] <=> buf[ch] = v
      /\ v \in P[HeldAt] <=> v \in Held
      /\ v \in P[PoppedAt] <=> v \in Popped
      /\ v \in P[LostAt] <=> v \in swallowed
  BY <1>2 DEF Filled
<1>4. popped[v] \in {0, 1} /\ (popped[v] = 1 <=> v \in Popped)
  BY DEF PlacesInv, Popped
<1>5. List!Places(v) = InListPlaces(v) \cup InChanPlaces(v) \cup InPushPlaces(v)
  BY PlacesSplit
<1>6. List!Copies(v) = Cardinality(List!Places(v)) + popped[v]
  BY ListCardinalityIs DEF List!Copies
<1>7. ASSUME NEW t \in PlaceTags, v \in P[t]
      PROVE  v \in pushed /\ \A u \in PlaceTags : u # t => v \notin P[u]
  BY <1>2, <1>7 DEF Partition
<1>8. CASE v \notin pushed
  <2>1. \A t \in PlaceTags : v \notin P[t]
    BY <1>7, <1>8
  <2>2. /\ InListPlaces(v) = {} /\ InChanPlaces(v) = {} /\ InPushPlaces(v) = {}
        /\ v \notin Popped /\ v \notin swallowed
    BY <1>3, <2>1, TagsApart, OneInLists, OneInChans, OneInPush
  <2>3. Cardinality(List!Places(v)) = 0
    BY <1>5, <2>2, FS_EmptySet, Zenon
  <2> QED
    BY <1>4, <1>6, <1>8, <2>2, <2>3
<1>9. CASE v \in pushed
  <2>1. PICK t \in PlaceTags : v \in P[t]
    BY <1>2, <1>9 DEF Partition
  <2>2. \A u \in PlaceTags : u # t => v \notin P[u]
    BY <1>7, <2>1
  <2>3. CASE \/ \E k \in Keys : t = ListAt(k)
             \/ \E ch \in Chans : t = ChanAt(ch)
             \/ t = HeldAt
    <3>1. v \notin Popped /\ v \notin swallowed
      BY <1>3, <2>2, <2>3, TagsApart
    <3>2. \E p : List!Places(v) = {p}
      <4>1. CASE \E k \in Keys : t = ListAt(k)
        <5>1. InChanPlaces(v) = {} /\ InPushPlaces(v) = {}
          BY <1>3, <2>2, <4>1, TagsApart, OneInChans, OneInPush
        <5>2. \E p : InListPlaces(v) = {p}
          BY <1>3, <2>1, <4>1, OneInLists
        <5> QED
          BY <1>5, <5>1, <5>2
      <4>2. CASE \E ch \in Chans : t = ChanAt(ch)
        <5>1. InListPlaces(v) = {} /\ InPushPlaces(v) = {}
          BY <1>3, <2>2, <4>2, TagsApart, OneInLists, OneInPush
        <5>2. \E p : InChanPlaces(v) = {p}
          BY <1>3, <2>1, <4>2, OneInChans
        <5> QED
          BY <1>5, <5>1, <5>2
      <4>3. CASE t = HeldAt
        <5>1. InListPlaces(v) = {} /\ InChanPlaces(v) = {}
          BY <1>3, <2>2, <4>3, TagsApart, OneInLists, OneInChans
        <5>2. InPushPlaces(v) = {mu}
          BY <1>3, <2>1, <4>3, OneInPush
        <5> QED
          BY <1>5, <5>1, <5>2
      <4> QED
        BY <2>3, <4>1, <4>2, <4>3
    <3>3. Cardinality(List!Places(v)) = 1
      BY <3>2, FS_Singleton, Zenon
    <3> QED
      BY <1>4, <1>6, <1>9, <3>1, <3>3
  <2>4. CASE t = PoppedAt \/ t = LostAt
    <3>1. InListPlaces(v) = {} /\ InChanPlaces(v) = {} /\ InPushPlaces(v) = {}
      BY <1>3, <2>2, <2>4, TagsApart, OneInLists, OneInChans, OneInPush
    <3>2. Cardinality(List!Places(v)) = 0
      BY <1>5, <3>1, FS_EmptySet, Zenon
    <3>3. /\ t = PoppedAt => v \in Popped /\ v \notin swallowed
          /\ t = LostAt => v \notin Popped /\ v \in swallowed
      BY <1>3, <2>1, <2>2, TagsApart
    <3> QED
      BY <1>4, <1>6, <1>9, <2>4, <3>2, <3>3
  <2> QED
    BY <2>3, <2>4, TagsApart
<1> QED
  BY <1>8, <1>9

(* Every value that was pushed is in one place: a list, a channel, the     *)
(* push that holds s.mu, the client that popped it, or - lost - the XREAD  *)
(* that received it (store.go:417-428, 453-471, 722-738).                  *)
THEOREM EachValueInOnePlace == Spec => []OnePlace
<1>1. Init => PlacesInv
  <2> SUFFICES ASSUME Init PROVE PlacesInv
    OBVIOUS
  <2>1. /\ \A k \in Keys : elements[k] = <<>> /\ Range(elements[k]) = {}
        /\ \A ch \in Chans : buf[ch] = Empty
        /\ \A v \in Values : popped[v] = 0
        /\ pushed = {} /\ swallowed = {} /\ mu = Free
    BY DEF Init, WaitersInit, List!ListInit, Stream!StreamInit, Range
  <2>2. PICK P : P = Where(elements, buf, Held, Popped, swallowed)
    OBVIOUS
  <2>3. Filled(P, elements, buf, Held, Popped, swallowed)
    BY <2>2, WhereFilled
  <2>4. Held = {} /\ Popped = {} /\ Empty \notin Values
    BY <2>1, WaitersAssumption DEF Held, Popped
  <2>5. \A t \in PlaceTags : P[t] = {}
    BY <2>1, <2>3, <2>4, TagsApart DEF Filled
  <2>6. Partition(P, PlaceTags, pushed)
    BY <2>1, <2>5 DEF Partition
  <2>7. \A k \in Keys : Distinct(elements[k])
    BY <2>1 DEF Distinct
  <2> QED
    BY <2>1, <2>2, <2>6, <2>7 DEF PlacesInv
<1>2. StoreTypeOK /\ StoreInv /\ PlacesInv /\ [StoreNext]_vars => PlacesInv'
  BY StepPlaced
<1>3. StoreTypeOK /\ StoreInv /\ PlacesInv => OnePlace
  BY OneCopy DEF OnePlace
<1> QED
  BY <1>1, <1>2, <1>3, StoreInvariant, PTL DEF Spec
=============================================================================
