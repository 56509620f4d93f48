--------------------------- MODULE ListOps_proofs ---------------------------
(***************************************************************************)
(* Proofs about ListOps, for any number of clients, keys, channels and     *)
(* values: the types, and the invariant of the wait queues.                *)
(***************************************************************************)
EXTENDS ListOps, SequenceFacts

-----------------------------------------------------------------------------
(* Sequences and the helpers on them.                                      *)

(* removeWaiter removes the first occurrence of the channel.               *)
LEMMA UnregisterCuts ==
  ASSUME NEW queue \in Seq(Chans), NEW ch \in Chans,
         NEW m \in 1..Len(queue), queue[m] = ch
  PROVE  CutsOne(Unregister(queue, ch), queue, ch, Chans)
BY RemoveFirstCuts DEF Unregister

(* A batch is a non-empty sequence of values, in either order.             *)
LEMMA BatchType ==
  ASSUME NEW vs \in FreshBatches, NEW end \in {"L", "R"}
  PROVE  /\ InOrder(end, vs) \in Seq(Values) /\ InOrder(end, vs) # <<>>
         /\ Leftover(InOrder(end, vs)) \in Seq(Values)
         /\ Head(InOrder(end, vs)) \in Values
         /\ Range(vs) \subseteq Values
<1>1. PICK n \in 1..MaxBatch : vs \in [1..n -> Values \ pushed]
  BY DEF FreshBatches
<1>2. n \in Nat /\ n >= 1
  BY ListOpsAssumption
<1>3. vs \in Seq(Values) /\ Len(vs) = n
  BY <1>1, <1>2
<1>4. Reverse(vs) \in Seq(Values) /\ Len(Reverse(vs)) = n
  BY <1>2, <1>3 DEF Reverse
<1>5. InOrder(end, vs) \in Seq(Values) /\ InOrder(end, vs) # <<>>
  BY <1>2, <1>3, <1>4 DEF InOrder
<1>6. Range(vs) \subseteq Values
  BY <1>1 DEF Range
<1> QED
  BY <1>5, <1>6, HeadTailProperties DEF Leftover

(* Adding values to either end of a list gives a list of values.           *)
LEMMA JoinType ==
  ASSUME NEW end, NEW a \in Seq(Values), NEW b \in Seq(Values)
  PROVE  Join(end, a, b) \in Seq(Values)
BY ConcatProperties DEF Join

(* Taking the served waiter off a queue.                                   *)
LEMMA ServedType ==
  ASSUME NEW queue \in Seq(Chans), queue # <<>>
  PROVE  /\ Served(queue) \in Seq(Chans)
         /\ Len(Served(queue)) = Len(queue) - 1
         /\ \A i \in 1..(Len(queue) - 1) : Served(queue)[i] = queue[i + 1]
         /\ Head(queue) = queue[1]
         /\ Len(queue) >= 1
BY HeadTailProperties DEF Served

-----------------------------------------------------------------------------
(* Types.                                                                  *)

(* How the process may stop.                                               *)
Ends == {"no", "panic", "fatal"}

(* A write of the lists keeps the types of raced and crashed.              *)
LEMMA WritesType ==
  ASSUME NEW c \in Clients, NEW k, NEW end, raced \in BOOLEAN, WritesElements(c, k, end)
  PROVE  raced' \in BOOLEAN /\ crashed' \in Ends
BY DEF WritesElements, Detected, Ends

LEMMA ReadsType ==
  ASSUME NEW c \in Clients, ReadsElements(c)
  PROVE  crashed' \in {"no", "fatal"}
BY DEF ReadsElements, Detected

(* What a push does to the lists, to raced and to crashed.                 *)
LEMMA AddToIs ==
  ASSUME NEW c \in Clients, NEW k \in Keys, NEW end, NEW vs, AddTo(c, k, end, vs),
         raced \in BOOLEAN, entries \in SUBSET Keys
  PROVE  /\ elements' = [elements EXCEPT ![k] = Join(end, vs, @)]
         /\ entries' \in SUBSET Keys
         /\ raced' \in BOOLEAN /\ crashed' \in {"no", "fatal"}
         /\ raced => raced'
         /\ ~raced' => Overtaken(c, k, end) = {}
BY DEF AddTo, WritesElements, Detected

(* Adding nothing leaves a list as it is.                                  *)
LEMMA AddOthersIs ==
  ASSUME NEW c \in Clients, NEW k \in Keys, NEW end, NEW vs, AddOthers(c, k, end, vs),
         elements \in [Keys -> Seq(Values)], raced \in BOOLEAN, entries \in SUBSET Keys
  PROVE  /\ elements' = [elements EXCEPT ![k] = Join(end, Leftover(vs), @)]
         /\ entries' \in SUBSET Keys
         /\ raced' \in BOOLEAN /\ crashed' \in {"no", "fatal"}
         /\ raced => raced'
         /\ ~raced' => Overtaken(c, k, end) = {} \/ elements' = elements
<1>1. CASE Leftover(vs) # <<>>
  BY <1>1, AddToIs DEF AddOthers
<1>2. CASE Leftover(vs) = <<>>
  <2>1. /\ elements' = elements /\ entries' = entries /\ raced' = raced
        /\ crashed' \in {"no", "fatal"}
    BY <1>2, ReadsType DEF AddOthers
  <2>2. \A list \in Seq(Values) : Join(end, <<>>, list) = list
    BY DEF Join
  <2>3. elements = [elements EXCEPT ![k] = Join(end, <<>>, @)]
    BY <2>2
  <2> QED
    BY <1>2, <2>1, <2>3
<1> QED
  BY <1>1, <1>2

(* What a BLPOP replies keeps the counts of popped values.                 *)
LEMMA ReplyType ==
  ASSUME NEW counts \in [Values -> Nat], NEW msg
  PROVE  Reply(counts, msg) \in [Values -> Nat] /\ PollReply(counts, msg) \in [Values -> Nat]
BY DEF Reply, PollReply

(* Leaving the queue keeps it a queue of channels, registered or not.      *)
LEMMA UnregisterType ==
  ASSUME NEW queue \in Seq(Chans), NEW ch \in Chans
  PROVE  Unregister(queue, ch) \in Seq(Chans)
BY RemoveFirstType DEF Unregister

(* The initial state has the types.                                        *)
LEMMA InitType == Init => TypeOK
<1> SUFFICES ASSUME Init PROVE TypeOK
  OBVIOUS
<1>1. WaitersTypeOK(ListPCs)
  BY DEF Init, WaitersInit, WaitersTypeOK, ListPCs
<1>2. \A S : <<>> \in Seq(S)
  OBVIOUS
<1>3. /\ elements \in [Keys -> Seq(Values)]
      /\ vals \in [Clients -> Seq(Values)]
      /\ rest \in [Clients -> Seq(Values)]
  BY <1>2 DEF Init, ListInit
<1>4. /\ arg \in [Clients -> Keys \cup {NoKey}] /\ side \in [Clients -> {"L", "R"}]
      /\ popped \in [Values -> Nat]
  BY DEF Init, ListInit
<1>6. pushed \in SUBSET Values /\ entries \in SUBSET Keys
  <2>1. pushed = {} /\ entries = {}
    BY DEF Init, ListInit
  <2>2. {} \in SUBSET Values /\ {} \in SUBSET Keys
    OBVIOUS
  <2> QED
    BY <2>1, <2>2, Zenon
<1>5. want \in [Clients -> Int]
  BY DEF Init, ListInit
<1>7. raced \in BOOLEAN /\ crashed \in Ends
  <2>1. raced = FALSE /\ crashed = "no"
    BY DEF Init, ListInit
  <2> QED
    BY <2>1 DEF Ends
<1> QED
  BY <1>1, <1>3, <1>4, <1>5, <1>6, <1>7 DEF TypeOK, Ends

(* Every step keeps the types; the channels' invariant is needed where an  *)
(* action uses the key or the channel of a command that is under way.      *)
LEMMA StepType ==
  ASSUME TypeOK, QueueInv, [ListNext]_vars
  PROVE  TypeOK'
<1> USE DEF TypeOK, WaitersTypeOK, ListPCs, LPopPCs, Msgs, Ends
<1>0. CASE UNCHANGED vars
  BY <1>0 DEF vars, waitVars, listVars
<1>1. ASSUME NEW c \in Clients, NEW k \in Keys, NEW end \in {"L", "R"},
             NEW vs \in FreshBatches, PushStores(c, k, end, vs)
      PROVE  TypeOK'
  <2>0. AddTo(c, k, end, InOrder(end, vs))
    BY <1>1 DEF PushStores
  <2>1. elements' \in [Keys -> Seq(Values)]
    <3>1. elements' = [elements EXCEPT ![k] = Join(end, InOrder(end, vs), @)]
      BY <2>0, AddToIs
    <3> QED
      BY <3>1, BatchType, JoinType
  <2>2. pushed' \in SUBSET Values
    BY <1>1, BatchType DEF PushStores
  <2>3. raced' \in BOOLEAN /\ crashed' \in Ends /\ entries' \in SUBSET Keys
    BY <2>0, AddToIs
  <2> QED
    BY <1>1, <2>1, <2>2, <2>3 DEF PushStores, waitVars
<1>2. ASSUME NEW c \in Clients, NEW k \in Keys, NEW end \in {"L", "R"},
             NEW vs \in FreshBatches, PushServes(c, k, end, vs)
      PROVE  TypeOK'
  <2>0. AddOthers(c, k, end, InOrder(end, vs))
    BY <1>2 DEF PushServes
  <2>1. elements' \in [Keys -> Seq(Values)]
    <3>1. elements' = [elements EXCEPT ![k] = Join(end, Leftover(InOrder(end, vs)), @)]
      BY <2>0, AddOthersIs
    <3> QED
      BY <3>1, BatchType, JoinType
  <2>2. pushed' \in SUBSET Values
    BY <1>2, BatchType DEF PushServes
  <2>3. raced' \in BOOLEAN /\ crashed' \in Ends /\ entries' \in SUBSET Keys
    BY <2>0, AddOthersIs
  <2>4. blockingClients' \in [Keys -> Seq(Chans)]
    BY <1>2, ServedType DEF PushServes
  <2>5. buf' \in [Chans -> Values \cup {StreamID} \cup {Empty}]
    BY <1>2, BatchType DEF PushServes
  <2> QED
    BY <1>2, <2>1, <2>2, <2>3, <2>4, <2>5 DEF PushServes
<1>3. ASSUME NEW c \in Clients, NEW k \in Keys, NEW end \in {"L", "R"},
             NEW vs \in FreshBatches, PushBlocks(c, k, end, vs)
      PROVE  FALSE
  BY <1>3 DEF PushBlocks, QueueInv, RegisteredIsEmpty
<1>4. ASSUME NEW c \in Clients, PushResumes(c)
      PROVE  FALSE
  BY <1>4 DEF PushResumes, QueueInv, NoPushInFlight
<1>5. ASSUME NEW c \in Clients, NEW k \in Keys, BLPopNow(c, k)
      PROVE  TypeOK'
  <2>1. elements' \in [Keys -> Seq(Values)] /\ popped' \in [Values -> Nat]
    BY <1>5, HeadTailProperties DEF BLPopNow
  <2>2. raced' \in BOOLEAN /\ crashed' \in Ends
    BY <1>5, WritesType DEF BLPopNow
  <2> QED
    BY <1>5, <2>1, <2>2 DEF BLPopNow, waitVars
<1>6. ASSUME NEW c \in Clients, NEW k \in Keys, NEW ch \in Chans, NEW hasTimeout \in BOOLEAN,
             BLPopWaits(c, k, ch, hasTimeout)
      PROVE  TypeOK'
  <2>1. blockingClients' \in [Keys -> Seq(Chans)]
    BY <1>6, AppendProperties DEF BLPopWaits, StartWait
  <2>2. crashed' \in Ends
    BY <1>6, ReadsType DEF BLPopWaits
  <2> QED
    BY <1>6, <2>1, <2>2 DEF BLPopWaits, StartWait
<1>7. ASSUME NEW c \in Clients, BLPopReceives(c)
      PROVE  TypeOK'
  <2>1. popped' \in [Values -> Nat]
    BY <1>7, ReplyType DEF BLPopReceives
  <2> QED
    BY <1>7, <2>1 DEF BLPopReceives, Drain, EndWait, EndCall
<1>8. ASSUME NEW c \in Clients, BLPopTimesOut(c)
      PROVE  TypeOK'
  BY <1>8 DEF BLPopTimesOut, TimerFires, listVars
<1>9. ASSUME NEW c \in Clients, BLPopGivesUp(c)
      PROVE  TypeOK'
  <2>1. popped' \in [Values -> Nat]
    BY <1>9, ReplyType DEF BLPopGivesUp
  <2>2. myChan[c] \in Chans
    BY <1>9 DEF BLPopGivesUp, QueueInv, ChannelWhileWaiting, BLPopPCs
  <2>3. blockingClients' \in [Keys -> Seq(Chans)]
    BY <1>9, <2>2, UnregisterType DEF BLPopGivesUp
  <2> QED
    BY <1>9, <2>1, <2>3 DEF BLPopGivesUp, Drain, EndWait, EndCall
<1>10. ASSUME NEW c \in Clients, NEW k \in Keys, NEW n \in PopCounts, LPopStarts(c, k, n)
       PROVE  TypeOK'
  <2>1. n \in Int
    BY ListOpsAssumption
  <2> QED
    BY <1>10, <2>1 DEF LPopStarts
<1>11. ASSUME NEW c \in Clients, LPopReads(c)
       PROVE  TypeOK'
  <2>1. arg[c] \in Keys
    BY <1>11 DEF LPopReads, QueueInv, BusyHasKey
  <2>2. \A i \in 1..Len(elements[arg[c]]) :
          Append(vals[c], elements[arg[c]][i]) \in Seq(Values)
    BY <2>1, AppendProperties
  <2>3. Len(vals[c]) + 1 \in Nat \ {0} /\ Len(elements[arg[c]]) \in Nat
    BY <2>1
  <2>4. CASE Len(vals[c]) + 1 <= Len(elements[arg[c]])
    <3>1. /\ vals' = [vals EXCEPT ![c] =
                        Append(vals[c], elements[arg[c]][Len(vals[c]) + 1])]
          /\ crashed' = crashed
      BY <1>11, <2>3, <2>4 DEF LPopReads
    <3>2. Len(vals[c]) + 1 \in 1..Len(elements[arg[c]])
      BY <2>3, <2>4
    <3>3. vals' \in [Clients -> Seq(Values)]
      BY <2>2, <3>1, <3>2
    <3> QED
      BY <1>11, <3>1, <3>3 DEF LPopReads, waitVars
  <2>5. CASE ~(Len(vals[c]) + 1 <= Len(elements[arg[c]]))
    BY <1>11, <2>3, <2>5 DEF LPopReads, waitVars
  <2> QED
    BY <2>4, <2>5
<1>12. ASSUME NEW c \in Clients, LPopSlices(c)
       PROVE  TypeOK'
  <2>1. arg[c] \in Keys
    BY <1>12 DEF LPopSlices, QueueInv, BusyHasKey
  <2>2. \A list \in Seq(Values), n \in Nat : SubSeq(list, n + 1, Len(list)) \in Seq(Values)
    BY SubSeqProperties
  <2>3. want[c] \in 0..Len(elements[arg[c]])
          => SubSeq(elements[arg[c]], want[c] + 1, Len(elements[arg[c]])) \in Seq(Values)
    BY <2>1, <2>2
  <2>4. rest' \in [Clients -> Seq(Values)] /\ pc' \in [Clients -> ListPCs]
    BY <1>12, <2>3 DEF LPopSlices
  <2> QED
    BY <1>12, <2>4 DEF LPopSlices
<1>13. ASSUME NEW c \in Clients, LPopStores(c)
       PROVE  TypeOK'
  <2>1. \A v \in Values : Times(v, vals[c]) \in Nat
    <3> TAKE v \in Values
    <3>1. vals[c] \in Seq(Values)
      OBVIOUS
    <3>2. IsFiniteSet(1..Len(vals[c]))
      BY <3>1, FS_Interval
    <3>3. IsFiniteSet({i \in DOMAIN vals[c] : vals[c][i] = v})
      BY <3>1, <3>2, FS_Subset
    <3> QED
      BY <3>3, FS_CardinalityType DEF Times
  <2>2. popped' \in [Values -> Nat]
    BY <1>13, <2>1 DEF LPopStores
  <2>3. elements' \in [Keys -> Seq(Values)]
    BY <1>13 DEF LPopStores, StoreRest
  <2>4. raced' \in BOOLEAN /\ crashed' \in Ends
    BY <1>13, WritesType DEF LPopStores
  <2> QED
    BY <1>13, <2>2, <2>3, <2>4 DEF LPopStores, EndCall
<1>14. ASSUME NEW c \in Clients, LPopChecks(c)
       PROVE  TypeOK'
  <2>1. /\ pc' \in [Clients -> ListPCs] /\ arg' \in [Clients -> Keys \cup {NoKey}]
        /\ want' \in [Clients -> Int]
    <3>1. CASE arg[c] \in entries
      BY <1>14, <3>1 DEF LPopChecks
    <3>2. CASE arg[c] \notin entries
      <4>1. /\ pc' = [pc EXCEPT ![c] = "idle"] /\ arg' = [arg EXCEPT ![c] = NoKey]
            /\ want' = [want EXCEPT ![c] = 0]
        BY <1>14, <3>2 DEF LPopChecks, EndCall
      <4>2. pc' \in [Clients -> ListPCs]
        BY <4>1
      <4>3. arg' \in [Clients -> Keys \cup {NoKey}] /\ want' \in [Clients -> Int]
        BY <4>1
      <4> QED
        BY <4>2, <4>3
    <3> QED
      BY <3>1, <3>2
  <2>2. UNCHANGED <<mu, blockingClients, made, buf, myChan, timed, elements, entries, side,
                    vals, rest, pushed, popped, raced, crashed>>
    BY <1>14 DEF LPopChecks
  <2> QED
    BY <2>1, <2>2
<1>15. ASSUME NEW c \in Clients, LPopCompares(c)
       PROVE  TypeOK'
  <2>1. pc' \in [Clients -> ListPCs]
    BY <1>15 DEF LPopCompares
  <2> QED
    BY <1>15, <2>1 DEF LPopCompares, listVars
<1>16. ASSUME NEW c \in Clients, LPopCuts(c)
       PROVE  TypeOK'
  <2>1. arg[c] \in Keys
    BY <1>16 DEF LPopCuts, QueueInv, BusyHasKey
  <2>2. Len(elements[arg[c]]) \in Int
    BY <2>1
  <2>3. want' \in [Clients -> Int] /\ pc' \in [Clients -> ListPCs]
    BY <1>16, <2>2 DEF LPopCuts
  <2> QED
    BY <1>16, <2>3 DEF LPopCuts
<1> HIDE DEF TypeOK, WaitersTypeOK
<1> QED
  BY <1>0, <1>1, <1>2, <1>3, <1>4, <1>5, <1>6, <1>7, <1>8, <1>9, <1>10, <1>11, <1>12, <1>13,
     <1>14, <1>15, <1>16
  DEF ListNext, CallPush, CallBLPop, CallLPop, ListProgress
-----------------------------------------------------------------------------
(* The wait queues.                                                        *)

(* The queue r is the queue q without the channel ch.                      *)
Without(r, q, ch) ==
  /\ \A i, j \in DOMAIN r : i # j => r[i] # r[j]
  /\ \A i \in DOMAIN r : r[i] # ch /\ \E j \in DOMAIN q : r[i] = q[j]
  /\ \A j \in DOMAIN q : q[j] # ch => \E i \in DOMAIN r : r[i] = q[j]

(* Serving a waiter removes nobody else from the queue.                    *)
LEMMA ServedWithout ==
  ASSUME NEW queue \in Seq(Chans), queue # <<>>,
         \A i, j \in DOMAIN queue : i # j => queue[i] # queue[j]
  PROVE  Without(Served(queue), queue, Head(queue))
<1>1. /\ Served(queue) \in Seq(Chans)
      /\ Len(Served(queue)) = Len(queue) - 1
      /\ \A i \in 1..(Len(queue) - 1) : Served(queue)[i] = queue[i + 1]
      /\ Head(queue) = queue[1]
      /\ Len(queue) >= 1
  BY ServedType
<1>2. DOMAIN Served(queue) = 1..(Len(queue) - 1) /\ DOMAIN queue = 1..Len(queue)
  BY <1>1
<1>3. ASSUME NEW j \in DOMAIN queue, queue[j] # Head(queue)
      PROVE  \E i \in DOMAIN Served(queue) : Served(queue)[i] = queue[j]
  <2>1. j - 1 \in 1..(Len(queue) - 1)
    BY <1>1, <1>2, <1>3
  <2> QED
    BY <1>1, <1>2, <2>1
<1>4. \A i \in DOMAIN Served(queue) : i + 1 \in DOMAIN queue /\ i + 1 # 1 /\ 1 \in DOMAIN queue
  BY <1>1, <1>2
<1> QED
  BY <1>1, <1>2, <1>3, <1>4 DEF Without

(* Leaving a queue removes nobody else from it.                            *)
LEMMA UnregisterWithout ==
  ASSUME NEW queue \in Seq(Chans), NEW ch \in Chans,
         \A i, j \in DOMAIN queue : i # j => queue[i] # queue[j]
  PROVE  Without(Unregister(queue, ch), queue, ch)
<1>0. DOMAIN queue = 1..Len(queue) /\ Len(queue) \in Nat
  OBVIOUS
<1>1. CASE ~ \E m \in 1..Len(queue) : queue[m] = ch
  BY <1>0, <1>1 DEF Unregister, RemoveFirst, Without
<1>2. CASE \E m \in 1..Len(queue) : queue[m] = ch
  <2> DEFINE r == Unregister(queue, ch)
  <2>1. PICK n \in 1..Len(queue) :
          /\ queue[n] = ch
          /\ r \in Seq(Chans)
          /\ Len(r) = Len(queue) - 1
          /\ \A i \in 1..(Len(queue) - 1) : r[i] = IF i < n THEN queue[i] ELSE queue[i + 1]
    BY <1>2, UnregisterCuts DEF CutsOne
  <2> HIDE DEF r
  <2>2. DOMAIN r = 1..(Len(queue) - 1)
    BY <2>1
  <2>3. ASSUME NEW i \in DOMAIN r, NEW j \in DOMAIN r, i # j
        PROVE  r[i] # r[j]
    <3> DEFINE old(m) == IF m < n THEN m ELSE m + 1
    <3>1. old(i) \in DOMAIN queue /\ old(j) \in DOMAIN queue /\ old(i) # old(j)
      BY <1>0, <2>1, <2>2, <2>3
    <3>2. r[i] = queue[old(i)] /\ r[j] = queue[old(j)]
      BY <2>1, <2>2
    <3> HIDE DEF old
    <3> QED
      BY <3>1, <3>2
  <2>4. \A i \in DOMAIN r : r[i] # ch /\ \E j \in DOMAIN queue : r[i] = queue[j]
    BY <1>0, <2>1, <2>2
  <2>5. ASSUME NEW j \in DOMAIN queue, queue[j] # ch
        PROVE  \E i \in DOMAIN r : r[i] = queue[j]
    <3>1. CASE j < n
      <4>1. j \in 1..(Len(queue) - 1)
        BY <1>0, <2>1, <3>1
      <4> QED
        BY <2>1, <2>2, <3>1, <4>1
    <3>2. CASE j > n
      <4>1. j - 1 \in 1..(Len(queue) - 1) /\ ~(j - 1 < n) /\ (j - 1) + 1 = j
        BY <1>0, <2>1, <3>2
      <4>2. r[j - 1] = queue[j]
        BY <2>1, <4>1
      <4> QED
        BY <2>2, <4>1, <4>2
    <3> QED
      BY <1>0, <2>1, <2>5, <3>1, <3>2
  <2> QED
    BY <2>3, <2>4, <2>5 DEF Without, r
<1> QED
  BY <1>1, <1>2

(* A registered channel belongs to one client, which waits on that key.    *)
LEMMA OneQueue ==
  ASSUME TypeOK, QueueInv,
         NEW k \in Keys, NEW i \in DOMAIN blockingClients[k],
         NEW c \in Clients, myChan[c] = blockingClients[k][i]
  PROVE  pc[c] \in BLPopPCs /\ arg[c] = k
<1>1. blockingClients[k][i] \in Chans
  BY DEF TypeOK, WaitersTypeOK
<1>2. myChan[c] # NoChan
  BY <1>1, WaitersAssumption
<1>3. PICK d \in Clients : pc[d] \in BLPopPCs /\ arg[d] = k /\ myChan[d] = myChan[c]
  BY DEF QueueInv, RegisteredIsEmpty
<1> QED
  BY <1>2, <1>3 DEF QueueInv, OneOwner

(* A step that touches neither the queues nor the channels nor who waits.  *)
LEMMA QueuesUntouched ==
  ASSUME QueueInv,
         UNCHANGED <<mu, blockingClients, made, buf, myChan>>,
         \A c \in Clients :
           /\ pc'[c] \in BLPopPCs <=> pc[c] \in BLPopPCs
           /\ pc[c] \in BLPopPCs => arg'[c] = arg[c]
           /\ pc'[c] # "pushSend"
           /\ pc'[c] # "idle" => arg'[c] \in Keys
  PROVE  QueueInv'
<1> USE DEF QueueInv, BLPopPCs
<1>1. NoPushInFlight' /\ BusyHasKey'
  BY DEF NoPushInFlight, BusyHasKey
<1>5. OneOwner' /\ RegisteredOnce' /\ NewIsEmpty'
  BY DEF OneOwner, RegisteredOnce, NewIsEmpty
<1>2. ChannelWhileWaiting'
  BY DEF ChannelWhileWaiting
<1>3. RegisteredIsEmpty'
  BY DEF RegisteredIsEmpty
<1>4. WaiterReachable'
  BY DEF WaiterReachable
<1> QED
  BY <1>1, <1>2, <1>3, <1>4, <1>5

(* The first waiter is served: its channel leaves the queue as it is       *)
(* filled.                                                                 *)
LEMMA ServeKeepsQueues ==
  ASSUME TypeOK, QueueInv, NEW c \in Clients, NEW k \in Keys, NEW end \in {"L", "R"},
         NEW vs \in FreshBatches, PushServes(c, k, end, vs)
  PROVE  QueueInv'
<1> DEFINE ch == Head(blockingClients[k])
           msg == Head(InOrder(end, vs))
<1>1. /\ blockingClients \in [Keys -> Seq(Chans)] /\ buf \in [Chans -> Msgs \cup {Empty}]
      /\ pc \in [Clients -> ListPCs] /\ myChan \in [Clients -> Chans \cup {NoChan}]
  BY DEF TypeOK, WaitersTypeOK
<1>2. /\ blockingClients[k] # <<>> /\ buf[ch] = Empty
      /\ buf' = [buf EXCEPT ![ch] = msg]
      /\ blockingClients' = [blockingClients EXCEPT ![k] = Served(@)]
      /\ UNCHANGED <<mu, made, pc, myChan, arg>>
  BY DEF PushServes
<1>3. ch \in Chans /\ 1 \in DOMAIN blockingClients[k] /\ ch = blockingClients[k][1]
  BY <1>1, <1>2, HeadTailProperties
<1>4. Without(blockingClients'[k], blockingClients[k], ch)
  BY <1>1, <1>2, ServedWithout DEF QueueInv, RegisteredOnce
<1>5. \A q \in Keys : q # k => blockingClients'[q] = blockingClients[q]
  BY <1>1, <1>2
<1>6. \A d \in Clients : myChan[d] = ch => arg[d] = k
  BY <1>3, OneQueue
<1>7. \A other \in Chans : other # ch => buf'[other] = buf[other]
  BY <1>1, <1>2
<1> HIDE DEF ch, msg
<1>8. NoPushInFlight' /\ ChannelWhileWaiting' /\ OneOwner' /\ BusyHasKey'
  BY <1>2 DEF QueueInv, NoPushInFlight, ChannelWhileWaiting, OneOwner, BusyHasKey, BLPopPCs
<1>9. RegisteredIsEmpty'
  <2> SUFFICES ASSUME NEW q \in Keys, NEW i \in DOMAIN blockingClients'[q]
               PROVE  /\ buf'[blockingClients'[q][i]] = Empty
                      /\ \E d \in Clients : /\ pc'[d] \in BLPopPCs
                                            /\ arg'[d] = q
                                            /\ myChan'[d] = blockingClients'[q][i]
    BY DEF RegisteredIsEmpty, BLPopPCs
  <2>1. PICK j \in DOMAIN blockingClients[q] : blockingClients'[q][i] = blockingClients[q][j]
    BY <1>4, <1>5 DEF Without
  <2>2. PICK d \in Clients : pc[d] \in BLPopPCs /\ arg[d] = q /\ myChan[d] = blockingClients[q][j]
    BY DEF QueueInv, RegisteredIsEmpty
  <2>3. blockingClients[q][j] # ch
    BY <1>4, <1>6, <2>1, <2>2 DEF Without
  <2>4. buf'[blockingClients[q][j]] = Empty
    <3>1. blockingClients[q][j] \in Chans
      BY <1>1
    <3> QED
      BY <3>1, <1>7, <2>3 DEF QueueInv, RegisteredIsEmpty
  <2> QED
    BY <1>2, <2>1, <2>2, <2>4
<1>10. RegisteredOnce'
  BY <1>4, <1>5 DEF QueueInv, RegisteredOnce, Without
<1>11. WaiterReachable'
  <2> SUFFICES ASSUME NEW d \in Clients, pc'[d] \in BLPopPCs, buf'[myChan'[d]] = Empty
               PROVE  \E i \in DOMAIN blockingClients'[arg'[d]] :
                        blockingClients'[arg'[d]][i] = myChan'[d]
    BY DEF WaiterReachable, BLPopPCs
  <2>1. myChan[d] \in Chans /\ arg[d] \in Keys
    BY <1>2 DEF QueueInv, ChannelWhileWaiting
  <2>2. myChan[d] # ch
    <3>1. msg # Empty
      BY WaitersAssumption, BatchType DEF msg
    <3> QED
      BY <1>1, <1>2, <1>3, <3>1
  <2>3. buf[myChan[d]] = Empty
    BY <1>2, <1>7, <2>1, <2>2
  <2>4. PICK j \in DOMAIN blockingClients[arg[d]] : blockingClients[arg[d]][j] = myChan[d]
    BY <1>2, <2>3 DEF QueueInv, WaiterReachable, BLPopPCs
  <2> QED
    BY <1>2, <1>4, <1>5, <2>1, <2>2, <2>4 DEF Without
<1>12. NewIsEmpty'
  <2>1. made[ch] # "none"
    <3>1. PICK d \in Clients : pc[d] \in BLPopPCs /\ myChan[d] = ch
      BY <1>3 DEF QueueInv, RegisteredIsEmpty
    <3> QED
      BY <3>1 DEF QueueInv, ChannelWhileWaiting
  <2> QED
    BY <1>2, <1>7, <2>1 DEF QueueInv, NewIsEmpty
<1> QED
  BY <1>8, <1>9, <1>10, <1>11, <1>12 DEF QueueInv

(* A client joins the queue of its key with a channel nobody has seen.     *)
LEMMA WaitKeepsQueues ==
  ASSUME TypeOK, QueueInv, NEW c \in Clients, NEW k \in Keys, NEW ch \in Chans,
         NEW hasTimeout \in BOOLEAN, BLPopWaits(c, k, ch, hasTimeout)
  PROVE  QueueInv'
<1>1. /\ blockingClients \in [Keys -> Seq(Chans)] /\ made \in [Chans -> {"none", "blpop", "xread"}]
      /\ pc \in [Clients -> ListPCs] /\ myChan \in [Clients -> Chans \cup {NoChan}]
      /\ arg \in [Clients -> Keys \cup {NoKey}]
  BY DEF TypeOK, WaitersTypeOK
<1>2. /\ pc[c] = "idle" /\ made[ch] = "none"
      /\ made' = [made EXCEPT ![ch] = "blpop"]
      /\ blockingClients' = [blockingClients EXCEPT ![k] = Append(@, ch)]
      /\ myChan' = [myChan EXCEPT ![c] = ch]
      /\ pc' = [pc EXCEPT ![c] = "blpopWait"]
      /\ arg' = [arg EXCEPT ![c] = k]
      /\ UNCHANGED <<mu, buf>>
  BY DEF BLPopWaits, StartWait
<1>3. buf[ch] = Empty
  BY <1>2 DEF QueueInv, NewIsEmpty
<1>4. \A d \in Clients : myChan[d] # ch
  BY <1>1, <1>2, WaitersAssumption DEF QueueInv, ChannelWhileWaiting
<1>5. \A q \in Keys : \A i \in DOMAIN blockingClients[q] : blockingClients[q][i] # ch
  BY <1>4 DEF QueueInv, RegisteredIsEmpty
<1>6. /\ DOMAIN blockingClients'[k] = DOMAIN blockingClients[k] \cup {Len(blockingClients[k]) + 1}
      /\ Len(blockingClients[k]) + 1 \notin DOMAIN blockingClients[k]
      /\ \A i \in DOMAIN blockingClients[k] : blockingClients'[k][i] = blockingClients[k][i]
      /\ blockingClients'[k][Len(blockingClients[k]) + 1] = ch
  BY <1>1, <1>2, AppendProperties
<1>7. \A q \in Keys : q # k => blockingClients'[q] = blockingClients[q]
  BY <1>1, <1>2
<1>8. /\ pc'[c] = "blpopWait" /\ arg'[c] = k /\ myChan'[c] = ch
      /\ \A d \in Clients : d # c => pc'[d] = pc[d] /\ arg'[d] = arg[d] /\ myChan'[d] = myChan[d]
  BY <1>1, <1>2
<1>9. made'[ch] = "blpop" /\ \A other \in Chans : other # ch => made'[other] = made[other]
  BY <1>1, <1>2
<1>10. NoPushInFlight' /\ OneOwner' /\ BusyHasKey'
  BY <1>2, <1>4, <1>8 DEF QueueInv, NoPushInFlight, OneOwner, BusyHasKey
<1>11. ChannelWhileWaiting'
  BY <1>4, <1>8, <1>9 DEF QueueInv, ChannelWhileWaiting, BLPopPCs
<1>12. RegisteredIsEmpty'
  <2> SUFFICES ASSUME NEW q \in Keys, NEW i \in DOMAIN blockingClients'[q]
               PROVE  /\ buf'[blockingClients'[q][i]] = Empty
                      /\ \E d \in Clients : /\ pc'[d] \in BLPopPCs
                                            /\ arg'[d] = q
                                            /\ myChan'[d] = blockingClients'[q][i]
    BY DEF RegisteredIsEmpty, BLPopPCs
  <2>1. CASE q = k /\ i = Len(blockingClients[k]) + 1
    BY <1>2, <1>3, <1>6, <1>8, <2>1 DEF BLPopPCs
  <2>2. CASE ~(q = k /\ i = Len(blockingClients[k]) + 1)
    <3>1. i \in DOMAIN blockingClients[q] /\ blockingClients'[q][i] = blockingClients[q][i]
      BY <1>6, <1>7, <2>2
    <3>2. PICK d \in Clients : pc[d] \in BLPopPCs /\ arg[d] = q /\ myChan[d] = blockingClients[q][i]
      BY <3>1 DEF QueueInv, RegisteredIsEmpty
    <3>3. d # c
      BY <1>2, <3>2 DEF BLPopPCs
    <3>4. buf[blockingClients[q][i]] = Empty
      BY <3>1 DEF QueueInv, RegisteredIsEmpty
    <3> QED
      BY <1>2, <1>8, <3>1, <3>2, <3>3, <3>4
  <2> QED
    BY <2>1, <2>2
<1>13. RegisteredOnce'
  BY <1>5, <1>6, <1>7 DEF QueueInv, RegisteredOnce
<1>14. WaiterReachable'
  <2> SUFFICES ASSUME NEW d \in Clients, pc'[d] \in BLPopPCs, buf'[myChan'[d]] = Empty
               PROVE  \E i \in DOMAIN blockingClients'[arg'[d]] :
                        blockingClients'[arg'[d]][i] = myChan'[d]
    BY DEF WaiterReachable, BLPopPCs
  <2>1. CASE d = c
    BY <1>6, <1>8, <2>1
  <2>2. CASE d # c
    <3>1. pc[d] \in BLPopPCs /\ arg[d] \in Keys /\ buf[myChan[d]] = Empty
      BY <1>2, <1>8, <2>2 DEF QueueInv, ChannelWhileWaiting
    <3>2. PICK i \in DOMAIN blockingClients[arg[d]] : blockingClients[arg[d]][i] = myChan[d]
      BY <3>1 DEF QueueInv, WaiterReachable, BLPopPCs
    <3> QED
      BY <1>6, <1>7, <1>8, <2>2, <3>1, <3>2
  <2> QED
    BY <2>1, <2>2
<1>15. NewIsEmpty'
  BY <1>2, <1>9 DEF QueueInv, NewIsEmpty
<1> QED
  BY <1>10, <1>11, <1>12, <1>13, <1>14, <1>15 DEF QueueInv

(* A wait ends: the channel of c is off every queue and empty.  queues is  *)
(* what becomes of blockingClients.                                        *)
LEMMA EndOfWait ==
  ASSUME TypeOK, QueueInv, NEW c \in Clients, pc[c] \in BLPopPCs,
         UNCHANGED <<mu, made>>, EndWait(c), EndCall(c), Drain(c),
         \A q \in Keys : q # arg[c] => blockingClients'[q] = blockingClients[q],
         Without(blockingClients'[arg[c]], blockingClients[arg[c]], myChan[c])
  PROVE  QueueInv'
<1> DEFINE ch == myChan[c]
           k == arg[c]
<1>1. /\ blockingClients \in [Keys -> Seq(Chans)] /\ buf \in [Chans -> Msgs \cup {Empty}]
      /\ pc \in [Clients -> ListPCs] /\ myChan \in [Clients -> Chans \cup {NoChan}]
      /\ arg \in [Clients -> Keys \cup {NoKey}]
  BY DEF TypeOK, WaitersTypeOK
<1>2. ch \in Chans /\ k \in Keys /\ ch # NoChan
  BY WaitersAssumption DEF QueueInv, ChannelWhileWaiting
<1>3. /\ pc'[c] = "idle" /\ arg'[c] = NoKey /\ myChan'[c] = NoChan
      /\ \A d \in Clients : d # c => pc'[d] = pc[d] /\ arg'[d] = arg[d] /\ myChan'[d] = myChan[d]
  BY <1>1 DEF EndWait, EndCall
<1>4. buf'[ch] = Empty /\ \A other \in Chans : other # ch => buf'[other] = buf[other]
  BY <1>1, <1>2 DEF Drain
<1>5. \A d \in Clients : d # c => myChan[d] # ch
  BY <1>2 DEF QueueInv, OneOwner
<1> HIDE DEF ch, k
<1>6. /\ Without(blockingClients'[k], blockingClients[k], ch)
      /\ \A q \in Keys : q # k => blockingClients'[q] = blockingClients[q]
  BY DEF ch, k
<1>7. NoPushInFlight' /\ OneOwner' /\ BusyHasKey'
  BY <1>3 DEF QueueInv, NoPushInFlight, OneOwner, BusyHasKey
<1>8. ChannelWhileWaiting'
  BY <1>3 DEF QueueInv, ChannelWhileWaiting, BLPopPCs
<1>9. RegisteredIsEmpty'
  <2> SUFFICES ASSUME NEW q \in Keys, NEW i \in DOMAIN blockingClients'[q]
               PROVE  /\ buf'[blockingClients'[q][i]] = Empty
                      /\ \E d \in Clients : /\ pc'[d] \in BLPopPCs
                                            /\ arg'[d] = q
                                            /\ myChan'[d] = blockingClients'[q][i]
    BY DEF RegisteredIsEmpty, BLPopPCs
  <2>1. PICK j \in DOMAIN blockingClients[q] : blockingClients'[q][i] = blockingClients[q][j]
    BY <1>6 DEF Without
  <2>2. PICK d \in Clients : pc[d] \in BLPopPCs /\ arg[d] = q /\ myChan[d] = blockingClients[q][j]
    BY DEF QueueInv, RegisteredIsEmpty
  <2>3. d # c
    BY <1>6, <2>1, <2>2 DEF Without, k, ch
  <2>4. buf'[blockingClients[q][j]] = Empty
    <3>1. blockingClients[q][j] \in Chans
      BY <1>1
    <3> QED
      BY <3>1, <1>4 DEF QueueInv, RegisteredIsEmpty
  <2> QED
    BY <1>3, <2>1, <2>2, <2>3, <2>4
<1>10. RegisteredOnce'
  BY <1>6 DEF QueueInv, RegisteredOnce, Without
<1>11. WaiterReachable'
  <2> SUFFICES ASSUME NEW d \in Clients, pc'[d] \in BLPopPCs, buf'[myChan'[d]] = Empty
               PROVE  \E i \in DOMAIN blockingClients'[arg'[d]] :
                        blockingClients'[arg'[d]][i] = myChan'[d]
    BY DEF WaiterReachable, BLPopPCs
  <2>1. d # c
    BY <1>3 DEF BLPopPCs
  <2>2. pc[d] \in BLPopPCs /\ myChan[d] \in Chans /\ arg[d] \in Keys /\ myChan[d] # ch
    BY <1>3, <1>5, <2>1 DEF QueueInv, ChannelWhileWaiting
  <2>3. buf[myChan[d]] = Empty
    BY <1>3, <1>4, <2>1, <2>2
  <2>4. PICK j \in DOMAIN blockingClients[arg[d]] : blockingClients[arg[d]][j] = myChan[d]
    BY <2>2, <2>3 DEF QueueInv, WaiterReachable, BLPopPCs
  <2> QED
    BY <1>3, <1>6, <2>1, <2>2, <2>4 DEF Without
<1>12. NewIsEmpty'
  BY <1>4 DEF QueueInv, NewIsEmpty
<1> QED
  BY <1>7, <1>8, <1>9, <1>10, <1>11, <1>12 DEF QueueInv

(* BLPOP receives its value.                                               *)
LEMMA ReceiveKeepsQueues ==
  ASSUME TypeOK, QueueInv, NEW c \in Clients, BLPopReceives(c)
  PROVE  QueueInv'
<1>1. pc[c] \in BLPopPCs /\ buf[myChan[c]] # Empty /\ blockingClients' = blockingClients
  BY DEF BLPopReceives, BLPopPCs
<1>2. arg[c] \in Keys
  BY <1>1 DEF QueueInv, ChannelWhileWaiting
<1>3. Without(blockingClients[arg[c]], blockingClients[arg[c]], myChan[c])
  BY <1>1, <1>2 DEF QueueInv, RegisteredOnce, RegisteredIsEmpty, Without
<1> QED
  BY <1>1, <1>3, EndOfWait DEF BLPopReceives

(* BLPOP gives up after its timeout.                                       *)
LEMMA GiveUpKeepsQueues ==
  ASSUME TypeOK, QueueInv, NEW c \in Clients, BLPopGivesUp(c)
  PROVE  QueueInv'
<1>1. /\ pc[c] \in BLPopPCs
      /\ blockingClients' = [blockingClients EXCEPT ![arg[c]] = Unregister(@, myChan[c])]
  BY DEF BLPopGivesUp, BLPopPCs
<1>2. arg[c] \in Keys /\ myChan[c] \in Chans /\ blockingClients \in [Keys -> Seq(Chans)]
  BY <1>1 DEF QueueInv, ChannelWhileWaiting, TypeOK, WaitersTypeOK
<1>3. Without(Unregister(blockingClients[arg[c]], myChan[c]), blockingClients[arg[c]], myChan[c])
  BY <1>2, UnregisterWithout DEF QueueInv, RegisteredOnce
<1>4. /\ Without(blockingClients'[arg[c]], blockingClients[arg[c]], myChan[c])
      /\ \A q \in Keys : q # arg[c] => blockingClients'[q] = blockingClients[q]
  BY <1>1, <1>2, <1>3
<1> QED
  BY <1>1, <1>4, EndOfWait DEF BLPopGivesUp

-----------------------------------------------------------------------------
(* The queues are consistent when they are all empty.                      *)
LEMMA InitQueues == Init => QueueInv
BY DEF Init, WaitersInit, ListInit, QueueInv, NoPushInFlight, ChannelWhileWaiting, OneOwner,
       RegisteredIsEmpty, RegisteredOnce, WaiterReachable, NewIsEmpty, BusyHasKey, BLPopPCs

(* Every step of the list commands keeps the queues consistent.            *)
LEMMA StepQueues ==
  ASSUME TypeOK, QueueInv, [ListNext]_vars
  PROVE  QueueInv'
<1> USE DEF TypeOK, WaitersTypeOK
<1>0. CASE UNCHANGED vars
  <2>1. UNCHANGED <<mu, blockingClients, made, buf, pc, myChan, arg>>
    BY <1>0 DEF vars, waitVars, listVars
  <2> QED
    BY <2>1, QueuesUntouched DEF QueueInv, NoPushInFlight, BusyHasKey
<1>1. ASSUME NEW c \in Clients, NEW k \in Keys, NEW end \in {"L", "R"},
             NEW vs \in FreshBatches, PushStores(c, k, end, vs)
      PROVE  QueueInv'
  BY <1>1, QueuesUntouched DEF PushStores, waitVars, QueueInv, NoPushInFlight, BusyHasKey
<1>2. ASSUME NEW c \in Clients, NEW k \in Keys, NEW end \in {"L", "R"},
             NEW vs \in FreshBatches, PushServes(c, k, end, vs)
      PROVE  QueueInv'
  BY <1>2, ServeKeepsQueues
<1>3. ASSUME NEW c \in Clients, NEW k \in Keys, NEW end \in {"L", "R"},
             NEW vs \in FreshBatches, PushBlocks(c, k, end, vs)
      PROVE  QueueInv'
  BY <1>3 DEF PushBlocks, QueueInv, RegisteredIsEmpty
<1>4. ASSUME NEW c \in Clients, PushResumes(c)
      PROVE  QueueInv'
  BY <1>4 DEF PushResumes, QueueInv, NoPushInFlight
<1>5. ASSUME NEW c \in Clients, NEW k \in Keys, BLPopNow(c, k)
      PROVE  QueueInv'
  BY <1>5, QueuesUntouched DEF BLPopNow, waitVars, QueueInv, NoPushInFlight, BusyHasKey
<1>6. ASSUME NEW c \in Clients, NEW k \in Keys, NEW ch \in Chans, NEW hasTimeout \in BOOLEAN,
             BLPopWaits(c, k, ch, hasTimeout)
      PROVE  QueueInv'
  BY <1>6, WaitKeepsQueues
<1>7. ASSUME NEW c \in Clients, BLPopReceives(c)
      PROVE  QueueInv'
  BY <1>7, ReceiveKeepsQueues
<1>8. ASSUME NEW c \in Clients, BLPopTimesOut(c)
      PROVE  QueueInv'
  BY <1>8, QueuesUntouched
  DEF BLPopTimesOut, TimerFires, listVars, BLPopPCs, QueueInv, NoPushInFlight, BusyHasKey
<1>9. ASSUME NEW c \in Clients, BLPopGivesUp(c)
      PROVE  QueueInv'
  BY <1>9, GiveUpKeepsQueues
<1>10. ASSUME NEW c \in Clients, NEW k \in Keys, NEW n \in PopCounts, LPopStarts(c, k, n)
       PROVE  QueueInv'
  BY <1>10, QueuesUntouched DEF LPopStarts, BLPopPCs, QueueInv, NoPushInFlight, BusyHasKey
<1>11. ASSUME NEW c \in Clients, LPopReads(c)
       PROVE  QueueInv'
  BY <1>11, QueuesUntouched DEF LPopReads, waitVars, QueueInv, NoPushInFlight, BusyHasKey
<1>12. ASSUME NEW c \in Clients, LPopSlices(c)
       PROVE  QueueInv'
  BY <1>12, QueuesUntouched DEF LPopSlices, BLPopPCs, QueueInv, NoPushInFlight, BusyHasKey
<1>13. ASSUME NEW c \in Clients, LPopStores(c)
       PROVE  QueueInv'
  BY <1>13, QueuesUntouched DEF LPopStores, EndCall, BLPopPCs, QueueInv, NoPushInFlight, BusyHasKey
<1>14. ASSUME NEW c \in Clients, LPopChecks(c)
       PROVE  QueueInv'
  BY <1>14, QueuesUntouched DEF LPopChecks, EndCall, BLPopPCs, QueueInv, NoPushInFlight, BusyHasKey
<1>15. ASSUME NEW c \in Clients, LPopCompares(c)
       PROVE  QueueInv'
  BY <1>15, QueuesUntouched DEF LPopCompares, listVars, BLPopPCs, QueueInv, NoPushInFlight, BusyHasKey
<1>16. ASSUME NEW c \in Clients, LPopCuts(c)
       PROVE  QueueInv'
  BY <1>16, QueuesUntouched DEF LPopCuts, BLPopPCs, QueueInv, NoPushInFlight, BusyHasKey
<1> HIDE DEF TypeOK, WaitersTypeOK
<1> QED
  BY <1>0, <1>1, <1>2, <1>3, <1>4, <1>5, <1>6, <1>7, <1>8, <1>9, <1>10, <1>11, <1>12, <1>13,
     <1>14, <1>15, <1>16
  DEF ListNext, CallPush, CallBLPop, CallLPop, ListProgress

-----------------------------------------------------------------------------
(* The types and the invariant of the queues hold together: the actions    *)
(* that finish a command use the key and the channel it waits with.        *)
THEOREM QueuesConsistent == Spec => [](TypeOK /\ QueueInv)
<1>1. Init => TypeOK /\ QueueInv
  BY InitType, InitQueues
<1>2. TypeOK /\ QueueInv /\ [ListNext]_vars => (TypeOK /\ QueueInv)'
  BY StepType, StepQueues
<1> QED
  BY <1>1, <1>2, PTL DEF Spec

(* Every variable of the list commands keeps its type.                     *)
THEOREM TypesHold == Spec => []TypeOK
BY QueuesConsistent, PTL

(* The send of checkForBlockingClients (store.go:459), made with s.mu      *)
(* locked, always finds room as long as only list commands use the queues. *)
THEOREM NoPushBlocks == Spec => []PushNeverBlocks
<1>1. TypeOK /\ QueueInv => PushNeverBlocks
  <2> SUFFICES ASSUME TypeOK, QueueInv PROVE PushNeverBlocks
    OBVIOUS
  <2>1. ASSUME NEW k \in Keys, blockingClients[k] # <<>>
        PROVE  buf[Head(blockingClients[k])] = Empty
    <3>1. blockingClients[k] \in Seq(Chans)
      BY DEF TypeOK, WaitersTypeOK
    <3>2. 1 \in DOMAIN blockingClients[k] /\ Head(blockingClients[k]) = blockingClients[k][1]
      BY <2>1, <3>1
    <3> QED
      BY <3>2 DEF QueueInv, RegisteredIsEmpty
  <2> QED
    BY <2>1 DEF PushNeverBlocks, QueueInv, NoPushInFlight
<1> QED
  BY <1>1, QueuesConsistent, PTL

(* No list command returns and leaves its channel in a queue.              *)
THEOREM NoStaleRegistration == Spec => []RegisteredIsWaiting
<1>1. QueueInv => RegisteredIsWaiting
  BY DEF QueueInv, RegisteredIsEmpty, RegisteredIsWaiting, BLPopPCs, WaitingPCs
<1> QED
  BY <1>1, QueuesConsistent, PTL

(* A blocked client that was handed nothing can be reached by a push.      *)
THEOREM WaitersStayReachable == Spec => []WaiterReachable
<1>1. QueueInv => WaiterReachable
  BY DEF QueueInv
<1> QED
  BY <1>1, QueuesConsistent, PTL

-----------------------------------------------------------------------------
(* LPOP, as long as none was overtaken.                                    *)

(* An LPOP that has settled how many values it takes holds the first       *)
(* values of its list; when it is to store the rest, it holds as many as   *)
(* it takes.  With a negative count it never holds any.                    *)
Copied(taken, list) == \A i \in DOMAIN taken : i \in DOMAIN list /\ taken[i] = list[i]
Settled(c) == pc[c] \in {"lpopRead", "lpopStore"}
InLPop(c) == pc[c] \in LPopPCs
Prefix(c) ==
  /\ want[c] <= Len(elements[arg[c]])
  /\ Len(vals[c]) <= want[c] \/ vals[c] = <<>>
  /\ Copied(vals[c], elements[arg[c]])
  /\ pc[c] = "lpopStore" =>
       /\ Len(vals[c]) = want[c]
       /\ rest[c] = SubSeq(elements[arg[c]], want[c] + 1, Len(elements[arg[c]]))
Negative == \E c \in Clients : pc[c] = "lpopRead" /\ want[c] < 0
LPopInv ==
  /\ ~raced => /\ crashed = "panic" => Negative
              /\ \A c \in Clients : Settled(c) => Prefix(c)
  /\ \A c \in Clients : ~Settled(c) => vals[c] = <<>>

(* A step that reads no list for an LPOP.                                  *)
LEMMA LPopsUntouched ==
  ASSUME LPopInv, raced => raced', crashed' # "panic",
         \A c \in Clients : Settled(c)' <=> Settled(c),
         \A c \in Clients : vals'[c] = vals[c],
         ~raced' => \A c \in Clients : Settled(c) =>
                      /\ pc'[c] = pc[c] /\ want'[c] = want[c] /\ rest'[c] = rest[c]
                      /\ elements'[arg'[c]] = elements[arg[c]]
  PROVE  LPopInv'
<1>1. ASSUME ~raced', NEW c \in Clients, Settled(c)' PROVE Prefix(c)'
  BY <1>1 DEF LPopInv, Prefix
<1> QED
  BY <1>1 DEF LPopInv

(* More values at the end of a list do not disturb who reads its head.     *)
LEMMA LongerKeepsPrefix ==
  ASSUME NEW s \in Seq(Values), NEW more \in Seq(Values), NEW taken, Copied(taken, s)
  PROVE  Copied(taken, s \o more) /\ Len(s) <= Len(s \o more)
<1>1. /\ Len(s \o more) = Len(s) + Len(more) /\ Len(s) \in Nat /\ Len(more) \in Nat
      /\ DOMAIN s = 1..Len(s) /\ DOMAIN (s \o more) = 1..(Len(s) + Len(more))
      /\ \A i \in 1..Len(s) : (s \o more)[i] = s[i]
  OBVIOUS
<1>2. DOMAIN s \subseteq DOMAIN (s \o more) /\ Len(s) <= Len(s \o more)
  BY <1>1
<1>3. \A i \in DOMAIN s : (s \o more)[i] = s[i]
  BY <1>1
<1> HIDE DEF Copied
<1>4. Copied(taken, s \o more)
  BY <1>2, <1>3 DEF Copied
<1> QED
  BY <1>2, <1>4

(* A change of one list by a client that is in no LPOP.                    *)
LEMMA WriteKeepsLPops ==
  ASSUME TypeOK, LPopInv, NEW c \in Clients, ~Settled(c), NEW k \in Keys, NEW end \in {"L", "R"},
         NEW more \in Seq(Values), QueueInv,
         raced => raced', crashed' # "panic",
         pc' = pc /\ arg' = arg /\ vals' = vals /\ want' = want /\ rest' = rest,
         ~raced' => Overtaken(c, k, end) = {} \/ elements' = elements,
         \A l \in Keys \ {k} : elements'[l] = elements[l],
         end = "R" => elements'[k] = elements[k] \o more
  PROVE  LPopInv'
<1>1. ASSUME ~raced', NEW d \in Clients, Settled(d) PROVE Prefix(d)'
  <2>1. Prefix(d)
    BY <1>1 DEF LPopInv
  <2>2. CASE elements'[arg[d]] = elements[arg[d]]
    BY <2>1, <2>2 DEF Prefix
  <2>3. CASE elements'[arg[d]] # elements[arg[d]]
    <3>0. arg[d] \in Keys
      BY <1>1 DEF Settled, QueueInv, BusyHasKey
    <3>1. arg[d] = k /\ d # c /\ Overtaken(c, k, end) = {}
      BY <1>1, <2>3, <3>0
    <3>2. pc[d] = "lpopRead" /\ end = "R"
      BY <1>1, <3>1 DEF Overtaken, Settled
    <3>3. elements[k] \in Seq(Values) /\ elements'[k] = elements[k] \o more
      BY <3>2 DEF TypeOK
    <3>4. Copied(vals[d], elements[k]) /\ want[d] <= Len(elements[k])
      BY <2>1, <3>1 DEF Prefix
    <3>5. Copied(vals[d], elements[k] \o more) /\ Len(elements[k]) <= Len(elements[k] \o more)
      BY <3>3, <3>4, LongerKeepsPrefix
    <3>6. want[d] \in Int /\ Len(elements[k]) \in Nat /\ Len(elements[k] \o more) \in Nat
      BY <3>3 DEF TypeOK
    <3>7. want[d] <= Len(elements[k] \o more)
      BY <3>4, <3>5, <3>6
    <3>8. pc[d] # "lpopStore"
      BY <3>2
    <3> QED
      BY <2>1, <3>1, <3>3, <3>5, <3>7, <3>8 DEF Prefix
  <2> QED
    BY <2>2, <2>3
<1> QED
  BY <1>1 DEF LPopInv, Settled

LEMMA StepLPops ==
  ASSUME TypeOK, QueueInv, LPopInv, [ListNext]_vars
  PROVE  LPopInv'
<1>t. /\ pc \in [Clients -> ListPCs] /\ vals \in [Clients -> Seq(Values)]
      /\ elements \in [Keys -> Seq(Values)] /\ want \in [Clients -> Int]
      /\ arg \in [Clients -> Keys \cup {NoKey}] /\ rest \in [Clients -> Seq(Values)]
      /\ raced \in BOOLEAN /\ entries \in SUBSET Keys
  BY DEF TypeOK, WaitersTypeOK
<1>0. CASE UNCHANGED vars
  <2>1. UNCHANGED <<pc, vals, elements, want, arg, rest, raced, crashed>>
    BY <1>0 DEF vars, waitVars, listVars
  <2> QED
    BY <2>1 DEF LPopInv, Negative, Settled, Prefix
<1> SUFFICES ASSUME ListNext PROVE LPopInv'
  BY <1>0
<1>r. crashed = "no"
  BY DEF ListNext
<1>1. ASSUME NEW c \in Clients, NEW k \in Keys, NEW end \in {"L", "R"},
             NEW vs \in FreshBatches, PushStores(c, k, end, vs)
      PROVE  LPopInv'
  <2>1. /\ AddTo(c, k, end, InOrder(end, vs)) /\ ~Settled(c)
        /\ pc' = pc /\ arg' = arg /\ vals' = vals /\ want' = want /\ rest' = rest
    BY <1>1 DEF PushStores, waitVars, Settled
  <2>2. PICK more \in Seq(Values) : more = InOrder(end, vs)
    BY BatchType
  <2>3. /\ elements' = [elements EXCEPT ![k] = Join(end, more, @)]
        /\ raced => raced'
        /\ crashed' # "panic"
        /\ ~raced' => Overtaken(c, k, end) = {}
    BY <1>t, <2>1, <2>2, AddToIs
  <2>4. /\ \A l \in Keys \ {k} : elements'[l] = elements[l]
        /\ end = "R" => elements'[k] = elements[k] \o more
    BY <1>t, <2>3 DEF Join
  <2> QED
    BY <2>1, <2>3, <2>4, WriteKeepsLPops
<1>2. ASSUME NEW c \in Clients, NEW k \in Keys, NEW end \in {"L", "R"},
             NEW vs \in FreshBatches, PushServes(c, k, end, vs)
      PROVE  LPopInv'
  <2>1. /\ AddOthers(c, k, end, InOrder(end, vs)) /\ ~Settled(c)
        /\ pc' = pc /\ arg' = arg /\ vals' = vals /\ want' = want /\ rest' = rest
    BY <1>2 DEF PushServes, Settled
  <2>2. PICK more \in Seq(Values) : more = Leftover(InOrder(end, vs))
    BY BatchType
  <2>3. /\ elements' = [elements EXCEPT ![k] = Join(end, more, @)]
        /\ raced => raced'
        /\ crashed' # "panic"
        /\ ~raced' => Overtaken(c, k, end) = {} \/ elements' = elements
    BY <1>t, <2>1, <2>2, AddOthersIs
  <2>4. /\ \A l \in Keys \ {k} : elements'[l] = elements[l]
        /\ end = "R" => elements'[k] = elements[k] \o more
    BY <1>t, <2>3 DEF Join
  <2> QED
    BY <2>1, <2>3, <2>4, WriteKeepsLPops
<1>3. ASSUME NEW c \in Clients, NEW k \in Keys, NEW end \in {"L", "R"},
             NEW vs \in FreshBatches, PushBlocks(c, k, end, vs)
      PROVE  LPopInv'
  BY <1>3 DEF PushBlocks, QueueInv, RegisteredIsEmpty, TypeOK, WaitersTypeOK
<1>4. ASSUME NEW c \in Clients, PushResumes(c)
      PROVE  LPopInv'
  BY <1>4 DEF PushResumes, QueueInv, NoPushInFlight
<1>5. ASSUME NEW c \in Clients, NEW k \in Keys, BLPopNow(c, k)
      PROVE  LPopInv'
  <2>1. /\ WritesElements(c, k, "L") /\ ~Settled(c)
        /\ pc' = pc /\ arg' = arg /\ vals' = vals /\ want' = want /\ rest' = rest
        /\ \A l \in Keys \ {k} : elements'[l] = elements[l]
    BY <1>t, <1>5 DEF BLPopNow, waitVars, Settled
  <2>2. /\ raced => raced'
        /\ crashed' # "panic"
        /\ ~raced' => Overtaken(c, k, "L") = {}
    BY <2>1 DEF WritesElements, Detected
  <2>3. <<>> \in Seq(Values) /\ "L" # "R"
    OBVIOUS
  <2> QED
    BY <2>1, <2>2, <2>3, WriteKeepsLPops
<1>6. ASSUME NEW c \in Clients, NEW k \in Keys, NEW ch \in Chans, NEW hasTimeout \in BOOLEAN,
             BLPopWaits(c, k, ch, hasTimeout)
      PROVE  LPopInv'
  <2>1. crashed' # "panic"
    BY <1>6, ReadsType DEF BLPopWaits
  <2> QED
    BY <1>t, <1>6, <2>1, LPopsUntouched DEF BLPopWaits, StartWait, LPopInv, Settled
<1>7. ASSUME NEW c \in Clients, BLPopReceives(c)
      PROVE  LPopInv'
  BY <1>t, <1>r, <1>7, LPopsUntouched DEF BLPopReceives, EndWait, EndCall, LPopInv, Settled
<1>8. ASSUME NEW c \in Clients, BLPopTimesOut(c)
      PROVE  LPopInv'
  BY <1>t, <1>r, <1>8, LPopsUntouched DEF BLPopTimesOut, TimerFires, listVars, LPopInv, Settled
<1>9. ASSUME NEW c \in Clients, BLPopGivesUp(c)
      PROVE  LPopInv'
  BY <1>t, <1>r, <1>9, LPopsUntouched DEF BLPopGivesUp, EndWait, EndCall, LPopInv, Settled
<1>10. ASSUME NEW c \in Clients, NEW k \in Keys, NEW n \in PopCounts, LPopStarts(c, k, n)
       PROVE  LPopInv'
  BY <1>t, <1>r, <1>10, LPopsUntouched DEF LPopStarts, LPopInv, Settled
<1>14. ASSUME NEW c \in Clients, LPopChecks(c)
       PROVE  LPopInv'
  BY <1>t, <1>r, <1>14, LPopsUntouched DEF LPopChecks, EndCall, LPopInv, Settled
<1>n. ASSUME NEW c \in Clients, arg[c] \in Keys, ~Settled(c),
             UNCHANGED <<elements, arg, vals, rest, raced, crashed>>,
             pc'[c] = "lpopRead", want'[c] \in Int, want'[c] <= Len(elements[arg[c]]),
             \A d \in Clients \ {c} : pc'[d] = pc[d] /\ want'[d] = want[d]
      PROVE  LPopInv'
  <2>1. vals[c] = <<>>
    BY <1>n DEF LPopInv
  <2>2. Prefix(c)'
    BY <1>n, <2>1 DEF Prefix, Copied
  <2>3. \A d \in Clients \ {c} : Prefix(d) => Prefix(d)'
    BY <1>n DEF Prefix
  <2>4. \A d \in Clients \ {c} : Settled(d)' <=> Settled(d)
    BY <1>n DEF Settled
  <2>5. Settled(c)' /\ vals' = vals /\ raced' = raced /\ crashed' # "panic"
    BY <1>r, <1>n DEF Settled
  <2> QED
    BY <2>2, <2>3, <2>4, <2>5 DEF LPopInv
<1>15. ASSUME NEW c \in Clients, LPopCompares(c)
       PROVE  LPopInv'
  <2>1. arg[c] \in Keys /\ ~Settled(c)
    BY <1>15 DEF LPopCompares, QueueInv, BusyHasKey, Settled
  <2>2. /\ UNCHANGED <<elements, arg, vals, rest, raced, crashed, want>>
        /\ \A d \in Clients \ {c} : pc'[d] = pc[d]
    BY <1>t, <1>15 DEF LPopCompares, listVars
  <2>3. CASE TakesAll(want[c], elements[arg[c]])
    <3>1. pc'[c] = "lpopCut"
      BY <1>t, <1>15, <2>3 DEF LPopCompares
    <3> QED
      BY <1>r, <2>1, <2>2, <3>1, LPopsUntouched DEF LPopInv, Settled
  <2>4. CASE ~TakesAll(want[c], elements[arg[c]])
    <3>1. pc'[c] = "lpopRead"
      BY <1>t, <1>15, <2>4 DEF LPopCompares
    <3>2. want[c] \in Int /\ Len(elements[arg[c]]) \in Nat
      BY <1>t, <2>1
    <3>3. want'[c] \in Int /\ want'[c] <= Len(elements[arg[c]])
      BY <2>2, <2>4, <3>2 DEF TakesAll
    <3> QED
      BY <1>n, <2>1, <2>2, <3>1, <3>3
  <2> QED
    BY <2>3, <2>4
<1>16. ASSUME NEW c \in Clients, LPopCuts(c)
       PROVE  LPopInv'
  <2>1. arg[c] \in Keys /\ ~Settled(c)
    BY <1>16 DEF LPopCuts, QueueInv, BusyHasKey, Settled
  <2>2. Len(elements[arg[c]]) \in Nat
    BY <1>t, <2>1
  <2>3. /\ UNCHANGED <<elements, arg, vals, rest, raced, crashed>>
        /\ pc'[c] = "lpopRead" /\ want'[c] = Len(elements[arg[c]])
        /\ \A d \in Clients \ {c} : pc'[d] = pc[d] /\ want'[d] = want[d]
    BY <1>t, <1>16 DEF LPopCuts
  <2>4. want'[c] \in Int /\ want'[c] <= Len(elements[arg[c]])
    BY <2>2, <2>3
  <2> QED
    BY <1>n, <2>1, <2>3, <2>4
<1>11. ASSUME NEW c \in Clients, LPopReads(c)
       PROVE  LPopInv'
  <2>1. /\ elements' = elements /\ raced' = raced /\ rest' = rest /\ arg' = arg
        /\ want' = want /\ pc' = pc /\ pc[c] = "lpopRead" /\ Len(vals[c]) < want[c]
        /\ \A d \in Clients \ {c} : vals'[d] = vals[d]
    BY <1>t, <1>11 DEF LPopReads, waitVars
  <2>2. /\ arg[c] \in Keys /\ Len(vals[c]) \in Nat /\ Len(elements[arg[c]]) \in Nat
        /\ want[c] \in Int /\ DOMAIN vals[c] = 1..Len(vals[c])
        /\ DOMAIN elements[arg[c]] = 1..Len(elements[arg[c]])
        /\ elements[arg[c]] \in Seq(Values) /\ vals[c] \in Seq(Values)
    BY <1>t, <2>1, LenProperties DEF QueueInv, BusyHasKey
  <2>3. ASSUME ~raced PROVE crashed' = crashed /\ Prefix(c)'
    <3>1. want[c] <= Len(elements[arg[c]]) /\ Copied(vals[c], elements[arg[c]])
      BY <2>1, <2>3 DEF LPopInv, Prefix, Settled
    <3>2. Len(vals[c]) + 1 <= Len(elements[arg[c]])
      BY <2>1, <2>2, <3>1
    <3>3. /\ vals'[c] = Append(vals[c], elements[arg[c]][Len(vals[c]) + 1])
          /\ crashed' = crashed
      BY <1>t, <1>11, <2>2, <3>2 DEF LPopReads
    <3>4. elements[arg[c]][Len(vals[c]) + 1] \in Values
      BY <2>2, <3>2
    <3>5. PICK t : t = vals'[c]
      OBVIOUS
    <3>6. /\ Len(t) = Len(vals[c]) + 1 /\ DOMAIN t = 1..(Len(vals[c]) + 1)
          /\ \A i \in 1..Len(vals[c]) : t[i] = vals[c][i]
          /\ t[Len(vals[c]) + 1] = elements[arg[c]][Len(vals[c]) + 1]
      BY <2>2, <3>3, <3>4, <3>5, AppendProperties, LenProperties
    <3>7. Copied(t, elements[arg[c]])
      BY <2>2, <3>1, <3>2, <3>6 DEF Copied
    <3>8. want[c] <= Len(elements[arg[c]]) /\ Len(t) <= want[c]
      BY <2>1, <2>2, <3>1, <3>6
    <3>9. Prefix(c)'
      BY <2>1, <3>5, <3>7, <3>8 DEF Prefix
    <3> QED
      BY <3>3, <3>9
  <2>4. \A d \in Clients \ {c} : Prefix(d) => Prefix(d)'
    BY <2>1 DEF Prefix
  <2>5. /\ \A d \in Clients : Settled(d)' <=> Settled(d)
        /\ Settled(c)
    BY <2>1 DEF Settled
  <2> QED
    BY <1>r, <2>1, <2>3, <2>4, <2>5 DEF LPopInv
<1>12. ASSUME NEW c \in Clients, LPopSlices(c)
       PROVE  LPopInv'
  <2>1. /\ elements' = elements /\ raced' = raced /\ vals' = vals /\ arg' = arg
        /\ want' = want /\ pc[c] = "lpopRead" /\ Len(vals[c]) >= want[c]
        /\ \A d \in Clients \ {c} : pc'[d] = pc[d] /\ rest'[d] = rest[d]
        /\ pc'[c] \in {"lpopRead", "lpopStore"}
    BY <1>t, <1>12 DEF LPopSlices
  <2>2. want[c] \in Int /\ Len(elements[arg[c]]) \in Nat /\ Len(vals[c]) \in Nat
    BY <1>t, <2>1, LenProperties DEF QueueInv, BusyHasKey
  <2>3. ASSUME ~raced PROVE (crashed' = "panic" => Negative') /\ Prefix(c)'
    <3>1. /\ want[c] <= Len(elements[arg[c]]) /\ Copied(vals[c], elements[arg[c]])
          /\ Len(vals[c]) <= want[c] \/ vals[c] = <<>>
      BY <2>1, <2>3 DEF LPopInv, Prefix, Settled
    <3>2. CASE want[c] < 0
      <4>1. crashed' = "panic" /\ rest' = rest /\ pc' = pc
        BY <1>12, <2>2, <3>2 DEF LPopSlices
      <4>2. Negative'
        BY <2>1, <3>2, <4>1 DEF Negative
      <4> QED
        BY <2>1, <3>1, <4>1, <4>2 DEF Prefix
    <3>3. CASE ~(want[c] < 0)
      <4>1. want[c] \in 0..Len(elements[arg[c]])
        BY <2>2, <3>1, <3>3
      <4>2. /\ rest'[c] = SubSeq(elements[arg[c]], want[c] + 1, Len(elements[arg[c]]))
            /\ crashed' = crashed
        BY <1>t, <1>12, <4>1 DEF LPopSlices
      <4>3. Len(vals[c]) = want[c]
        <5>1. Len(<<>>) = 0
          OBVIOUS
        <5> QED
          BY <2>1, <2>2, <3>1, <3>3, <5>1
      <4> QED
        BY <1>r, <2>1, <3>1, <4>2, <4>3 DEF Prefix
    <3> QED
      BY <3>2, <3>3
  <2>4. \A d \in Clients \ {c} : Prefix(d) => Prefix(d)'
    BY <2>1 DEF Prefix
  <2>5. \A d \in Clients : Settled(d)' <=> Settled(d)
    BY <2>1 DEF Settled
  <2> QED
    BY <2>1, <2>3, <2>4, <2>5 DEF LPopInv
<1>13. ASSUME NEW c \in Clients, LPopStores(c)
       PROVE  LPopInv'
  <2>1. /\ pc'[c] = "idle" /\ vals'[c] = <<>> /\ WritesElements(c, arg[c], "L")
        /\ \A d \in Clients \ {c} : /\ pc'[d] = pc[d] /\ vals'[d] = vals[d]
                                    /\ arg'[d] = arg[d] /\ want'[d] = want[d]
                                    /\ rest'[d] = rest[d]
        /\ \A l \in Keys : l # arg[c] => elements'[l] = elements[l]
    BY <1>t, <1>13 DEF LPopStores, EndCall
  <2>2. /\ raced => raced'
        /\ crashed' # "panic"
        /\ ~raced' => Overtaken(c, arg[c], "L") = {}
    BY <2>1 DEF WritesElements, Detected
  <2>3. ASSUME ~raced', NEW d \in Clients \ {c}, Settled(d) PROVE Prefix(d)'
    <3>1. arg[d] # arg[c]
      BY <2>2, <2>3 DEF Overtaken, Settled
    <3>2. arg[d] \in Keys
      BY <2>3 DEF QueueInv, BusyHasKey, Settled
    <3>3. Prefix(d)
      BY <2>2, <2>3 DEF LPopInv
    <3> QED
      BY <2>1, <3>1, <3>2, <3>3 DEF Prefix
  <2>4. ~Settled(c)' /\ \A d \in Clients \ {c} : Settled(d)' <=> Settled(d)
    BY <2>1 DEF Settled
  <2> QED
    BY <2>1, <2>2, <2>3, <2>4 DEF LPopInv
<1> QED
  BY <1>1, <1>2, <1>3, <1>4, <1>5, <1>6, <1>7, <1>8, <1>9, <1>10, <1>11, <1>12, <1>13,
     <1>14, <1>15, <1>16
  DEF ListNext, CallPush, CallBLPop, CallLPop, ListProgress

(* An LPOP panics only when it was overtaken or called with a negative     *)
(* count (store.go:386, 390).                                              *)
THEOREM LPopsPanicByRaces == Spec => []PanicNeedsRace
<1>1. Init => LPopInv
  BY DEF Init, WaitersInit, ListInit, LPopInv, Settled
<1>2. TypeOK /\ QueueInv /\ LPopInv /\ [ListNext]_vars => LPopInv'
  BY StepLPops
<1>3. LPopInv => PanicNeedsRace
  BY DEF LPopInv, PanicNeedsRace, Negative
<1> QED
  BY <1>1, <1>2, <1>3, QueuesConsistent, PTL DEF Spec

-----------------------------------------------------------------------------
(* Where the values are, as long as no LPOP was overtaken.                 *)

Popped == {v \in Values : popped[v] = 1}
Apart(lists, slots, gone, put) ==
  /\ \A k, l \in Keys : k # l => lists[k] \cap lists[l] = {}
  /\ \A ch, h \in Chans : ch # h /\ slots[ch] \in Values => slots[ch] # slots[h]
  /\ \A ch \in Chans, k \in Keys : slots[ch] \notin lists[k]
  /\ \A k \in Keys : lists[k] \cap gone = {} /\ lists[k] \subseteq put
  /\ \A ch \in Chans : slots[ch] \notin gone /\ (slots[ch] \in Values => slots[ch] \in put)
  /\ gone \subseteq put
  /\ \A v \in put \ gone : \/ \E k \in Keys : v \in lists[k]
                           \/ \E ch \in Chans : slots[ch] = v
OnePlaceEach ==
  /\ \A k \in Keys : Distinct(elements[k])
  /\ \A v \in Values : popped[v] \in {0, 1}
  /\ Apart([k \in Keys |-> Range(elements[k])], buf, Popped, pushed)
PlacesInv == ~raced => OnePlaceEach

(* Putting two lists together.                                             *)
LEMMA JoinDistinct ==
  ASSUME NEW end, NEW a \in Seq(Values), NEW b \in Seq(Values), Distinct(a), Distinct(b),
         Range(a) \cap Range(b) = {}
  PROVE  /\ Distinct(Join(end, a, b))
         /\ Range(Join(end, a, b)) = Range(a) \cup Range(b)
BY ConcatDistinct DEF Join

(* The values of a batch are new, and each is there once.                  *)
LEMMA BatchDistinct ==
  ASSUME NEW vs \in FreshBatches, NEW end \in {"L", "R"}
  PROVE  /\ Distinct(InOrder(end, vs)) /\ Range(InOrder(end, vs)) = Range(vs)
         /\ Range(vs) \cap pushed = {}
<1>1. PICK n \in 1..MaxBatch : vs \in [1..n -> Values \ pushed]
  BY DEF FreshBatches
<1>2. n \in Nat /\ vs \in Seq(Values) /\ Len(vs) = n /\ DOMAIN vs = 1..n
  BY <1>1, ListOpsAssumption
<1>3. Distinct(vs) /\ Range(vs) \cap pushed = {}
  BY <1>1, <1>2 DEF FreshBatches, IsInjective, Distinct, Range
<1>4. Distinct(Reverse(vs)) /\ Range(Reverse(vs)) = Range(vs)
  BY <1>2, <1>3, ReverseDistinct
<1> QED
  BY <1>3, <1>4 DEF InOrder

(* What a push, a pop and a delivery do to the whereabouts: a fresh set    *)
(* joins a list, perhaps one value of it a channel; values of a list, or   *)
(* of a channel, are popped.                                               *)
LEMMA ApartPush ==
  ASSUME NEW lists \in [Keys -> SUBSET Values], NEW slots \in [Chans -> Msgs \cup {Empty}],
         NEW gone \in SUBSET Values, NEW put \in SUBSET Values, Apart(lists, slots, gone, put),
         NEW k \in Keys, NEW new \in SUBSET Values, new \cap put = {},
         NEW lists2 \in [Keys -> SUBSET Values],
         lists2[k] = lists[k] \cup new, \A l \in Keys \ {k} : lists2[l] = lists[l]
  PROVE  Apart(lists2, slots, gone, put \cup new)
<1>1. \A l \in Keys : lists2[l] = IF l = k THEN lists[k] \cup new ELSE lists[l]
  OBVIOUS
<1>2. \A ch \in Chans : slots[ch] \in new => slots[ch] \in put
  BY DEF Apart
<1> QED
  BY <1>1, <1>2 DEF Apart

LEMMA ApartHandOver ==
  ASSUME NEW lists \in [Keys -> SUBSET Values], NEW slots \in [Chans -> Msgs \cup {Empty}],
         NEW gone \in SUBSET Values, NEW put \in SUBSET Values, Apart(lists, slots, gone, put),
         NEW ch \in Chans, slots[ch] = Empty, NEW v \in Values, v \notin put,
         NEW slots2 \in [Chans -> Msgs \cup {Empty}],
         slots2[ch] = v, \A h \in Chans \ {ch} : slots2[h] = slots[h]
  PROVE  Apart(lists, slots2, gone, put \cup {v})
<1>1. \A h \in Chans : slots2[h] = IF h = ch THEN v ELSE slots[h]
  OBVIOUS
<1>2. \A h \in Chans : slots[h] # v
  BY DEF Apart
<1>3. Empty \notin Values
  BY WaitersAssumption
<1>4. \A w \in put \ gone : \/ \E l \in Keys : w \in lists[l]
                           \/ \E h \in Chans : slots2[h] = w
  BY <1>1, <1>3 DEF Apart
<1> QED
  BY <1>1, <1>2, <1>3, <1>4 DEF Apart

LEMMA ApartPop ==
  ASSUME NEW lists \in [Keys -> SUBSET Values], NEW slots \in [Chans -> Msgs \cup {Empty}],
         NEW gone \in SUBSET Values, NEW put \in SUBSET Values, Apart(lists, slots, gone, put),
         NEW k \in Keys, NEW out \in SUBSET Values, out \subseteq lists[k],
         NEW lists2 \in [Keys -> SUBSET Values],
         lists2[k] = lists[k] \ out, \A l \in Keys \ {k} : lists2[l] = lists[l]
  PROVE  Apart(lists2, slots, gone \cup out, put)
<1>1. \A l \in Keys : lists2[l] = IF l = k THEN lists[k] \ out ELSE lists[l]
  OBVIOUS
<1>2. \A l \in Keys \ {k} : lists[l] \cap out = {}
  BY DEF Apart
<1>3. \A h \in Chans : slots[h] \notin out
  BY DEF Apart
<1>4. \A w \in put \ (gone \cup out) : \/ \E l \in Keys : w \in lists2[l]
                                      \/ \E h \in Chans : slots[h] = w
  BY <1>1 DEF Apart
<1> QED
  BY <1>1, <1>2, <1>3, <1>4 DEF Apart

LEMMA ApartTake ==
  ASSUME NEW lists \in [Keys -> SUBSET Values], NEW slots \in [Chans -> Msgs \cup {Empty}],
         NEW gone \in SUBSET Values, NEW put \in SUBSET Values, Apart(lists, slots, gone, put),
         NEW ch \in Chans,
         NEW slots2 \in [Chans -> Msgs \cup {Empty}],
         slots2[ch] = Empty, \A h \in Chans \ {ch} : slots2[h] = slots[h]
  PROVE  Apart(lists, slots2, gone \cup ({slots[ch]} \cap Values), put)
<1>1. \A h \in Chans : slots2[h] = IF h = ch THEN Empty ELSE slots[h]
  OBVIOUS
<1>2. Empty \notin Values
  BY WaitersAssumption
<1>3. \A h \in Chans \ {ch} : slots[h] \in Values => slots[h] # slots[ch]
  BY DEF Apart
<1>4. \A w \in put \ (gone \cup ({slots[ch]} \cap Values)) :
        (\E l \in Keys : w \in lists[l]) \/ \E h \in Chans : slots2[h] = w
  BY <1>1 DEF Apart
<1>5. Empty \notin gone /\ \A l \in Keys : Empty \notin lists[l]
  BY <1>2
<1> QED
  BY <1>1, <1>2, <1>3, <1>4, <1>5 DEF Apart

(* The first n values of a list, and the others.                           *)
LEMMA CutDistinct ==
  ASSUME NEW s \in Seq(Values), Distinct(s), NEW taken \in Seq(Values), Len(taken) <= Len(s),
         Copied(taken, s)
  PROVE  LET r == SubSeq(s, Len(taken) + 1, Len(s))
         IN  /\ Distinct(r) /\ Range(r) = Range(s) \ Range(taken) /\ Range(taken) \subseteq Range(s)
             /\ \A v \in Values : Times(v, taken) = IF v \in Range(taken) THEN 1 ELSE 0
<1> DEFINE n == Len(taken)
<1>1. PICK r : r = SubSeq(s, n + 1, Len(s))
  OBVIOUS
<1>2. /\ n \in Nat /\ Len(s) \in Nat /\ DOMAIN s = 1..Len(s) /\ DOMAIN taken = 1..n
  BY LenProperties
<1>c. \A i \in DOMAIN taken : i \in DOMAIN s /\ taken[i] = s[i]
  BY DEF Copied
<1>d. n <= Len(s)
  OBVIOUS
<1> HIDE DEF n
<1>3. DOMAIN r = 1..(Len(s) - n) /\ \A i \in 1..(Len(s) - n) : r[i] = s[i + n]
  <2>1. r \in Seq(Values)
    BY <1>1, <1>2, SubSeqProperties
  <2>2. Len(r) = Len(s) - n /\ \A i \in 1..Len(r) : r[i] = s[(n + 1) + i - 1]
    <3>1. PICK m \in Int : m = n + 1
      BY <1>2
    <3>2. Len(s) \in Int /\ \A i \in m..Len(s) : s[i] \in Values
      BY <1>2, <3>1
    <3>3. /\ Len(SubSeq(s, m, Len(s))) = IF m <= Len(s) THEN Len(s) - m + 1 ELSE 0
          /\ \A i \in 1..(Len(s) - m + 1) : SubSeq(s, m, Len(s))[i] = s[m + i - 1]
      BY <3>2, SubSeqProperties
    <3>4. r = SubSeq(s, m, Len(s))
      BY <1>1, <3>1
    <3>5. /\ Len(r) = IF m <= Len(s) THEN Len(s) - m + 1 ELSE 0
          /\ \A i \in 1..(Len(s) - m + 1) : r[i] = s[m + i - 1]
      BY <3>3, <3>4, Zenon
    <3>6. (m <= Len(s) => Len(r) = Len(s) - m + 1) /\ (~(m <= Len(s)) => Len(r) = 0)
      BY <3>5
    <3>7. PICK size \in Nat : size = Len(s) /\ n \in Nat /\ n <= size
      BY <1>2, <1>d
    <3>8. Len(r) = size - n /\ size - m + 1 = size - n
      BY <3>1, <3>6, <3>7
    <3>9. \A i \in 1..(size - n) : r[i] = s[m + i - 1]
      BY <3>5, <3>7, <3>8
    <3> QED
      BY <3>1, <3>7, <3>8, <3>9
  <2>3. DOMAIN r = 1..Len(r)
    BY <2>1, LenProperties
  <2>4. \A i \in 1..Len(r) : (n + 1) + i - 1 = i + n
    BY <1>2
  <2> QED
    BY <1>d, <2>2, <2>3, <2>4
<1>4. \A i \in 1..n : i \in DOMAIN s /\ taken[i] = s[i]
  BY <1>2, <1>c
<1>5. \A i \in DOMAIN r : i + n \in DOMAIN s /\ r[i] = s[i + n] /\ i + n \notin 1..n
  BY <1>2, <1>3
<1>6. Distinct(r)
  <2> SUFFICES ASSUME NEW i \in DOMAIN r, NEW j \in DOMAIN r, r[i] = r[j] PROVE i = j
    BY DEF Distinct
  <2>1. i + n = j + n
    BY <1>5 DEF Distinct
  <2> QED
    BY <1>2, <1>3, <2>1
<1>7. Range(taken) \subseteq Range(s)
  BY <1>2, <1>4 DEF Range
<1>8. ASSUME NEW y \in Range(r) PROVE y \in Range(s) \ Range(taken)
  <2>1. PICK i \in DOMAIN r : y = r[i]
    BY DEF Range
  <2>2. i + n \in DOMAIN s /\ y = s[i + n] /\ i + n \notin 1..n
    BY <1>5, <2>1
  <2>3. \A j \in 1..n : s[j] # y
    BY <1>4, <2>2 DEF Distinct
  <2>4. y \notin Range(taken)
    BY <1>2, <1>4, <2>3 DEF Range
  <2>5. y \in Range(s)
    BY <2>2 DEF Range
  <2> QED
    BY <2>4, <2>5
<1>9. ASSUME NEW y \in Range(s), y \notin Range(taken) PROVE y \in Range(r)
  <2>1. PICK i \in DOMAIN s : y = s[i]
    BY DEF Range
  <2>2. i \notin 1..n
    BY <1>2, <1>4, <1>9, <2>1 DEF Range
  <2>3. i - n \in DOMAIN r /\ r[i - n] = y
    BY <1>2, <1>3, <2>1, <2>2
  <2> QED
    BY <2>3 DEF Range
<1>10. Range(r) = Range(s) \ Range(taken)
  BY <1>8, <1>9
<1>11. ASSUME NEW v \in Values
       PROVE  Times(v, taken) = IF v \in Range(taken) THEN 1 ELSE 0
  <2>1. CASE v \in Range(taken)
    <3>1. PICK i \in DOMAIN taken : v = taken[i]
      BY <2>1 DEF Range
    <3>2. {j \in DOMAIN taken : taken[j] = v} = {i}
      <4>1. ASSUME NEW j \in DOMAIN taken, taken[j] = v PROVE j = i
        BY <1>2, <1>4, <3>1, <4>1 DEF Distinct
      <4> QED
        BY <3>1, <4>1
    <3> QED
      BY <2>1, <3>2, FS_Singleton DEF Times
  <2>2. CASE v \notin Range(taken)
    <3>1. {j \in DOMAIN taken : taken[j] = v} = {}
      BY <2>2 DEF Range
    <3> QED
      BY <2>2, <3>1, FS_EmptySet DEF Times
  <2> QED
    BY <2>1, <2>2
<1> QED
  BY <1>1, <1>6, <1>7, <1>10, <1>11 DEF n

(* The sets of values the lists hold.                                      *)
Lists == [k \in Keys |-> Range(elements[k])]

LEMMA PlacesTypes ==
  ASSUME TypeOK
  PROVE  /\ Lists \in [Keys -> SUBSET Values] /\ buf \in [Chans -> Msgs \cup {Empty}]
         /\ Popped \in SUBSET Values /\ pushed \in SUBSET Values
         /\ \A k \in Keys : Lists[k] = Range(elements[k]) /\ elements[k] \in Seq(Values)
<1>1. \A k \in Keys : elements[k] \in Seq(Values)
  BY DEF TypeOK
<1>2. \A k \in Keys : Range(elements[k]) \subseteq Values
  <2> SUFFICES ASSUME NEW k \in Keys, NEW i \in DOMAIN elements[k] PROVE elements[k][i] \in Values
    BY DEF Range
  <2>1. elements[k] \in Seq(Values)
    BY <1>1
  <2> QED
    BY <2>1
<1> QED
  BY <1>1, <1>2 DEF Lists, Popped, TypeOK, WaitersTypeOK

LEMMA NextPlacesTypes ==
  ASSUME TypeOK'
  PROVE  Lists' \in [Keys -> SUBSET Values] /\ \A k \in Keys : Lists'[k] = Range(elements'[k])
<1>1. ASSUME NEW k \in Keys PROVE Range(elements'[k]) \subseteq Values
  <2>1. elements'[k] \in Seq(Values)
    BY DEF TypeOK
  <2> QED
    BY <2>1 DEF Range
<1> QED
  BY <1>1 DEF Lists

LEMMA PushStoresPlaces ==
  ASSUME TypeOK, TypeOK', OnePlaceEach, NEW c \in Clients, NEW k \in Keys, NEW end \in {"L", "R"},
         NEW vs \in FreshBatches, PushStores(c, k, end, vs)
  PROVE  OnePlaceEach'
<1> DEFINE o == InOrder(end, vs)
<1>1. /\ o \in Seq(Values) /\ Distinct(o) /\ Range(o) = Range(vs)
      /\ Range(vs) \cap pushed = {} /\ Range(vs) \subseteq Values
  BY BatchType, BatchDistinct
<1>2. /\ elements'[k] = Join(end, o, elements[k]) /\ popped' = popped /\ buf' = buf
      /\ \A l \in Keys \ {k} : elements'[l] = elements[l]
      /\ pushed' = pushed \cup Range(vs)
  BY DEF PushStores, AddTo, waitVars, TypeOK
<1> HIDE DEF o
<1>3. /\ elements[k] \in Seq(Values) /\ Distinct(elements[k]) /\ Range(elements[k]) \subseteq pushed
      /\ Apart(Lists, buf, Popped, pushed)
  BY PlacesTypes DEF OnePlaceEach, Apart, Lists
<1>4. /\ Distinct(elements'[k]) /\ Range(elements'[k]) = Range(elements[k]) \cup Range(vs)
  <2>1. Range(o) \cap Range(elements[k]) = {}
    BY <1>1, <1>3
  <2>2. /\ Distinct(Join(end, o, elements[k]))
        /\ Range(Join(end, o, elements[k])) = Range(o) \cup Range(elements[k])
    <3>1. o \in Seq(Values) /\ Distinct(o)
      BY <1>1
    <3>2. elements[k] \in Seq(Values) /\ Distinct(elements[k])
      BY <1>3
    <3> QED
      BY <2>1, <3>1, <3>2, JoinDistinct
  <2> QED
    BY <1>1, <1>2, <2>2
<1>5. Popped' = Popped
  BY <1>2 DEF Popped
<1>6. /\ Lists' \in [Keys -> SUBSET Values] /\ Lists'[k] = Lists[k] \cup Range(vs)
      /\ \A l \in Keys \ {k} : Lists'[l] = Lists[l]
  <2>1. Lists' \in [Keys -> SUBSET Values] /\ \A l \in Keys : Lists'[l] = Range(elements'[l])
    BY NextPlacesTypes
  <2> QED
    BY <1>2, <1>4, <2>1, PlacesTypes
<1>7. Apart(Lists', buf, Popped, pushed \cup Range(vs))
  BY <1>1, <1>3, <1>6, PlacesTypes, ApartPush
<1>8. Apart(Lists, buf, Popped, pushed)'
  BY <1>2, <1>5, <1>7
<1> QED
  BY <1>2, <1>4, <1>8 DEF OnePlaceEach, Lists

LEMMA PushServesPlaces ==
  ASSUME TypeOK, TypeOK', QueueInv, OnePlaceEach, NEW c \in Clients, NEW k \in Keys,
         NEW end \in {"L", "R"}, NEW vs \in FreshBatches, PushServes(c, k, end, vs)
  PROVE  OnePlaceEach'
<1> DEFINE o == InOrder(end, vs)
           ch == Head(blockingClients[k])
           v == Head(o)
<1>1. /\ o \in Seq(Values) /\ o # <<>> /\ Distinct(o) /\ Range(o) = Range(vs)
      /\ Range(vs) \cap pushed = {} /\ Range(vs) \subseteq Values
  BY BatchType, BatchDistinct
<1>2. /\ Distinct(Tail(o)) /\ Range(Tail(o)) = Range(vs) \ {v} /\ v \in Range(vs) /\ v \in Values
      /\ Tail(o) \in Seq(Values)
  BY <1>1, TailDistinct, HeadTailProperties
<1>3. ch \in Chans
  <2>1. blockingClients[k] \in Seq(Chans) /\ blockingClients[k] # <<>>
    BY DEF PushServes, TypeOK, WaitersTypeOK
  <2> QED
    BY <2>1, HeadTailProperties
<1>a. elements' = [elements EXCEPT ![k] = Join(end, Leftover(o), @)]
  BY AddOthersIs DEF PushServes, TypeOK
<1>4. /\ elements'[k] = Join(end, Tail(o), elements[k]) /\ popped' = popped
      /\ \A l \in Keys \ {k} : elements'[l] = elements[l]
      /\ buf[ch] = Empty /\ buf'[ch] = v /\ \A h \in Chans \ {ch} : buf'[h] = buf[h]
      /\ pushed' = pushed \cup Range(vs)
  BY <1>3, <1>a DEF PushServes, Leftover, TypeOK, WaitersTypeOK
<1> HIDE DEF o, ch, v
<1>5. /\ elements[k] \in Seq(Values) /\ Distinct(elements[k]) /\ Range(elements[k]) \subseteq pushed
      /\ Apart(Lists, buf, Popped, pushed)
  BY PlacesTypes DEF OnePlaceEach, Apart, Lists
<1>6. /\ Distinct(elements'[k])
      /\ Range(elements'[k]) = Range(elements[k]) \cup (Range(vs) \ {v})
  <2>1. Range(Tail(o)) \cap Range(elements[k]) = {}
    BY <1>1, <1>2, <1>5
  <2>2. PICK t \in Seq(Values) : t = Tail(o)
    BY <1>2
  <2>3. Distinct(t) /\ Range(t) \cap Range(elements[k]) = {}
    BY <1>2, <2>1, <2>2
  <2>4. elements'[k] = Join(end, t, elements[k])
    BY <1>4, <2>2
  <2>5. /\ Distinct(elements'[k])
        /\ Range(elements'[k]) = Range(elements[k]) \cup Range(t)
    BY <1>5, <2>3, <2>4, JoinDistinct
  <2> QED
    BY <1>2, <2>2, <2>5
<1>7. Popped' = Popped
  BY <1>4 DEF Popped
<1>8. /\ Lists' \in [Keys -> SUBSET Values] /\ Lists'[k] = Lists[k] \cup (Range(vs) \ {v})
      /\ \A l \in Keys \ {k} : Lists'[l] = Lists[l]
  BY <1>4, <1>6, NextPlacesTypes, PlacesTypes
<1>9. buf' \in [Chans -> Msgs \cup {Empty}]
  BY DEF TypeOK, WaitersTypeOK
<1>10. Apart(Lists, buf', Popped, pushed \cup {v})
  <2>1. v \notin pushed
    BY <1>1, <1>2
  <2> QED
    BY <1>2, <1>3, <1>4, <1>5, <1>9, <2>1, PlacesTypes, ApartHandOver
<1>11. Apart(Lists', buf', Popped, (pushed \cup {v}) \cup (Range(vs) \ {v}))
  <2>1. (Range(vs) \ {v}) \cap (pushed \cup {v}) = {} /\ pushed \cup {v} \in SUBSET Values
    BY <1>1, <1>2, PlacesTypes
  <2> QED
    BY <1>1, <1>8, <1>9, <1>10, <2>1, PlacesTypes, ApartPush
<1>12. (pushed \cup {v}) \cup (Range(vs) \ {v}) = pushed'
  BY <1>2, <1>4
<1>13. Apart(Lists, buf, Popped, pushed)'
  BY <1>7, <1>11, <1>12
<1> QED
  BY <1>4, <1>5, <1>6, <1>13 DEF OnePlaceEach, Lists

LEMMA BLPopNowPlaces ==
  ASSUME TypeOK, TypeOK', OnePlaceEach, NEW c \in Clients, NEW k \in Keys, BLPopNow(c, k)
  PROVE  OnePlaceEach'
<1> DEFINE v == Head(elements[k])
<1>1. elements[k] \in Seq(Values) /\ elements[k] # <<>> /\ Distinct(elements[k])
  BY PlacesTypes DEF BLPopNow, OnePlaceEach
<1>2. /\ Distinct(Tail(elements[k])) /\ Range(Tail(elements[k])) = Range(elements[k]) \ {v}
      /\ v \in Range(elements[k]) /\ v \in Values
  BY <1>1, TailDistinct
<1>3. /\ elements'[k] = Tail(elements[k]) /\ \A l \in Keys \ {k} : elements'[l] = elements[l]
      /\ popped' = [popped EXCEPT ![v] = @ + 1] /\ buf' = buf /\ pushed' = pushed
  BY DEF BLPopNow, waitVars, TypeOK
<1> HIDE DEF v
<1>4. Apart(Lists, buf, Popped, pushed) /\ \A l \in Keys : Distinct(elements[l])
  BY DEF OnePlaceEach, Lists
<1>5. v \notin Popped /\ popped \in [Values -> Nat] /\ \A w \in Values : popped[w] \in {0, 1}
  BY <1>2, <1>4, PlacesTypes DEF Apart, TypeOK, OnePlaceEach
<1>6. popped[v] = 0 /\ Popped' = Popped \cup {v} /\ \A w \in Values : popped'[w] \in {0, 1}
  BY <1>2, <1>3, <1>5 DEF Popped
<1>7. /\ Lists' \in [Keys -> SUBSET Values] /\ Lists'[k] = Lists[k] \ {v}
      /\ \A l \in Keys \ {k} : Lists'[l] = Lists[l]
  BY <1>2, <1>3, NextPlacesTypes, PlacesTypes
<1>8. Apart(Lists', buf, Popped \cup {v}, pushed)
  <2>1. {v} \subseteq Lists[k] /\ {v} \in SUBSET Values
    BY <1>2, PlacesTypes
  <2> QED
    BY <1>4, <1>7, <2>1, PlacesTypes, ApartPop
<1>9. Apart(Lists, buf, Popped, pushed)'
  BY <1>3, <1>6, <1>8
<1> QED
  BY <1>2, <1>3, <1>4, <1>6, <1>9 DEF OnePlaceEach, Lists

LEMMA TakePlaces ==
  ASSUME TypeOK, TypeOK', OnePlaceEach, NEW c \in Clients, myChan[c] \in Chans, Drain(c),
         popped' = Reply(popped, buf[myChan[c]]), elements' = elements, pushed' = pushed
  PROVE  OnePlaceEach'
<1> DEFINE ch == myChan[c]
           msg == buf[ch]
<1>1. /\ ch \in Chans /\ buf'[ch] = Empty /\ \A h \in Chans \ {ch} : buf'[h] = buf[h]
      /\ buf' \in [Chans -> Msgs \cup {Empty}]
      /\ popped' = IF msg \in Values THEN [popped EXCEPT ![msg] = @ + 1] ELSE popped
  BY DEF Drain, Reply, TypeOK, WaitersTypeOK
<1> HIDE DEF ch
<1>2. Apart(Lists, buf, Popped, pushed) /\ \A l \in Keys : Distinct(elements[l])
  BY DEF OnePlaceEach, Lists
<1>3. /\ msg \notin Popped /\ popped \in [Values -> Nat]
      /\ \A w \in Values : popped[w] \in {0, 1}
  BY <1>1, <1>2 DEF Apart, TypeOK, OnePlaceEach
<1>4. Apart(Lists, buf', Popped \cup ({msg} \cap Values), pushed)
  BY <1>1, <1>2, PlacesTypes, ApartTake
<1> HIDE DEF msg
<1>5. /\ Popped' = Popped \cup ({msg} \cap Values) /\ \A w \in Values : popped'[w] \in {0, 1}
  <2>1. CASE msg \in Values
    <3>1. popped[msg] = 0 /\ popped' = [popped EXCEPT ![msg] = @ + 1]
      BY <1>1, <1>3, <2>1 DEF Popped
    <3>2. \A w \in Values : popped'[w] = IF w = msg THEN 1 ELSE popped[w]
      BY <1>3, <3>1
    <3> QED
      BY <1>3, <2>1, <3>2 DEF Popped
  <2>2. CASE msg \notin Values
    <3>1. popped' = popped /\ {msg} \cap Values = {}
      BY <1>1, <2>2
    <3> QED
      BY <1>3, <3>1 DEF Popped
  <2> QED
    BY <2>1, <2>2
<1>6. Lists' = Lists
  BY DEF Lists
<1>7. Apart(Lists, buf, Popped, pushed)'
  BY <1>4, <1>5, <1>6
<1> QED
  BY <1>2, <1>5, <1>7 DEF OnePlaceEach, Lists

LEMMA LPopStoresPlaces ==
  ASSUME TypeOK, TypeOK', QueueInv, OnePlaceEach, NEW c \in Clients, Prefix(c), LPopStores(c)
  PROVE  OnePlaceEach'
<1> DEFINE k == arg[c]
           out == Range(vals[c])
<1>1. /\ k \in Keys /\ elements[k] \in Seq(Values) /\ Distinct(elements[k])
      /\ vals[c] \in Seq(Values) /\ Len(vals[c]) <= Len(elements[k])
      /\ Copied(vals[c], elements[k])
      /\ rest[c] = SubSeq(elements[k], Len(vals[c]) + 1, Len(elements[k]))
  <2>1. k \in Keys /\ pc[c] = "lpopStore" /\ vals[c] \in Seq(Values)
    BY DEF LPopStores, QueueInv, BusyHasKey, TypeOK
  <2>2. elements[k] \in Seq(Values) /\ Distinct(elements[k])
    BY <2>1, PlacesTypes DEF OnePlaceEach
  <2>3. /\ Len(vals[c]) = want[c] /\ want[c] <= Len(elements[k]) /\ Copied(vals[c], elements[k])
        /\ rest[c] = SubSeq(elements[k], want[c] + 1, Len(elements[k]))
    BY <2>1 DEF Prefix
  <2> QED
    BY <2>1, <2>2, <2>3
<1>2. /\ Distinct(rest[c]) /\ Range(rest[c]) = Range(elements[k]) \ out
      /\ out \subseteq Range(elements[k])
      /\ \A v \in Values : Times(v, vals[c]) = IF v \in out THEN 1 ELSE 0
  BY <1>1, CutDistinct
<1>3. /\ elements' = [elements EXCEPT ![k] = rest[c]] /\ buf' = buf /\ pushed' = pushed
      /\ popped' = [v \in Values |-> popped[v] + Times(v, vals[c])]
  BY DEF LPopStores, StoreRest
<1>4. elements'[k] = rest[c] /\ \A l \in Keys \ {k} : elements'[l] = elements[l]
  BY <1>1, <1>3 DEF TypeOK
<1> HIDE DEF k, out
<1>5. Apart(Lists, buf, Popped, pushed) /\ \A l \in Keys : Distinct(elements[l])
  BY DEF OnePlaceEach, Lists
<1>6. /\ out \cap Popped = {} /\ out \subseteq Values /\ out \subseteq Lists[k]
      /\ \A w \in Values : popped[w] \in {0, 1}
  <2>1. out \subseteq Lists[k] /\ Lists[k] \subseteq Values
    BY <1>1, <1>2, PlacesTypes
  <2> QED
    BY <1>1, <1>5, <2>1 DEF Apart, OnePlaceEach
<1>7. Popped' = Popped \cup out /\ \A w \in Values : popped'[w] \in {0, 1}
  <2>1. \A w \in Values : popped'[w] = popped[w] + (IF w \in out THEN 1 ELSE 0)
    BY <1>2, <1>3
  <2>2. \A w \in out : popped[w] = 0
    BY <1>6 DEF Popped
  <2>3. \A w \in Values : popped'[w] = IF w \in out THEN 1 ELSE popped[w]
    BY <1>6, <2>1, <2>2
  <2> QED
    BY <1>6, <2>3 DEF Popped
<1>8. /\ Lists' \in [Keys -> SUBSET Values] /\ Lists'[k] = Lists[k] \ out
      /\ \A l \in Keys \ {k} : Lists'[l] = Lists[l]
  BY <1>1, <1>2, <1>4, NextPlacesTypes, PlacesTypes
<1>9. Apart(Lists', buf, Popped \cup out, pushed)
  BY <1>1, <1>5, <1>6, <1>8, PlacesTypes, ApartPop
<1>10. Apart(Lists, buf, Popped, pushed)'
  BY <1>3, <1>7, <1>9
<1> QED
  BY <1>2, <1>4, <1>5, <1>7, <1>10 DEF OnePlaceEach, Lists

LEMMA StepPlaces ==
  ASSUME TypeOK, TypeOK', QueueInv, LPopInv, PlacesInv, [ListNext]_vars
  PROVE  PlacesInv'
<1> SUFFICES ASSUME ~raced' PROVE OnePlaceEach'
  BY DEF PlacesInv
<1>0. ASSUME UNCHANGED <<elements, buf, popped, pushed>>, raced' = raced
      PROVE  OnePlaceEach'
  BY <1>0 DEF PlacesInv, OnePlaceEach, Popped
<1>1. CASE UNCHANGED vars
  BY <1>0, <1>1 DEF vars, waitVars, listVars
<1>2. ASSUME NEW c \in Clients, CallPush(c) PROVE OnePlaceEach'
  <2>1. PICK k \in Keys, end \in {"L", "R"}, vs \in FreshBatches :
          PushStores(c, k, end, vs) \/ PushServes(c, k, end, vs) \/ PushBlocks(c, k, end, vs)
    BY <1>2 DEF CallPush
  <2>2. CASE PushStores(c, k, end, vs)
    <3>1. OnePlaceEach
      BY <2>2 DEF PushStores, AddTo, WritesElements, PlacesInv
    <3> QED
      BY <2>2, <3>1, PushStoresPlaces
  <2>3. CASE PushServes(c, k, end, vs)
    <3>1. OnePlaceEach
      BY <2>3, AddOthersIs DEF PushServes, PlacesInv, TypeOK
    <3> QED
      BY <2>3, <3>1, PushServesPlaces
  <2>4. CASE PushBlocks(c, k, end, vs)
    BY <2>4 DEF PushBlocks, QueueInv, RegisteredIsEmpty, TypeOK, WaitersTypeOK
  <2> QED
    BY <2>1, <2>2, <2>3, <2>4
<1>3. ASSUME NEW c \in Clients, CallBLPop(c) PROVE OnePlaceEach'
  <2>1. ASSUME NEW k \in Keys, BLPopNow(c, k) PROVE OnePlaceEach'
    <3>1. OnePlaceEach
      BY <2>1 DEF BLPopNow, WritesElements, PlacesInv
    <3> QED
      BY <2>1, <3>1, BLPopNowPlaces
  <2>2. ASSUME NEW k \in Keys, NEW ch \in Chans, NEW hasTimeout \in BOOLEAN,
               BLPopWaits(c, k, ch, hasTimeout)
        PROVE  OnePlaceEach'
    BY <1>0, <2>2 DEF BLPopWaits, StartWait
  <2> QED
    BY <1>3, <2>1, <2>2 DEF CallBLPop
<1>4. ASSUME NEW c \in Clients, CallLPop(c) PROVE OnePlaceEach'
  BY <1>0, <1>4 DEF CallLPop, LPopStarts
<1>5. ASSUME NEW c \in Clients, BLPopReceives(c) \/ BLPopGivesUp(c) PROVE OnePlaceEach'
  <2>1. myChan[c] \in Chans
    BY <1>5 DEF BLPopReceives, BLPopGivesUp, QueueInv, ChannelWhileWaiting, BLPopPCs
  <2>2. /\ Drain(c) /\ popped' = Reply(popped, buf[myChan[c]])
        /\ elements' = elements /\ pushed' = pushed /\ raced' = raced
    BY <1>5 DEF BLPopReceives, BLPopGivesUp, PollReply
  <2> QED
    BY <2>1, <2>2, TakePlaces DEF PlacesInv
<1>6. ASSUME NEW c \in Clients, BLPopTimesOut(c) PROVE OnePlaceEach'
  BY <1>0, <1>6 DEF BLPopTimesOut, TimerFires, listVars
<1>7. ASSUME NEW c \in Clients, LPopReads(c) \/ LPopSlices(c) PROVE OnePlaceEach'
  BY <1>0, <1>7 DEF LPopReads, LPopSlices, waitVars
<1>10. ASSUME NEW c \in Clients, LPopChecks(c) \/ LPopCompares(c) \/ LPopCuts(c)
       PROVE  OnePlaceEach'
  BY <1>0, <1>10 DEF LPopChecks, LPopCompares, LPopCuts, listVars
<1>8. ASSUME NEW c \in Clients, LPopStores(c) PROVE OnePlaceEach'
  <2>1. ~raced
    BY <1>8 DEF LPopStores, WritesElements
  <2>2. OnePlaceEach /\ Prefix(c)
    BY <1>8, <2>1 DEF PlacesInv, LPopInv, Settled, LPopStores
  <2> QED
    BY <1>8, <2>2, LPopStoresPlaces
<1>9. ASSUME NEW c \in Clients, PushResumes(c) PROVE OnePlaceEach'
  BY <1>9 DEF PushResumes, QueueInv, NoPushInFlight
<1> QED
  BY <1>1, <1>2, <1>3, <1>4, <1>5, <1>6, <1>7, <1>8, <1>9, <1>10
  DEF ListNext, ListProgress

(* The places of a value, when each value has one at most.                 *)
InListPlaces(v) ==
  UNION {{<<k, i>> : i \in {j \in DOMAIN elements[k] : elements[k][j] = v}} : k \in Keys}
InChanPlaces(v) == {ch \in Chans : buf[ch] = v}
InPushPlaces(v) == {c \in Clients : pc[c] = "pushSend" /\ v \in Range(vals[c])}

LEMMA PlacesSplit ==
  ASSUME NEW v
  PROVE  Places(v) = InListPlaces(v) \cup InChanPlaces(v) \cup InPushPlaces(v)
BY Zenon DEF Places, InListPlaces, InChanPlaces, InPushPlaces

LEMMA OneCopy ==
  ASSUME TypeOK, QueueInv, OnePlaceEach, NEW v \in Values
  PROVE  Copies(v) = IF v \in pushed THEN 1 ELSE 0
<1> DEFINE InLists == InListPlaces(v)
           InChans == InChanPlaces(v)
<1>1. Apart(Lists, buf, Popped, pushed) /\ \A k \in Keys : Distinct(elements[k])
  BY DEF OnePlaceEach, Lists
<1>2. Places(v) = InLists \cup InChans
  <2>1. InPushPlaces(v) = {}
    BY DEF QueueInv, NoPushInFlight, InPushPlaces
  <2> QED
    BY <2>1, PlacesSplit
<1>3. popped[v] \in {0, 1} /\ (popped[v] = 1 <=> v \in Popped)
  BY DEF OnePlaceEach, Popped
<1>4. ASSUME NEW k \in Keys, v \in Lists[k]
      PROVE  \E p : InLists = {p}
  <2>1. PICK i \in DOMAIN elements[k] : elements[k][i] = v
    BY <1>4, PlacesTypes DEF Range
  <2>2. ASSUME NEW l \in Keys, NEW j \in DOMAIN elements[l], elements[l][j] = v
        PROVE  l = k /\ j = i
    <3>1. v \in Lists[l]
      BY <2>2, PlacesTypes DEF Range
    <3>2. l = k
      BY <1>1, <1>4, <3>1 DEF Apart
    <3> QED
      BY <1>1, <2>1, <2>2, <3>2 DEF Distinct
  <2>3. \A l \in Keys : {j \in DOMAIN elements[l] : elements[l][j] = v} =
                          IF l = k THEN {i} ELSE {}
    BY <2>1, <2>2
  <2>4. InLists = {<<k, i>>}
    BY <2>3 DEF InListPlaces
  <2> QED
    BY <2>4
<1>5. ASSUME \A k \in Keys : v \notin Lists[k]
      PROVE  InLists = {}
  <2>1. \A l \in Keys : {j \in DOMAIN elements[l] : elements[l][j] = v} = {}
    BY <1>5, PlacesTypes DEF Range
  <2> QED
    BY <2>1 DEF InListPlaces
<1>6. ASSUME NEW ch \in Chans, buf[ch] = v
      PROVE  InChans = {ch}
  BY <1>1, <1>6 DEF Apart, InChanPlaces
<1>a. ASSUME \A ch \in Chans : buf[ch] # v
      PROVE  InChans = {}
  BY <1>a DEF InChanPlaces
<1>7. CASE v \in Popped
  <2>1. v \in pushed /\ InLists = {} /\ InChans = {}
    BY <1>1, <1>5, <1>7, <1>a DEF Apart
  <2>2. Cardinality(Places(v)) = 0
    BY <1>2, <2>1, FS_EmptySet
  <2> QED
    BY <1>3, <1>7, <2>1, <2>2 DEF Copies
<1>8. CASE v \notin Popped /\ v \in pushed
  <2>1. \E p : Places(v) = {p}
    <3>1. CASE \E k \in Keys : v \in Lists[k]
      <4>1. InChans = {}
        BY <1>1, <3>1, <1>a DEF Apart
      <4> QED
        BY <1>2, <1>4, <3>1, <4>1
    <3>2. CASE ~ \E k \in Keys : v \in Lists[k]
      <4>1. PICK ch \in Chans : buf[ch] = v
        BY <1>1, <1>8, <3>2 DEF Apart
      <4>2. InChans = {ch} /\ InLists = {}
        BY <1>5, <1>6, <3>2, <4>1
      <4> QED
        BY <1>2, <4>2
    <3> QED
      BY <3>1, <3>2
  <2>2. Cardinality(Places(v)) = 1
    BY <2>1, FS_Singleton
  <2> QED
    BY <1>3, <1>8, <2>2 DEF Copies
<1>9. CASE v \notin pushed
  <2>1. v \notin Popped /\ InLists = {} /\ InChans = {}
    BY <1>1, <1>5, <1>9, <1>a DEF Apart
  <2>2. Cardinality(Places(v)) = 0
    BY <1>2, <2>1, FS_EmptySet
  <2> QED
    BY <1>3, <1>9, <2>1, <2>2 DEF Copies
<1> QED
  BY <1>7, <1>8, <1>9

(* No value is lost or handed out twice, by timeouts that race a send      *)
(* either, unless an LPOP was overtaken (store.go:417-428, 453-471).       *)
THEOREM ValuesConserved == Spec => []Conservation
<1>1. Init => PlacesInv
  <2> SUFFICES ASSUME Init PROVE OnePlaceEach
    BY DEF PlacesInv
  <2>1. /\ \A k \in Keys : elements[k] = <<>> /\ Range(elements[k]) = {}
        /\ \A ch \in Chans : buf[ch] = Empty
        /\ \A v \in Values : popped[v] = 0
        /\ pushed = {}
    BY DEF Init, WaitersInit, ListInit, Range
  <2>2. Popped = {} /\ Empty \notin Values
    BY <2>1, WaitersAssumption DEF Popped
  <2>3. [k \in Keys |-> Range(elements[k])] = [k \in Keys |-> {}]
    BY <2>1
  <2>4. Apart([k \in Keys |-> {}], buf, Popped, pushed)
    BY <2>1, <2>2 DEF Apart
  <2>5. \A k \in Keys : Distinct(elements[k])
    BY <2>1 DEF Distinct
  <2>6. Apart([k \in Keys |-> Range(elements[k])], buf, Popped, pushed)
    BY <2>3, <2>4
  <2> QED
    BY <2>1, <2>5, <2>6 DEF OnePlaceEach
<1>2. Init => LPopInv
  BY DEF Init, WaitersInit, ListInit, LPopInv, Settled
<1>3. TypeOK /\ TypeOK' /\ QueueInv /\ LPopInv /\ PlacesInv /\ [ListNext]_vars
        => LPopInv' /\ PlacesInv'
  BY StepLPops, StepPlaces
<1>4. TypeOK /\ QueueInv /\ PlacesInv => Conservation
  BY OneCopy DEF PlacesInv, Conservation
<1> QED
  BY <1>1, <1>2, <1>3, <1>4, QueuesConsistent, PTL DEF Spec

-----------------------------------------------------------------------------
(* Who is left waiting beside a non-empty list.                            *)

(* Two values of a batch make two new values.                              *)
LEMMA TwoOrMore ==
  ASSUME NEW vs \in FreshBatches, NEW end \in {"L", "R"},
         Leftover(InOrder(end, vs)) # <<>>
  PROVE  Cardinality((pushed \cup Range(vs)) \ pushed) > 1
<1>1. PICK n \in 1..MaxBatch : vs \in [1..n -> Values \ pushed] /\ IsInjective(vs)
  BY DEF FreshBatches
<1>2. n \in Nat /\ n >= 1
  BY ListOpsAssumption
<1>3. vs \in Seq(Values) /\ Len(vs) = n
  BY <1>1, <1>2
<1>4. InOrder(end, vs) \in Seq(Values) /\ Len(InOrder(end, vs)) = n
  BY <1>2, <1>3 DEF InOrder, Reverse
<1>5. n >= 2
  <2>1. InOrder(end, vs) # <<>>
    BY <1>2, <1>4
  <2>2. Len(Tail(InOrder(end, vs))) = n - 1 /\ Tail(InOrder(end, vs)) \in Seq(Values)
    BY <1>4, <2>1, HeadTailProperties
  <2> QED
    BY <1>2, <2>2 DEF Leftover
<1>6. vs[1] # vs[2] /\ {vs[1], vs[2]} \subseteq Range(vs)
  <2>1. 1 \in 1..n /\ 2 \in 1..n /\ DOMAIN vs = 1..n
    BY <1>1, <1>2, <1>5
  <2> QED
    BY <1>1, <2>1 DEF Range, IsInjective
<1>7. (pushed \cup Range(vs)) \ pushed = Range(vs)
  BY <1>1 DEF Range
<1>8. IsFiniteSet(Range(vs))
  <2>1. IsFiniteSet(1..n)
    BY <1>2, FS_Interval
  <2>2. vs \in Surjection(1..n, Range(vs))
    BY <1>1 DEF Range, Surjection
  <2> QED
    BY <2>1, <2>2, FS_Surjection
<1>9. Cardinality({vs[1], vs[2]}) = 2
  <2>1. IsFiniteSet({vs[1]}) /\ Cardinality({vs[1]}) = 1
    BY FS_Singleton, Zenon
  <2>2. Cardinality({vs[1]} \cup {vs[2]}) = 2
    <3>1. vs[2] \notin {vs[1]}
      BY <1>6
    <3>2. Cardinality({vs[1]} \cup {vs[2]}) =
            IF vs[2] \in {vs[1]} THEN Cardinality({vs[1]}) ELSE Cardinality({vs[1]}) + 1
      BY <2>1, FS_AddElement, Zenon
    <3> QED
      BY <2>1, <3>1, <3>2
  <2>3. {vs[1]} \cup {vs[2]} = {vs[1], vs[2]}
    OBVIOUS
  <2> QED
    BY <2>2, <2>3
<1>10. Cardinality(Range(vs)) >= 2 /\ Cardinality(Range(vs)) \in Nat
  <2>1. Cardinality({vs[1], vs[2]}) <= Cardinality(Range(vs))
    BY <1>6, <1>8, FS_Subset
  <2>2. Cardinality(Range(vs)) \in Nat
    BY <1>8, FS_CardinalityType
  <2>3. 2 <= Cardinality(Range(vs))
    BY <1>9, <2>1, Zenon
  <2> QED
    BY <2>2, <2>3
<1>11. Cardinality(Range(vs)) > 1
  BY <1>10
<1> QED
  BY <1>7, <1>11, Zenon

LEMMA StepStrands ==
  ASSUME TypeOK, QueueInv, LPopInv, [ListNext]_vars, ~raced', NEW k \in Keys,
         elements'[k] # <<>>, blockingClients'[k] # <<>>,
         elements[k] = <<>> \/ blockingClients[k] = <<>>
  PROVE  Cardinality(pushed' \ pushed) > 1
<1>t. /\ elements \in [Keys -> Seq(Values)] /\ blockingClients \in [Keys -> Seq(Chans)]
  BY DEF TypeOK, WaitersTypeOK
<1>0. ~(elements' = elements /\ blockingClients' = blockingClients)
  OBVIOUS
<1>1. ASSUME NEW c \in Clients, CallPush(c) PROVE Cardinality(pushed' \ pushed) > 1
  <2>1. PICK l \in Keys, end \in {"L", "R"}, vs \in FreshBatches :
          PushStores(c, l, end, vs) \/ PushServes(c, l, end, vs) \/ PushBlocks(c, l, end, vs)
    BY <1>1 DEF CallPush
  <2>2. CASE PushStores(c, l, end, vs)
    BY <1>t, <2>2 DEF PushStores, AddTo, waitVars
  <2>3. CASE PushServes(c, l, end, vs)
    <3> DEFINE left == Leftover(InOrder(end, vs))
    <3>1. /\ blockingClients[l] # <<>> /\ \A j \in Keys \ {l} : blockingClients'[j] = blockingClients[j]
          /\ elements' = [elements EXCEPT ![l] = Join(end, left, @)]
          /\ pushed' = pushed \cup Range(vs)
      <4>1. elements' = [elements EXCEPT ![l] = Join(end, left, @)]
        <5>1. AddOthers(c, l, end, InOrder(end, vs))
          BY <2>3 DEF PushServes
        <5>2. raced \in BOOLEAN /\ entries \in SUBSET Keys
          BY DEF TypeOK
        <5> QED
          BY <1>t, <5>1, <5>2, AddOthersIs
      <4> QED
        BY <1>t, <2>3, <4>1 DEF PushServes
    <3> HIDE DEF left
    <3>2. l = k
      BY <1>t, <3>1
    <3>3. elements[k] = <<>> /\ elements'[k] = Join(end, left, <<>>)
      BY <1>t, <3>1, <3>2
    <3>4. left # <<>>
      BY <3>3 DEF Join
    <3> QED
      BY <3>1, <3>4, TwoOrMore DEF left
  <2>4. CASE PushBlocks(c, l, end, vs)
    BY <2>4 DEF PushBlocks, QueueInv, RegisteredIsEmpty, TypeOK, WaitersTypeOK
  <2> QED
    BY <2>1, <2>2, <2>3, <2>4
<1>2. ASSUME NEW c \in Clients, CallBLPop(c) PROVE FALSE
  <2>1. ASSUME NEW l \in Keys, BLPopNow(c, l) PROVE FALSE
    BY <1>t, <2>1 DEF BLPopNow, waitVars
  <2>2. ASSUME NEW l \in Keys, NEW ch \in Chans, NEW hasTimeout \in BOOLEAN,
               BLPopWaits(c, l, ch, hasTimeout)
        PROVE  FALSE
    BY <1>t, <2>2 DEF BLPopWaits, StartWait, WaitsOn
  <2> QED
    BY <1>2, <2>1, <2>2 DEF CallBLPop
<1>3. ASSUME NEW c \in Clients,
             \/ CallLPop(c) \/ BLPopReceives(c) \/ BLPopTimesOut(c)
             \/ LPopReads(c) \/ LPopSlices(c) \/ PushResumes(c)
             \/ LPopChecks(c) \/ LPopCompares(c) \/ LPopCuts(c)
      PROVE  FALSE
  BY <1>0, <1>3 DEF CallLPop, LPopChecks, LPopCompares, LPopCuts, LPopStarts, BLPopReceives, BLPopTimesOut, TimerFires, listVars,
                    LPopReads, LPopSlices, waitVars, PushResumes, QueueInv, NoPushInFlight
<1>4. ASSUME NEW c \in Clients, BLPopGivesUp(c) PROVE FALSE
  <2>1. /\ elements' = elements
        /\ blockingClients' = [blockingClients EXCEPT ![arg[c]] = Unregister(@, myChan[c])]
    BY <1>4 DEF BLPopGivesUp
  <2>2. Unregister(<<>>, myChan[c]) = <<>>
    BY DEF Unregister, RemoveFirst
  <2> QED
    BY <1>t, <2>1, <2>2
<1>5. ASSUME NEW c \in Clients, LPopStores(c) PROVE FALSE
  <2>1. /\ pc[c] = "lpopStore" /\ blockingClients' = blockingClients
        /\ elements' = [elements EXCEPT ![arg[c]] = rest[c]] /\ ~raced
    BY <1>5 DEF LPopStores, StoreRest, WritesElements
  <2>2. /\ want[c] <= Len(elements[arg[c]])
        /\ rest[c] = SubSeq(elements[arg[c]], want[c] + 1, Len(elements[arg[c]]))
    BY <2>1 DEF LPopInv, Settled, Prefix
  <2>3. k = arg[c] /\ elements[k] = <<>> /\ rest[c] # <<>>
    BY <1>t, <2>1
  <2>4. want[c] \in Nat
    <3>1. vals[c] \in Seq(Values) /\ Len(vals[c]) = want[c]
      BY <1>5, <2>1 DEF LPopInv, Settled, Prefix, TypeOK
    <3> QED
      BY <3>1, LenProperties
  <2>5. rest[c] = SubSeq(<<>>, want[c] + 1, 0)
    BY <2>2, <2>3
  <2> QED
    BY <2>3, <2>4, <2>5
<1> QED
  <2>1. PICK c \in Clients : CallPush(c) \/ CallBLPop(c) \/ CallLPop(c) \/ ListProgress(c)
    BY <1>0 DEF ListNext, vars, waitVars, listVars
  <2> QED
    BY <2>1, <1>1, <1>2, <1>3, <1>4, <1>5 DEF ListProgress

(* A client is left waiting beside a non-empty list only by a push of      *)
(* several values (store.go:453-471): no other step of any command does it.*)
THEOREM StrandedByBatches == Spec => OnlyBatchStrands
<1>1. TypeOK /\ QueueInv /\ LPopInv /\ [ListNext]_vars
        => \A k \in Keys : Stranded(k)' /\ ~Stranded(k) /\ ~raced'
             => Cardinality(pushed' \ pushed) > 1
  BY StepStrands DEF Stranded
<1>2. Spec => [](TypeOK /\ QueueInv /\ LPopInv)
  <2>1. Init => LPopInv
    BY DEF Init, WaitersInit, ListInit, LPopInv, Settled
  <2>2. TypeOK /\ QueueInv /\ LPopInv /\ [ListNext]_vars => LPopInv'
    BY StepLPops
  <2> QED
    BY <2>1, <2>2, QueuesConsistent, PTL DEF Spec
<1> QED
  BY <1>1, <1>2, PTL DEF Spec, OnlyBatchStrands

-----------------------------------------------------------------------------
(* ListOps without LPOP implements ListPromise.                            *)

(* q lists the clients that wait on the channels of a queue, mine telling  *)
(* the channel of each client.                                             *)
OwnersOf(q, queue, mine) ==
  /\ q \in Seq(Clients) /\ Len(q) = Len(queue)
  /\ \A i \in 1..Len(queue) : mine[q[i]] = queue[i]
OneEach(mine) == \A c, d \in Clients : c # d /\ mine[c] # NoChan => mine[c] # mine[d]
OwnedQueue(queue, mine) == \A i \in DOMAIN queue : \E c \in Clients : mine[c] = queue[i]

LEMMA OwnersUnique ==
  ASSUME NEW mine, OneEach(mine), NEW queue \in Seq(Chans), NEW q, NEW r,
         OwnersOf(q, queue, mine), OwnersOf(r, queue, mine)
  PROVE  q = r
<1>1. /\ q \in Seq(Clients) /\ r \in Seq(Clients)
      /\ Len(q) = Len(queue) /\ Len(r) = Len(queue) /\ Len(queue) \in Nat
  BY DEF OwnersOf
<1>2. ASSUME NEW i \in 1..Len(queue) PROVE q[i] = r[i]
  <2>1. mine[q[i]] = queue[i] /\ mine[r[i]] = queue[i]
    BY DEF OwnersOf
  <2>2. queue[i] \in Chans /\ q[i] \in Clients /\ r[i] \in Clients
    BY <1>1
  <2> QED
    BY <2>1, <2>2, WaitersAssumption DEF OneEach
<1> QED
  BY <1>1, <1>2, SeqEqual

(* The owners CHOOSE finds are these.                                      *)
LEMMA OwnersAre ==
  ASSUME NEW mine \in [Clients -> Chans \cup {NoChan}], OneEach(mine),
         NEW queue \in Seq(Chans), OwnedQueue(queue, mine)
  PROVE  OwnersOf([i \in DOMAIN queue |-> CHOOSE c \in Clients : mine[c] = queue[i]],
                  queue, mine)
<1> DEFINE q == [i \in DOMAIN queue |-> CHOOSE c \in Clients : mine[c] = queue[i]]
<1>1. DOMAIN queue = 1..Len(queue) /\ Len(queue) \in Nat
  OBVIOUS
<1>2. ASSUME NEW i \in 1..Len(queue) PROVE q[i] \in Clients /\ mine[q[i]] = queue[i]
  BY <1>1 DEF OwnedQueue
<1>3. q \in Seq(Clients) /\ Len(q) = Len(queue)
  BY <1>1, <1>2
<1> QED
  BY <1>2, <1>3 DEF OwnersOf

LEMMA OwnersTail ==
  ASSUME NEW mine, NEW queue \in Seq(Chans), queue # <<>>, NEW q, OwnersOf(q, queue, mine)
  PROVE  /\ OwnersOf(Tail(q), Tail(queue), mine)
         /\ q # <<>> /\ Head(q) = q[1] /\ Head(q) \in Clients /\ mine[Head(q)] = Head(queue)
<1>1. /\ q \in Seq(Clients) /\ Len(q) = Len(queue) /\ Len(queue) \in Nat /\ Len(queue) >= 1
      /\ \A i \in 1..Len(queue) : mine[q[i]] = queue[i]
  BY DEF OwnersOf
<1>2. q # <<>>
  BY <1>1
<1>3. /\ Tail(q) \in Seq(Clients) /\ Len(Tail(q)) = Len(queue) - 1
      /\ Len(Tail(queue)) = Len(queue) - 1
      /\ \A i \in 1..(Len(queue) - 1) : Tail(q)[i] = q[i + 1] /\ Tail(queue)[i] = queue[i + 1]
      /\ Head(q) = q[1] /\ Head(queue) = queue[1] /\ Head(q) \in Clients
  BY <1>1, <1>2, HeadTailProperties
<1>4. \A i \in 1..(Len(queue) - 1) : i + 1 \in 1..Len(queue)
  BY <1>1
<1>5. 1 \in 1..Len(queue)
  BY <1>1
<1>6. \A i \in 1..(Len(queue) - 1) : mine[Tail(q)[i]] = Tail(queue)[i]
  BY <1>1, <1>3, <1>4
<1> QED
  BY <1>1, <1>2, <1>3, <1>5, <1>6 DEF OwnersOf

LEMMA OwnersAppend ==
  ASSUME NEW mine \in [Clients -> Chans \cup {NoChan}], NEW queue \in Seq(Chans), NEW q,
         OwnersOf(q, queue, mine), NEW c \in Clients, NEW ch \in Chans, mine[c] = NoChan
  PROVE  OwnersOf(Append(q, c), Append(queue, ch), [mine EXCEPT ![c] = ch])
<1> DEFINE new == [mine EXCEPT ![c] = ch]
<1>1. /\ q \in Seq(Clients) /\ Len(q) = Len(queue) /\ Len(queue) \in Nat
      /\ \A i \in 1..Len(queue) : mine[q[i]] = queue[i] /\ q[i] \in Clients /\ queue[i] \in Chans
  BY DEF OwnersOf
<1>2. \A i \in 1..Len(queue) : q[i] # c
  BY <1>1, WaitersAssumption
<1>3. /\ Append(q, c) \in Seq(Clients)
      /\ Len(Append(q, c)) = Len(queue) + 1 /\ Len(Append(queue, ch)) = Len(queue) + 1
      /\ Append(q, c)[Len(queue) + 1] = c /\ Append(queue, ch)[Len(queue) + 1] = ch
      /\ \A i \in 1..Len(queue) : Append(q, c)[i] = q[i] /\ Append(queue, ch)[i] = queue[i]
  BY <1>1, AppendProperties
<1>4. new[c] = ch /\ \A d \in Clients \ {c} : new[d] = mine[d]
  OBVIOUS
<1> HIDE DEF new
<1>5. ASSUME NEW i \in 1..(Len(queue) + 1) PROVE new[Append(q, c)[i]] = Append(queue, ch)[i]
  <2>1. i \in 1..Len(queue) \/ i = Len(queue) + 1
    BY <1>1
  <2>2. CASE i \in 1..Len(queue)
    BY <1>1, <1>2, <1>3, <1>4, <2>2
  <2>3. CASE i = Len(queue) + 1
    BY <1>3, <1>4, <2>3
  <2> QED
    BY <2>1, <2>2, <2>3
<1>6. OwnersOf(Append(q, c), Append(queue, ch), new)
  BY <1>3, <1>5 DEF OwnersOf
<1> QED
  BY <1>6 DEF new

(* A client that stops waiting takes its channel with it.                  *)
LEMMA OwnersRemove ==
  ASSUME NEW mine \in [Clients -> Chans \cup {NoChan}], OneEach(mine),
         NEW queue \in Seq(Chans), \A i, j \in DOMAIN queue : i # j => queue[i] # queue[j],
         NEW q, OwnersOf(q, queue, mine),
         NEW c \in Clients, mine[c] \in Chans, NEW m \in DOMAIN queue, queue[m] = mine[c]
  PROVE  /\ OwnersOf(RemoveFirst(q, c), RemoveFirst(queue, mine[c]), [mine EXCEPT ![c] = NoChan])
         /\ c \in Range(q)
<1> DEFINE new == [mine EXCEPT ![c] = NoChan]
           ch == mine[c]
<1>1. /\ q \in Seq(Clients) /\ Len(q) = Len(queue) /\ Len(queue) \in Nat
      /\ DOMAIN queue = 1..Len(queue) /\ DOMAIN q = 1..Len(queue)
      /\ \A i \in 1..Len(queue) : mine[q[i]] = queue[i] /\ q[i] \in Clients
  BY DEF OwnersOf
<1>2. q[m] = c /\ m \in 1..Len(queue) /\ ch # NoChan
  BY <1>1, WaitersAssumption DEF OneEach
<1>3. PICK r : r = RemoveFirst(q, c)
  OBVIOUS
<1>4. PICK s : s = RemoveFirst(queue, ch)
  OBVIOUS
<1>5. PICK n \in 1..Len(q) :
        /\ q[n] = c /\ r \in Seq(Clients) /\ Len(r) = Len(q) - 1
        /\ \A i \in 1..(Len(q) - 1) : r[i] = IF i < n THEN q[i] ELSE q[i + 1]
  <2>1. CutsOne(r, q, c, Clients)
    BY <1>1, <1>2, <1>3, RemoveFirstCuts
  <2> QED
    BY <2>1 DEF CutsOne
<1>6. PICK h \in 1..Len(queue) :
        /\ queue[h] = ch /\ s \in Seq(Chans) /\ Len(s) = Len(queue) - 1
        /\ \A i \in 1..(Len(queue) - 1) : s[i] = IF i < h THEN queue[i] ELSE queue[i + 1]
  <2>1. CutsOne(s, queue, ch, Chans)
    BY <1>1, <1>2, <1>4, RemoveFirstCuts
  <2> QED
    BY <2>1 DEF CutsOne
<1>7. n = h
  <2>1. queue[n] = queue[h] /\ n \in DOMAIN queue /\ h \in DOMAIN queue
    BY <1>1, <1>5, <1>6
  <2> QED
    BY <2>1
<1>8. \A i \in 1..Len(queue) : i # n => q[i] # c
  <2>1. \A i \in 1..Len(queue) : q[i] = c => queue[i] = queue[n]
    BY <1>1, <1>5
  <2> QED
    BY <1>1, <1>5, <2>1
<1>9. new[c] = NoChan /\ \A d \in Clients \ {c} : new[d] = mine[d]
  OBVIOUS
<1> HIDE DEF new, ch
<1>10. ASSUME NEW i \in 1..(Len(queue) - 1) PROVE new[r[i]] = s[i]
  <2>1. i \in 1..Len(queue) /\ i + 1 \in 1..Len(queue) /\ n \in Nat
    BY <1>1, <1>5
  <2>2. CASE i < n
    BY <1>1, <1>5, <1>6, <1>7, <1>8, <1>9, <2>1, <2>2
  <2>3. CASE ~(i < n)
    <3>1. i + 1 # n
      BY <2>1, <2>3
    <3> QED
      BY <1>1, <1>5, <1>6, <1>7, <1>8, <1>9, <2>1, <2>3, <3>1
  <2> QED
    BY <2>2, <2>3
<1>11. OwnersOf(r, s, new)
  BY <1>1, <1>5, <1>6, <1>10 DEF OwnersOf
<1>12. c \in Range(q)
  BY <1>1, <1>2 DEF Range
<1> QED
  BY <1>3, <1>4, <1>11, <1>12 DEF new, ch

(* The queue of owners of every key, now and after a step.                 *)
InQueueTypes ==
  /\ InQueue \in [Keys -> Seq(Clients)]
  /\ \A k \in Keys : OwnersOf(InQueue[k], blockingClients[k], myChan)

LEMMA InQueueIs == TypeOK /\ QueueInv => InQueueTypes
<1> SUFFICES ASSUME TypeOK, QueueInv PROVE InQueueTypes
  OBVIOUS
<1>1. ASSUME NEW k \in Keys
      PROVE  OwnersOf(InQueue[k], blockingClients[k], myChan)
  <2>1. OwnedQueue(blockingClients[k], myChan)
    BY DEF QueueInv, RegisteredIsEmpty, OwnedQueue
  <2>2. InQueue[k] = [i \in DOMAIN blockingClients[k] |->
                        CHOOSE c \in Clients : myChan[c] = blockingClients[k][i]]
    BY DEF InQueue, Owner
  <2>3. blockingClients[k] \in Seq(Chans) /\ myChan \in [Clients -> Chans \cup {NoChan}]
    BY DEF TypeOK, WaitersTypeOK
  <2>4. OneEach(myChan)
    BY DEF OneEach, QueueInv, OneOwner
  <2> HIDE DEF TypeOK, QueueInv
  <2> QED
    BY <2>1, <2>2, <2>3, <2>4, OwnersAre
<1>2. DOMAIN InQueue = Keys /\ \A k \in Keys : InQueue[k] \in Seq(Clients)
  BY <1>1 DEF OwnersOf, InQueue
<1>3. InQueue = [k \in Keys |-> InQueue[k]]
  BY DEF InQueue
<1> QED
  BY <1>1, <1>2, <1>3 DEF InQueueTypes

(* After a step that leaves the other queues and their owners alone, it is *)
(* enough to find the owners of the queue that changed.                    *)
LEMMA InQueueBecomes ==
  ASSUME InQueueTypes, InQueueTypes', TypeOK', QueueInv', NEW k \in Keys, NEW q,
         OwnersOf(q, blockingClients'[k], myChan'),
         \A l \in Keys \ {k} : OwnersOf(InQueue[l], blockingClients'[l], myChan')
  PROVE  InQueue' = [InQueue EXCEPT ![k] = q]
<1>1. OneEach(myChan') /\ \A l \in Keys : blockingClients'[l] \in Seq(Chans)
  BY DEF OneEach, QueueInv, OneOwner, TypeOK, WaitersTypeOK
<1>2. \A l \in Keys : OwnersOf(InQueue'[l], blockingClients'[l], myChan')
  BY DEF InQueueTypes
<1>3. InQueue'[k] = q
  BY <1>1, <1>2, OwnersUnique
<1>4. \A l \in Keys \ {k} : InQueue'[l] = InQueue[l]
  BY <1>1, <1>2, OwnersUnique
<1>5. InQueue \in [Keys -> Seq(Clients)] /\ InQueue' \in [Keys -> Seq(Clients)]
  BY DEF InQueueTypes
<1> QED
  BY <1>3, <1>4, <1>5

(* The whole state that the promise sees.                                  *)
PromiseInv == /\ \A c \in Clients : ~InLPop(c)
              /\ \A ch \in Chans : buf[ch] # StreamID

HandedIs(h, mine, slots) ==
  /\ h = [c \in Clients |-> h[c]]
  /\ \A c \in Clients : h[c] = IF mine[c] = NoChan THEN Empty ELSE slots[mine[c]]

LEMMA HandedNow == HandedIs(Handed, myChan, buf)
BY DEF Handed, HandedIs

LEMMA HandedNext == HandedIs(Handed', myChan', buf')
BY DEF Handed, HandedIs

(* A batch of a push is a batch of the promise.                            *)
LEMMA PromiseBatch ==
  ASSUME NEW vs \in FreshBatches, NEW end \in {"L", "R"}
  PROVE  /\ InOrder(end, vs) \in Promise!Batches
         /\ \A list : Join(end, InOrder(end, vs), list) \in Promise!Ends(InOrder(end, vs), list)
         /\ \A list : Join(end, Leftover(InOrder(end, vs)), list)
                        \in Promise!Ends(Tail(InOrder(end, vs)), list)
<1>1. PICK n \in 1..MaxBatch : vs \in [1..n -> Values \ pushed]
  BY DEF FreshBatches
<1>2. n \in Nat /\ n >= 1 /\ vs \in [1..n -> Values]
  BY <1>1, ListOpsAssumption
<1>3. vs \in Seq(Values) /\ Len(vs) = n
  BY <1>2
<1>4. Reverse(vs) \in [1..n -> Values]
  <2>1. Reverse(vs) = [i \in 1..n |-> vs[(n - i) + 1]]
    BY <1>3 DEF Reverse
  <2>2. \A i \in 1..n : (n - i) + 1 \in 1..n
    BY <1>2
  <2> QED
    BY <1>2, <2>1, <2>2
<1>5. InOrder(end, vs) \in [1..n -> Values]
  BY <1>2, <1>4 DEF InOrder
<1>6. InOrder(end, vs) \in Promise!Batches
  BY <1>5 DEF Promise!Batches
<1>7. \A a, list : Join(end, a, list) \in Promise!Ends(a, list)
  BY DEF Join, Promise!Ends
<1> QED
  BY <1>6, <1>7 DEF Leftover

LEMMA PushStoresKept ==
  ASSUME NEW c \in Clients, NEW k \in Keys, NEW end \in {"L", "R"}, NEW vs \in FreshBatches,
         TypeOK, QueueInv, PushStores(c, k, end, vs)
  PROVE  Promise!Next
<1>1. /\ blockingClients[k] = <<>> /\ blockingClients' = blockingClients /\ popped' = popped
      /\ buf' = buf /\ myChan' = myChan
      /\ elements' = [elements EXCEPT ![k] = Join(end, InOrder(end, vs), @)]
  BY DEF PushStores, AddTo, waitVars
<1>2. InQueue' = InQueue /\ Handed' = Handed
  BY <1>1 DEF InQueue, Owner, Handed
<1>3. InQueue[k] = <<>>
  BY <1>1 DEF InQueue
<1>4. /\ InOrder(end, vs) \in Promise!Batches
      /\ Join(end, InOrder(end, vs), elements[k]) \in Promise!Ends(InOrder(end, vs), elements[k])
  BY PromiseBatch
<1>5. Promise!Store(k, InOrder(end, vs))
  BY <1>1, <1>2, <1>3, <1>4 DEF Promise!Store
<1> QED
  BY <1>4, <1>5 DEF Promise!Next

LEMMA PushServesKept ==
  ASSUME NEW c \in Clients, NEW k \in Keys, NEW end \in {"L", "R"}, NEW vs \in FreshBatches,
         TypeOK, TypeOK', QueueInv, QueueInv', PushServes(c, k, end, vs)
  PROVE  Promise!Next
<1> DEFINE batch == InOrder(end, vs)
           ch == Head(blockingClients[k])
           d == Head(InQueue[k])
<1>1. /\ blockingClients[k] # <<>> /\ buf[ch] = Empty
      /\ buf' = [buf EXCEPT ![ch] = Head(batch)]
      /\ elements' = [elements EXCEPT ![k] = Join(end, Leftover(batch), @)]
      /\ blockingClients' = [blockingClients EXCEPT ![k] = Tail(@)]
      /\ popped' = popped /\ myChan' = myChan
  <2>1. AddOthers(c, k, end, batch)
    BY DEF PushServes
  <2>2. /\ elements \in [Keys -> Seq(Values)] /\ raced \in BOOLEAN /\ entries \in SUBSET Keys
    BY DEF TypeOK
  <2>3. elements' = [elements EXCEPT ![k] = Join(end, Leftover(batch), @)]
    BY <2>1, <2>2, AddOthersIs
  <2> QED
    BY <2>3 DEF PushServes, Served
<1>2. /\ batch \in Promise!Batches
      /\ Join(end, Leftover(batch), elements[k]) \in Promise!Ends(Tail(batch), elements[k])
  BY PromiseBatch
<1> HIDE DEF batch
<1>3. InQueueTypes /\ InQueueTypes'
  <2>1. (TypeOK /\ QueueInv => InQueueTypes)'
    BY InQueueIs, PTL
  <2> QED
    BY <2>1, InQueueIs
<1>4. blockingClients[k] \in Seq(Chans) /\ blockingClients \in [Keys -> Seq(Chans)]
  BY DEF TypeOK, WaitersTypeOK
<1>5. /\ OwnersOf(Tail(InQueue[k]), Tail(blockingClients[k]), myChan)
      /\ InQueue[k] # <<>> /\ d \in Clients /\ myChan[d] = ch
  <2>1. OwnersOf(InQueue[k], blockingClients[k], myChan)
    BY <1>3 DEF InQueueTypes
  <2>2. blockingClients[k] # <<>> /\ blockingClients[k] \in Seq(Chans)
    BY <1>1, <1>4
  <2> HIDE DEF ch, d
  <2>3. /\ OwnersOf(Tail(InQueue[k]), Tail(blockingClients[k]), myChan)
        /\ InQueue[k] # <<>> /\ Head(InQueue[k]) \in Clients
        /\ myChan[Head(InQueue[k])] = Head(blockingClients[k])
    <3>1. PICK q : q = InQueue[k]
      OBVIOUS
    <3>2. PICK w : w = blockingClients[k]
      OBVIOUS
    <3>3. PICK mine : mine = myChan
      OBVIOUS
    <3>4. OwnersOf(q, w, mine) /\ w \in Seq(Chans) /\ w # <<>>
      BY <2>1, <2>2, <3>1, <3>2, <3>3
    <3>5. /\ OwnersOf(Tail(q), Tail(w), mine)
          /\ q # <<>> /\ Head(q) \in Clients /\ mine[Head(q)] = Head(w)
      BY <3>4, OwnersTail
    <3> QED
      BY <3>1, <3>2, <3>3, <3>5
  <2> QED
    BY <2>3 DEF ch, d
<1>6. InQueue' = [InQueue EXCEPT ![k] = Tail(InQueue[k])]
  <2>1. OwnersOf(Tail(InQueue[k]), blockingClients'[k], myChan')
    BY <1>1, <1>4, <1>5
  <2>2. \A l \in Keys \ {k} : OwnersOf(InQueue[l], blockingClients'[l], myChan')
    BY <1>1, <1>3, <1>4 DEF InQueueTypes
  <2> QED
    BY <1>3, <2>1, <2>2, InQueueBecomes
<1>7. Handed' = [Handed EXCEPT ![d] = Head(batch)] /\ Handed[d] = Empty
  <2>1. ch \in Chans /\ ch # NoChan
    BY <1>1, <1>4, HeadTailProperties, WaitersAssumption
  <2>2. buf'[ch] = Head(batch) /\ \A h \in Chans \ {ch} : buf'[h] = buf[h]
    BY <1>1, <2>1 DEF TypeOK, WaitersTypeOK
  <2>3. \A e \in Clients \ {d} : myChan[e] # ch
    BY <1>5, <2>1 DEF QueueInv, OneOwner
  <2>4. \A e \in Clients : myChan[e] \in Chans \cup {NoChan}
    BY DEF TypeOK, WaitersTypeOK
  <2> HIDE DEF d, ch
  <2>5. Handed'[d] = Head(batch) /\ Handed[d] = Empty
    BY <1>1, <1>5, <2>1, <2>2, HandedNow, HandedNext DEF HandedIs
  <2>6. \A e \in Clients \ {d} : Handed'[e] = Handed[e]
    BY <1>1, <2>2, <2>3, <2>4, HandedNow, HandedNext DEF HandedIs
  <2>7. Handed = [e \in Clients |-> Handed[e]] /\ Handed' = [e \in Clients |-> Handed'[e]]
    BY HandedNow, HandedNext DEF HandedIs
  <2> QED
    BY <1>5, <2>5, <2>6, <2>7
<1>8. Promise!HandOver(k, batch)
  BY <1>1, <1>2, <1>5, <1>6, <1>7 DEF Promise!HandOver
<1> QED
  BY <1>2, <1>8 DEF Promise!Next

LEMMA BLPopNowKept ==
  ASSUME NEW c \in Clients, NEW k \in Keys, TypeOK, BLPopNow(c, k)
  PROVE  Promise!Next
<1>1. /\ elements[k] # <<>> /\ elements' = [elements EXCEPT ![k] = Tail(@)]
      /\ popped' = [popped EXCEPT ![Head(elements[k])] = @ + 1]
      /\ blockingClients' = blockingClients /\ buf' = buf /\ myChan' = myChan
  BY DEF BLPopNow, waitVars
<1>2. InQueue' = InQueue /\ Handed' = Handed
  BY <1>1 DEF InQueue, Owner, Handed
<1>3. Promise!PopHead(k)
  BY <1>1, <1>2 DEF Promise!PopHead
<1> QED
  BY <1>3 DEF Promise!Next

(* Nobody who is not waiting is in a queue.                                *)
LEMMA InQueueWaits ==
  ASSUME TypeOK, QueueInv, InQueueTypes, NEW c \in Clients, NEW k \in Keys,
         NEW i \in DOMAIN InQueue[k], InQueue[k][i] = c
  PROVE  /\ i \in DOMAIN blockingClients[k] /\ myChan[c] = blockingClients[k][i]
         /\ myChan[c] \in Chans /\ myChan[c] # NoChan /\ buf[myChan[c]] = Empty
<1>1. OwnersOf(InQueue[k], blockingClients[k], myChan)
  BY DEF InQueueTypes
<1>2. blockingClients[k] \in Seq(Chans)
  BY DEF TypeOK, WaitersTypeOK
<1>3. i \in 1..Len(blockingClients[k]) /\ myChan[c] = blockingClients[k][i]
  BY <1>1, <1>2 DEF OwnersOf
<1>4. i \in DOMAIN blockingClients[k] /\ blockingClients[k][i] \in Chans
  BY <1>2, <1>3
<1>5. buf[blockingClients[k][i]] = Empty
  BY <1>4 DEF QueueInv, RegisteredIsEmpty
<1> QED
  BY <1>3, <1>4, <1>5, WaitersAssumption

LEMMA BLPopWaitsKept ==
  ASSUME NEW c \in Clients, NEW k \in Keys, NEW ch \in Chans, NEW hasTimeout \in BOOLEAN,
         TypeOK, TypeOK', QueueInv, QueueInv', BLPopWaits(c, k, ch, hasTimeout)
  PROVE  Promise!Next
<1>1. /\ elements[k] = <<>> /\ elements' = elements /\ popped' = popped /\ buf' = buf
      /\ myChan' = [myChan EXCEPT ![c] = ch]
      /\ blockingClients' = [blockingClients EXCEPT ![k] = Append(@, ch)]
      /\ pc[c] = "idle" /\ made[ch] = "none"
  BY DEF BLPopWaits, WaitsOn, StartWait
<1>2. /\ myChan \in [Clients -> Chans \cup {NoChan}]
      /\ blockingClients \in [Keys -> Seq(Chans)]
  BY DEF TypeOK, WaitersTypeOK
<1>3. myChan[c] = NoChan /\ buf[ch] = Empty /\ \A d \in Clients : myChan[d] # ch
  BY <1>1, WaitersAssumption DEF QueueInv, ChannelWhileWaiting, BLPopPCs, NewIsEmpty
<1>4. InQueueTypes /\ InQueueTypes'
  <2>1. (TypeOK /\ QueueInv => InQueueTypes)'
    BY InQueueIs, PTL
  <2> QED
    BY <2>1, InQueueIs
<1>5. ~Promise!Waiting(c)
  <2>1. ASSUME NEW l \in Keys, NEW i \in DOMAIN InQueue[l], InQueue[l][i] = c PROVE FALSE
    BY <1>3, <1>4, <2>1, InQueueWaits
  <2> QED
    BY <2>1 DEF Promise!Waiting, Promise!Range
<1>6. InQueue' = [InQueue EXCEPT ![k] = Append(InQueue[k], c)]
  <2>1. PICK q : q = InQueue[k]
    OBVIOUS
  <2>2. PICK w : w = blockingClients[k]
    OBVIOUS
  <2>3. PICK mine : mine = myChan
    OBVIOUS
  <2>4. OwnersOf(Append(q, c), Append(w, ch), [mine EXCEPT ![c] = ch])
    <3>1. OwnersOf(q, w, mine) /\ w \in Seq(Chans)
      BY <1>2, <1>4, <2>1, <2>2, <2>3 DEF InQueueTypes
    <3>2. mine \in [Clients -> Chans \cup {NoChan}] /\ mine[c] = NoChan
      BY <1>2, <1>3, <2>3
    <3> QED
      BY <3>1, <3>2, OwnersAppend
  <2>5. OwnersOf(Append(InQueue[k], c), blockingClients'[k], myChan')
    BY <1>1, <1>2, <2>1, <2>2, <2>3, <2>4
  <2>6. ASSUME NEW l \in Keys \ {k}
        PROVE  OwnersOf(InQueue[l], blockingClients'[l], myChan')
    <3>1. OwnersOf(InQueue[l], blockingClients[l], myChan)
      BY <1>4 DEF InQueueTypes
    <3>2. blockingClients'[l] = blockingClients[l] /\ blockingClients[l] \in Seq(Chans)
      BY <1>1, <1>2
    <3>3. \A i \in 1..Len(blockingClients[l]) :
            InQueue[l][i] \in Clients /\ InQueue[l][i] # c
      <4>1. \A i \in 1..Len(blockingClients[l]) :
              /\ InQueue[l][i] \in Clients /\ myChan[InQueue[l][i]] = blockingClients[l][i]
              /\ blockingClients[l][i] \in Chans
        BY <3>1, <3>2 DEF OwnersOf
      <4> QED
        BY <1>3, <4>1, WaitersAssumption
    <3>4. \A d \in Clients : d # c => myChan'[d] = myChan[d]
      BY <1>1, <1>2
    <3> QED
      BY <3>1, <3>2, <3>3, <3>4 DEF OwnersOf
  <2> QED
    BY <1>4, <2>5, <2>6, InQueueBecomes
<1>7. Handed[c] = Empty /\ Handed' = Handed
  <2>1. myChan'[c] = ch /\ \A d \in Clients : d # c => myChan'[d] = myChan[d]
    BY <1>1, <1>2
  <2>2. \A d \in Clients : Handed'[d] = Handed[d]
    BY <1>1, <1>3, <2>1, HandedNow, HandedNext, WaitersAssumption DEF HandedIs
  <2>3. Handed = [e \in Clients |-> Handed[e]] /\ Handed' = [e \in Clients |-> Handed'[e]]
    BY HandedNow, HandedNext DEF HandedIs
  <2>4. Handed[c] = Empty
    BY <1>3, HandedNow DEF HandedIs
  <2> QED
    BY <2>2, <2>3, <2>4
<1>8. Promise!Wait(c, k)
  BY <1>1, <1>5, <1>6, <1>7 DEF Promise!Wait
<1> QED
  BY <1>8 DEF Promise!Next

(* The end of a wait: a client takes what it was handed; with an empty     *)
(* channel it can only leave the queue.                                    *)
LEMMA DrainHanded ==
  ASSUME TypeOK, QueueInv, NEW c \in Clients, myChan[c] \in Chans, Drain(c),
         myChan' = [myChan EXCEPT ![c] = NoChan]
  PROVE  /\ Handed[c] = buf[myChan[c]] /\ Handed' = [Handed EXCEPT ![c] = Empty]
         /\ buf[myChan[c]] = Empty => Handed' = Handed
<1>1. /\ buf' = [buf EXCEPT ![myChan[c]] = Empty]
      /\ buf \in [Chans -> Msgs \cup {Empty}] /\ myChan \in [Clients -> Chans \cup {NoChan}]
      /\ myChan[c] # NoChan
  BY WaitersAssumption DEF Drain, TypeOK, WaitersTypeOK
<1>2. \A d \in Clients \ {c} : myChan[d] # myChan[c] /\ myChan'[d] = myChan[d]
  BY <1>1 DEF QueueInv, OneOwner
<1>3. \A ch \in Chans : buf'[ch] = IF ch = myChan[c] THEN Empty ELSE buf[ch]
  BY <1>1
<1>4. myChan'[c] = NoChan
  BY <1>1
<1>5. Handed[c] = buf[myChan[c]] /\ Handed'[c] = Empty
  BY <1>1, <1>4, HandedNow, HandedNext DEF HandedIs
<1>6. \A d \in Clients \ {c} : Handed'[d] = Handed[d]
  BY <1>1, <1>2, <1>3, HandedNow, HandedNext DEF HandedIs
<1>7. Handed = [e \in Clients |-> Handed[e]] /\ Handed' = [e \in Clients |-> Handed'[e]]
  BY HandedNow, HandedNext DEF HandedIs
<1> QED
  BY <1>5, <1>6, <1>7

LEMMA TakeKept ==
  ASSUME TypeOK, TypeOK', QueueInv, QueueInv', PromiseInv,
         NEW c \in Clients, myChan[c] \in Chans, buf[myChan[c]] # Empty, Drain(c),
         myChan' = [myChan EXCEPT ![c] = NoChan], popped' = Reply(popped, buf[myChan[c]]),
         blockingClients' = blockingClients, elements' = elements
  PROVE  Promise!Next
<1>1. Handed[c] = buf[myChan[c]] /\ Handed' = [Handed EXCEPT ![c] = Empty]
  BY DrainHanded
<1>2. buf[myChan[c]] \in Values
  BY DEF TypeOK, WaitersTypeOK, Msgs, PromiseInv
<1>3. popped' = [popped EXCEPT ![Handed[c]] = @ + 1] /\ Handed[c] # Empty
  BY <1>1, <1>2 DEF Reply
<1>4. InQueueTypes /\ InQueueTypes'
  <2>1. (TypeOK /\ QueueInv => InQueueTypes)'
    BY InQueueIs, PTL
  <2> QED
    BY <2>1, InQueueIs
<1>5. ASSUME NEW k \in Keys PROVE InQueue'[k] = InQueue[k]
  <2>1. OwnersOf(InQueue[k], blockingClients[k], myChan)
    BY <1>4 DEF InQueueTypes
  <2>2. \A i \in DOMAIN InQueue[k] : InQueue[k][i] # c
    BY <1>4, InQueueWaits
  <2>3. \A d \in Clients : d # c => myChan'[d] = myChan[d]
    BY DEF TypeOK, WaitersTypeOK
  <2>4. blockingClients[k] \in Seq(Chans)
    BY DEF TypeOK, WaitersTypeOK
  <2>5. OwnersOf(InQueue[k], blockingClients'[k], myChan')
    <3>1. \A i \in 1..Len(blockingClients[k]) : i \in DOMAIN InQueue[k] /\ InQueue[k][i] \in Clients
      BY <2>1, <2>4 DEF OwnersOf
    <3> QED
      BY <2>1, <2>2, <2>3, <3>1 DEF OwnersOf
  <2>6. OwnersOf(InQueue'[k], blockingClients'[k], myChan')
    BY <1>4 DEF InQueueTypes
  <2>7. OneEach(myChan')
    BY DEF OneEach, QueueInv, OneOwner
  <2> QED
    BY <2>4, <2>5, <2>6, <2>7, OwnersUnique
<1>6. InQueue' = InQueue
  <2>1. InQueue \in [Keys -> Seq(Clients)] /\ InQueue' \in [Keys -> Seq(Clients)]
    BY <1>4 DEF InQueueTypes
  <2> QED
    BY <1>5, <2>1
<1>7. Promise!Take(c)
  BY <1>1, <1>3, <1>6 DEF Promise!Take
<1> QED
  BY <1>7 DEF Promise!Next

LEMMA SameRemoveFirst ==
  ASSUME NEW q, NEW c
  PROVE  Promise!RemoveFirst(q, c) = RemoveFirst(q, c) /\ Promise!Range(q) = Range(q)
BY DEF RemoveFirst, Promise!RemoveFirst, SelectInSeq, Promise!SelectInSeq,
       RemoveAt, Promise!RemoveAt, Min, Promise!Min, Range, Promise!Range

LEMMA LeaveKept ==
  ASSUME TypeOK, TypeOK', QueueInv, QueueInv',
         NEW c \in Clients, BLPopGivesUp(c), myChan[c] \in Chans, buf[myChan[c]] = Empty
  PROVE  Promise!Next
<1> DEFINE k == arg[c]
<1>1. /\ k \in Keys /\ Drain(c) /\ myChan' = [myChan EXCEPT ![c] = NoChan]
      /\ blockingClients' = [blockingClients EXCEPT ![k] = RemoveFirst(@, myChan[c])]
      /\ popped' = popped /\ elements' = elements
  BY WaitersAssumption
  DEF BLPopGivesUp, EndWait, Unregister, PollReply, Reply, QueueInv, BusyHasKey
<1>2. PICK m \in DOMAIN blockingClients[k] : blockingClients[k][m] = myChan[c]
  BY DEF BLPopGivesUp, QueueInv, WaiterReachable
<1> HIDE DEF k
<1>3. Handed' = Handed
  BY <1>1, DrainHanded
<1>4. InQueueTypes /\ InQueueTypes'
  <2>1. (TypeOK /\ QueueInv => InQueueTypes)'
    BY InQueueIs, PTL
  <2> QED
    BY <2>1, InQueueIs
<1>5. /\ blockingClients \in [Keys -> Seq(Chans)] /\ myChan \in [Clients -> Chans \cup {NoChan}]
      /\ OneEach(myChan)
  BY DEF TypeOK, WaitersTypeOK, OneEach, QueueInv, OneOwner
<1>6. PICK mine : mine = myChan
  OBVIOUS
<1>7. /\ OwnersOf(RemoveFirst(InQueue[k], c), blockingClients'[k], myChan')
      /\ c \in Range(InQueue[k])
  <2>1. PICK q : q = InQueue[k]
    OBVIOUS
  <2>2. PICK w : w = blockingClients[k]
    OBVIOUS
  <2>3. OwnersOf(q, w, mine) /\ w \in Seq(Chans) /\ m \in DOMAIN w /\ w[m] = mine[c]
    BY <1>1, <1>2, <1>4, <1>5, <1>6, <2>1, <2>2 DEF InQueueTypes
  <2>4. \A i, j \in DOMAIN w : i # j => w[i] # w[j]
    BY <1>1, <2>2 DEF QueueInv, RegisteredOnce
  <2>5. mine \in [Clients -> Chans \cup {NoChan}] /\ OneEach(mine) /\ mine[c] \in Chans
    BY <1>5, <1>6
  <2>6. /\ OwnersOf(RemoveFirst(q, c), RemoveFirst(w, mine[c]), [mine EXCEPT ![c] = NoChan])
        /\ c \in Range(q)
    BY <2>3, <2>4, <2>5, OwnersRemove
  <2>7. blockingClients'[k] = RemoveFirst(w, mine[c]) /\ myChan' = [mine EXCEPT ![c] = NoChan]
    BY <1>1, <1>5, <1>6, <2>2
  <2> QED
    BY <2>1, <2>6, <2>7
<1>8. ASSUME NEW l \in Keys \ {k}
      PROVE  OwnersOf(InQueue[l], blockingClients'[l], myChan')
  <2>1. OwnersOf(InQueue[l], blockingClients[l], myChan)
    BY <1>4 DEF InQueueTypes
  <2>2. blockingClients'[l] = blockingClients[l] /\ blockingClients[l] \in Seq(Chans)
    BY <1>1, <1>5
  <2>3. \A i \in 1..Len(blockingClients[l]) :
          /\ InQueue[l][i] \in Clients /\ myChan[InQueue[l][i]] = blockingClients[l][i]
          /\ blockingClients[l][i] \in Chans
    BY <2>1, <2>2 DEF OwnersOf
  <2>4. ASSUME NEW i \in 1..Len(blockingClients[l]) PROVE InQueue[l][i] # c
    <3>1. i \in DOMAIN blockingClients[l]
      BY <2>2
    <3>2. myChan[c] = blockingClients[l][i] => arg[c] = l
      BY <3>1, OneQueue
    <3> QED
      BY <2>3, <3>2 DEF k
  <2>5. \A d \in Clients : d # c => myChan'[d] = myChan[d]
    BY <1>1, <1>5
  <2> QED
    BY <2>1, <2>2, <2>3, <2>4, <2>5 DEF OwnersOf
<1>9. InQueue' = [InQueue EXCEPT ![k] = RemoveFirst(InQueue[k], c)]
  BY <1>1, <1>4, <1>7, <1>8, InQueueBecomes
<1>10. Promise!Leave(c, k)
  BY <1>1, <1>3, <1>7, <1>9, SameRemoveFirst DEF Promise!Leave
<1> QED
  BY <1>1, <1>10 DEF Promise!Next

LEMMA StepPromise ==
  ASSUME TypeOK, TypeOK', QueueInv, QueueInv', PromiseInv, [ListNext]_vars
  PROVE  [Promise!Next]_(Promise!vars)
<1>0. ASSUME UNCHANGED <<blockingClients, myChan, buf, elements, popped>>
      PROVE  UNCHANGED Promise!vars
  BY <1>0 DEF Promise!vars, InQueue, Owner, Handed
<1>1. ASSUME NEW c \in Clients, CallPush(c) PROVE Promise!Next
  <2>1. PICK k \in Keys, end \in {"L", "R"}, vs \in FreshBatches :
          PushStores(c, k, end, vs) \/ PushServes(c, k, end, vs) \/ PushBlocks(c, k, end, vs)
    BY <1>1 DEF CallPush
  <2>2. ~PushBlocks(c, k, end, vs)
    BY DEF PushBlocks, QueueInv, RegisteredIsEmpty, TypeOK, WaitersTypeOK
  <2> QED
    BY <2>1, <2>2, PushStoresKept, PushServesKept
<1>2. ASSUME NEW c \in Clients, CallBLPop(c) PROVE Promise!Next
  BY <1>2, BLPopNowKept, BLPopWaitsKept DEF CallBLPop
<1>3. ASSUME NEW c \in Clients, BLPopReceives(c) PROVE Promise!Next
  <2>1. myChan[c] \in Chans
    BY <1>3 DEF BLPopReceives, QueueInv, ChannelWhileWaiting, BLPopPCs
  <2> QED
    BY <1>3, <2>1, TakeKept DEF BLPopReceives, EndWait
<1>4. ASSUME NEW c \in Clients, BLPopGivesUp(c) PROVE Promise!Next
  <2>1. myChan[c] \in Chans
    BY <1>4 DEF BLPopGivesUp, QueueInv, ChannelWhileWaiting, BLPopPCs
  <2>2. CASE buf[myChan[c]] = Empty
    BY <1>4, <2>1, <2>2, LeaveKept
  <2>3. CASE buf[myChan[c]] # Empty
    <3>1. arg[c] \in Keys /\ blockingClients \in [Keys -> Seq(Chans)]
      BY <1>4 DEF BLPopGivesUp, QueueInv, BusyHasKey, TypeOK, WaitersTypeOK
    <3>2. \A i \in 1..Len(blockingClients[arg[c]]) : blockingClients[arg[c]][i] # myChan[c]
      BY <2>3, <3>1 DEF QueueInv, RegisteredIsEmpty
    <3>3. Unregister(blockingClients[arg[c]], myChan[c]) = blockingClients[arg[c]]
      BY <3>2 DEF Unregister, RemoveFirst
    <3>4. blockingClients' = blockingClients
      BY <1>4, <3>1, <3>3 DEF BLPopGivesUp
    <3> QED
      BY <1>4, <2>1, <2>3, <3>4, TakeKept DEF BLPopGivesUp, EndWait, PollReply
  <2> QED
    BY <2>2, <2>3
<1>5. ASSUME NEW c \in Clients, BLPopTimesOut(c) PROVE UNCHANGED Promise!vars
  BY <1>0, <1>5 DEF BLPopTimesOut, TimerFires, listVars
<1>6. ASSUME NEW c \in Clients, CallLPop(c) PROVE UNCHANGED Promise!vars
  BY <1>0, <1>6 DEF CallLPop, LPopStarts
<1>7. ASSUME NEW c \in Clients,
             \/ PushResumes(c)
             \/ LPopChecks(c) \/ LPopCompares(c) \/ LPopCuts(c)
             \/ LPopReads(c) \/ LPopSlices(c) \/ LPopStores(c)
      PROVE  FALSE
  <2>1. pc[c] # "pushSend" /\ pc[c] \notin LPopPCs
    BY DEF QueueInv, NoPushInFlight, PromiseInv, InLPop
  <2> QED
    BY <1>7, <2>1 DEF PushResumes, LPopChecks, LPopCompares, LPopCuts, LPopReads, LPopSlices,
                      LPopStores, LPopPCs
<1>8. CASE UNCHANGED vars
  BY <1>0, <1>8 DEF vars, waitVars, listVars
<1> QED
  BY <1>1, <1>2, <1>3, <1>4, <1>5, <1>6, <1>7, <1>8 DEF ListNext, ListProgress

(* List commands send values only, and nobody enters LPOP.                 *)
LEMMA StepPromiseInv ==
  ASSUME PopCounts = {}, TypeOK, QueueInv, PromiseInv, [ListNext]_vars
  PROVE  PromiseInv'
<1> USE DEF InLPop
<1>t. /\ pc \in [Clients -> ListPCs] /\ buf \in [Chans -> Msgs \cup {Empty}]
      /\ Empty # StreamID /\ StreamID \notin Values
  BY WaitersAssumption DEF TypeOK, WaitersTypeOK
<1>0. ASSUME pc' = pc \/ \E c \in Clients, to \in ListPCs \ LPopPCs :
                           pc' = [pc EXCEPT ![c] = to],
             buf' = buf \/ \E ch \in Chans, msg \in Values \cup {Empty} :
                             buf' = [buf EXCEPT ![ch] = msg]
      PROVE  PromiseInv'
  <2>1. \A c \in Clients : pc'[c] \notin LPopPCs
    BY <1>t, <1>0 DEF PromiseInv
  <2>2. \A ch \in Chans : buf'[ch] # StreamID
    BY <1>t, <1>0 DEF PromiseInv
  <2> QED
    BY <2>1, <2>2 DEF PromiseInv
<1>1. ASSUME NEW c \in Clients, CallPush(c) PROVE PromiseInv'
  <2>1. PICK k \in Keys, end \in {"L", "R"}, vs \in FreshBatches :
          PushStores(c, k, end, vs) \/ PushServes(c, k, end, vs) \/ PushBlocks(c, k, end, vs)
    BY <1>1 DEF CallPush
  <2>2. CASE PushStores(c, k, end, vs)
    BY <1>0, <2>2 DEF PushStores, waitVars
  <2>3. CASE PushServes(c, k, end, vs)
    <3>1. Head(InOrder(end, vs)) \in Values
      BY BatchType
    <3>2. Head(blockingClients[k]) \in Chans
      BY <2>3, HeadTailProperties DEF PushServes, TypeOK, WaitersTypeOK
    <3>3. pc' = pc /\ buf' = [buf EXCEPT ![Head(blockingClients[k])] = Head(InOrder(end, vs))]
      BY <2>3 DEF PushServes
    <3> QED
      BY <1>0, <3>1, <3>2, <3>3
  <2>4. CASE PushBlocks(c, k, end, vs)
    BY <2>4 DEF PushBlocks, QueueInv, RegisteredIsEmpty, TypeOK, WaitersTypeOK
  <2> QED
    BY <2>1, <2>2, <2>3, <2>4
<1>2. ASSUME NEW c \in Clients, CallBLPop(c) PROVE PromiseInv'
  <2>1. ASSUME NEW k \in Keys, BLPopNow(c, k) PROVE PromiseInv'
    BY <1>0, <2>1 DEF BLPopNow, waitVars
  <2>2. ASSUME NEW k \in Keys, NEW ch \in Chans, NEW hasTimeout \in BOOLEAN,
               BLPopWaits(c, k, ch, hasTimeout)
        PROVE  PromiseInv'
    BY <1>0, <2>2 DEF BLPopWaits, StartWait, ListPCs, LPopPCs
  <2> QED
    BY <1>2, <2>1, <2>2 DEF CallBLPop
<1>3. ASSUME NEW c \in Clients, BLPopReceives(c) \/ BLPopGivesUp(c) PROVE PromiseInv'
  <2>1. myChan[c] \in Chans
    BY <1>3 DEF BLPopReceives, BLPopGivesUp, QueueInv, ChannelWhileWaiting, BLPopPCs
  <2>2. pc' = [pc EXCEPT ![c] = "idle"] /\ buf' = [buf EXCEPT ![myChan[c]] = Empty]
    BY <1>3 DEF BLPopReceives, BLPopGivesUp, EndWait, Drain
  <2> QED
    BY <1>0, <2>1, <2>2 DEF ListPCs, LPopPCs
<1>4. ASSUME NEW c \in Clients, BLPopTimesOut(c) PROVE PromiseInv'
  BY <1>0, <1>4 DEF BLPopTimesOut, TimerFires, ListPCs, LPopPCs
<1>5. ASSUME NEW c \in Clients,
             \/ CallLPop(c) \/ LPopChecks(c) \/ LPopCompares(c) \/ LPopCuts(c)
             \/ LPopReads(c) \/ LPopSlices(c) \/ LPopStores(c)
             \/ PushResumes(c)
      PROVE  FALSE
  <2>1. pc[c] # "pushSend" /\ pc[c] \notin LPopPCs
    BY DEF QueueInv, NoPushInFlight, PromiseInv
  <2> QED
    BY <1>5, <2>1 DEF CallLPop, LPopChecks, LPopCompares, LPopCuts, LPopReads, LPopSlices,
                      LPopStores, PushResumes, LPopPCs
<1>6. CASE UNCHANGED vars
  BY <1>0, <1>6 DEF vars, waitVars
<1> QED
  BY <1>1, <1>2, <1>3, <1>4, <1>5, <1>6 DEF ListNext, ListProgress

(* Channels, the mutex, the timer and the race of a timeout with a send    *)
(* cannot be told from an atomic hand-over to the client that waits        *)
(* longest, as long as nobody calls LPOP, which takes values without s.mu. *)
THEOREM ListKeepsPromise ==
  ASSUME PopCounts = {}
  PROVE  Spec => KeepsPromise
<1>1. Init => Promise!Init
  BY DEF Init, WaitersInit, ListInit, Promise!Init, InQueue, Handed
<1>2. Init => PromiseInv
  BY WaitersAssumption DEF Init, WaitersInit, ListInit, PromiseInv, InLPop, LPopPCs
<1>3. TypeOK /\ QueueInv /\ PromiseInv /\ [ListNext]_vars => PromiseInv'
  BY StepPromiseInv
<1>4. TypeOK /\ TypeOK' /\ QueueInv /\ QueueInv' /\ PromiseInv /\ [ListNext]_vars
        => [Promise!Next]_(Promise!vars)
  BY StepPromise
<1> QED
  BY <1>1, <1>2, <1>3, <1>4, QueuesConsistent, PTL DEF Spec, KeepsPromise, Promise!Spec
=============================================================================
