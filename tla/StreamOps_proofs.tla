-------------------------- MODULE StreamOps_proofs --------------------------
(***************************************************************************)
(* Proofs about StreamOps, for any number of clients, keys, channels and   *)
(* entries: no wake-up of a blocked XREAD is lost, and none comes for      *)
(* nothing.  StreamOps counts the entries of a stream instead of keeping   *)
(* their IDs; that a position stands for an ID rests on StreamIDs, whose   *)
(* theorems, for any width of int, are at the end.                         *)
(***************************************************************************)
EXTENDS StreamOps, StreamIDs, SequenceFacts

-----------------------------------------------------------------------------
(* The inductive invariant, part by part.                                  *)

Waiting(c) == pc[c] \in {"xreadWait", "xreadTimedOut"}
Reading(c) == pc[c] \in {"xreadWait", "xreadTimedOut", "xreadWoken"}

(* A client has a channel, and a position for each of its keys, exactly    *)
(* while it is in an XREAD; and somebody to notify while it is in an XADD. *)
ChannelWhileReading ==
  \A c \in Clients :
    IF Reading(c)
    THEN myChan[c] \in Chans /\ made[myChan[c]] # "none" /\ DOMAIN starts[c] = DOMAIN xkeys[c]
    ELSE myChan[c] = NoChan
SomeoneToNotify == \A c \in Clients : pc[c] = "xaddSend" <=> sending[c] # <<>>

(* No two clients read from the same channel, and a channel nobody has     *)
(* made yet is in no queue, on nobody's way, and empty.                    *)
OneOwner == \A c, d \in Clients : c # d /\ myChan[c] # NoChan => myChan[c] # myChan[d]
NewIsUnknown ==
  \A ch \in Chans : made[ch] = "none" =>
    /\ buf[ch] = Empty
    /\ \A k \in Keys : ~Holds(blockingClients[k], ch)
    /\ \A c \in Clients : ~Holds(sending[c], ch)

(* A reader is registered only with the keys it named.                     *)
RegisteredIsNamed ==
  \A c \in Clients, k \in Keys :
    Reading(c) /\ Holds(blockingClients[k], myChan[c]) => Holds(xkeys[c], k)

(* A reader without anything in its channel or on its way there is in the  *)
(* queue of each of its keys, none of which has an entry for it.           *)
ReachedOrReachable ==
  \A c \in Clients : Waiting(c) =>
    \/ buf[myChan[c]] # Empty
    \/ BeingNotified(myChan[c])
    \/ \A i \in DOMAIN xkeys[c] : /\ Holds(blockingClients[xkeys[c][i]], myChan[c])
                                 /\ ~(streams[xkeys[c][i]] > starts[c][i])

(* A reader that is not ahead of its streams started at their ends or      *)
(* before, and whatever is or will be in its channel tells of an entry.    *)
StartsWithinStream ==
  \A c \in Clients : Reading(c) /\ ~ahead[c] =>
    \A i \in DOMAIN xkeys[c] : starts[c][i] <= streams[xkeys[c][i]]
Alerted(c) ==
  \/ pc[c] = "xreadWoken"
  \/ Waiting(c) /\ (buf[myChan[c]] # Empty \/ BeingNotified(myChan[c]))
WakeupTells == \A c \in Clients : Alerted(c) => HasNew(c) \/ ahead[c]

StreamInv ==
  /\ ChannelWhileReading /\ SomeoneToNotify /\ OneOwner /\ NewIsUnknown
  /\ RegisteredIsNamed /\ ReachedOrReachable /\ StartsWithinStream /\ WakeupTells

-----------------------------------------------------------------------------
(* Registering with the queues and leaving them.                           *)

(* How often a key is named.                                               *)
LEMMA NamedTimes ==
  ASSUME NEW ks \in Seq(Keys), NEW k
  PROVE  LET n == Cardinality({j \in DOMAIN ks : ks[j] = k})
         IN  n \in Nat /\ (n > 0 <=> Holds(ks, k))
<1> DEFINE J == {j \in DOMAIN ks : ks[j] = k}
<1>1. IsFiniteSet(J)
  <2>1. J \subseteq 1..Len(ks) /\ Len(ks) \in Nat
    BY LenProperties
  <2>2. IsFiniteSet(1..Len(ks))
    BY <2>1, FS_Interval
  <2> QED
    BY <2>1, <2>2, FS_Subset, Zenon
<1>2. Cardinality(J) \in Nat /\ (Cardinality(J) = 0 <=> J = {})
  BY <1>1, FS_CardinalityType, FS_EmptySet
<1>3. J # {} <=> Holds(ks, k)
  BY DEF Holds
<1> HIDE DEF J
<1>4. Cardinality(J) \in Nat /\ (Cardinality(J) > 0 <=> Holds(ks, k))
  BY <1>2, <1>3
<1> QED
  BY <1>4 DEF J

(* The channel joins the queues of the keys that are named, and no other   *)
(* channel joins or leaves one.                                            *)
LEMMA RegisterAllJoins ==
  ASSUME blockingClients \in [Keys -> Seq(Chans)], NEW ks \in Seq(Keys), NEW ch \in Chans
  PROVE  /\ RegisterAll(ks, ch) \in [Keys -> Seq(Chans)]
         /\ \A k \in Keys : \A x :
              Holds(RegisterAll(ks, ch)[k], x)
                <=> Holds(blockingClients[k], x) \/ (x = ch /\ Holds(ks, k))
<1> SUFFICES ASSUME NEW k \in Keys
             PROVE  /\ RegisterAll(ks, ch)[k] \in Seq(Chans)
                    /\ \A x : Holds(RegisterAll(ks, ch)[k], x)
                                <=> Holds(blockingClients[k], x) \/ (x = ch /\ Holds(ks, k))
  BY DEF RegisterAll
<1> DEFINE n == Cardinality({j \in DOMAIN ks : ks[j] = k})
           q == blockingClients[k]
           p == [i \in 1..n |-> ch]
<1>1. n \in Nat /\ (n > 0 <=> Holds(ks, k))
  BY NamedTimes
<1>2. RegisterAll(ks, ch)[k] = q \o p
  BY DEF RegisterAll
<1> HIDE DEF n
<1>3. /\ p \in Seq(Chans) /\ Len(p) = n /\ \A i \in 1..n : p[i] = ch
      /\ q \in Seq(Chans) /\ Len(q) \in Nat /\ DOMAIN q = 1..Len(q)
  BY <1>1
<1> HIDE DEF p, q
<1>4. /\ q \o p \in Seq(Chans)
      /\ DOMAIN (q \o p) = 1..(Len(q) + n)
      /\ \A i \in 1..(Len(q) + n) : (q \o p)[i] = IF i <= Len(q) THEN q[i] ELSE p[i - Len(q)]
  <2>1. /\ q \o p \in Seq(Chans) /\ Len(q \o p) = Len(q) + n
        /\ \A i \in 1..(Len(q) + n) : (q \o p)[i] = IF i <= Len(q) THEN q[i] ELSE p[i - Len(q)]
    BY <1>3, ConcatProperties
  <2> QED
    BY <2>1
<1>5. ASSUME NEW x PROVE Holds(q \o p, x) <=> Holds(q, x) \/ (x = ch /\ n > 0)
  <2>1. ASSUME NEW i \in 1..(Len(q) + n), (q \o p)[i] = x
        PROVE  Holds(q, x) \/ (x = ch /\ n > 0)
    <3>1. CASE i <= Len(q)
      <4>1. i \in DOMAIN q /\ q[i] = x
        BY <1>3, <1>4, <2>1, <3>1
      <4> QED
        BY <4>1 DEF Holds
    <3>2. CASE i > Len(q)
      <4>1. i - Len(q) \in 1..n
        BY <1>1, <1>3, <3>2
      <4> QED
        BY <1>1, <1>3, <1>4, <2>1, <3>2, <4>1
    <3> QED
      BY <1>3, <3>1, <3>2
  <2>2. ASSUME NEW i \in DOMAIN q, q[i] = x PROVE Holds(q \o p, x)
    BY <1>1, <1>3, <1>4, <2>2 DEF Holds
  <2>3. ASSUME x = ch, n > 0 PROVE Holds(q \o p, x)
    <3>1. Len(q) + 1 \in 1..(Len(q) + n) /\ 1 \in 1..n
      BY <1>1, <1>3, <2>3
    <3>2. (q \o p)[Len(q) + 1] = p[1]
      BY <1>3, <1>4, <3>1
    <3> QED
      BY <1>3, <1>4, <2>3, <3>1, <3>2 DEF Holds
  <2> QED
    BY <1>4, <2>1, <2>2, <2>3 DEF Holds
<1> QED
  BY <1>1, <1>2, <1>4, <1>5 DEF q

(* removeWaiter, once and any number of times.                             *)
LEMMA UnregisterTimesIs ==
  ASSUME NEW queue, NEW ch, NEW n
  PROVE  UnregisterTimes(queue, ch, n) = RemoveTimes(queue, ch, n)
BY DEF UnregisterTimes, Unregister, RemoveTimes

(* Leaving the queues of some keys, likewise.                              *)
LEMMA RemoveWaiterKeeps ==
  ASSUME blockingClients \in [Keys -> Seq(Chans)], NEW ks \in Seq(Keys), NEW ch \in Chans
  PROVE  /\ RemoveWaiterFromKeys(ks, ch) \in [Keys -> Seq(Chans)]
         /\ \A k \in Keys : OnlyWithout(RemoveWaiterFromKeys(ks, ch)[k], blockingClients[k], ch)
<1>1. ASSUME NEW k \in Keys
      PROVE  /\ RemoveWaiterFromKeys(ks, ch)[k] \in Seq(Chans)
             /\ OnlyWithout(RemoveWaiterFromKeys(ks, ch)[k], blockingClients[k], ch)
  <2> DEFINE n == Cardinality({j \in DOMAIN ks : ks[j] = k})
  <2>1. n \in Nat /\ blockingClients[k] \in Seq(Chans)
    BY NamedTimes
  <2>2. RemoveWaiterFromKeys(ks, ch)[k] = UnregisterTimes(blockingClients[k], ch, n)
    BY DEF RemoveWaiterFromKeys
  <2> HIDE DEF n
  <2> QED
    BY <2>1, <2>2, RemoveTimesKeeps, UnregisterTimesIs
<1> QED
  BY <1>1 DEF RemoveWaiterFromKeys

-----------------------------------------------------------------------------
(* Every action keeps the types and the invariant.                         *)

LEMMA InitInv == Init => TypeOK /\ StreamInv
<1> SUFFICES ASSUME Init PROVE TypeOK /\ StreamInv
  OBVIOUS
<1>1. TypeOK
  BY StreamOpsAssumption
  DEF Init, WaitersInit, StreamInit, TypeOK, WaitersTypeOK, StreamPCs
<1>2. /\ \A c \in Clients : /\ pc[c] = "idle" /\ myChan[c] = NoChan /\ sending[c] = <<>>
                           /\ DOMAIN sending[c] = {}
      /\ \A ch \in Chans : buf[ch] = Empty
      /\ \A k \in Keys : DOMAIN blockingClients[k] = {}
  BY DEF Init, WaitersInit, StreamInit
<1>3. ChannelWhileReading /\ SomeoneToNotify /\ OneOwner /\ NewIsUnknown
  BY <1>2 DEF ChannelWhileReading, SomeoneToNotify, OneOwner, NewIsUnknown, Reading, Holds
<1>4. RegisteredIsNamed /\ ReachedOrReachable /\ StartsWithinStream /\ WakeupTells
  BY <1>2 DEF RegisteredIsNamed, ReachedOrReachable, StartsWithinStream, WakeupTells,
              Reading, Waiting, Alerted
<1> QED
  BY <1>1, <1>3, <1>4 DEF StreamInv

(* XADD hands the whole queue of its key to itself, to notify.             *)
LEMMA XAddKeeps ==
  ASSUME TypeOK, StreamInv, NEW c \in Clients, NEW k \in Keys, XAdd(c, k)
  PROVE  TypeOK' /\ StreamInv'
<1>0. /\ made' = made /\ buf' = buf /\ myChan' = myChan /\ xkeys' = xkeys
      /\ starts' = starts /\ ahead' = ahead
  BY DEF XAdd
<1>1. /\ pc[c] = "idle"
      /\ \A d \in Clients : pc'[d] = IF d = c THEN IF blockingClients[k] = <<>> THEN "idle"
                                                                               ELSE "xaddSend"
                                              ELSE pc[d]
      /\ \A d \in Clients : sending'[d] = IF d = c THEN blockingClients[k] ELSE sending[d]
  BY DEF XAdd, TypeOK, WaitersTypeOK
<1>2. \A j \in Keys : blockingClients'[j] = IF j = k THEN <<>> ELSE blockingClients[j]
  BY DEF XAdd, TakeQueue, TypeOK, WaitersTypeOK
<1>3. /\ streams \in [Keys -> Nat]
      /\ \A j \in Keys : streams'[j] = IF j = k THEN streams[k] + 1 ELSE streams[j]
  BY StreamOpsAssumption DEF XAdd, TypeOK
<1>4. /\ blockingClients \in [Keys -> Seq(Chans)]
      /\ xkeys \in [Clients -> Seq(Keys)] /\ starts \in [Clients -> Seq(Nat)]
      /\ myChan \in [Clients -> Chans \cup {NoChan}]
  BY DEF TypeOK, WaitersTypeOK
<1>5. TypeOK'
  <2>1. streams[k] + 1 \in 0..MaxEntries
    BY StreamOpsAssumption DEF XAdd, TypeOK
  <2>2. <<>> \in Seq(Chans)
    OBVIOUS
  <2>3. blockingClients[k] \in Seq(Chans)
    BY <1>4
  <2>4. WaitersTypeOK(StreamPCs)'
    BY <2>2 DEF XAdd, TakeQueue, TypeOK, WaitersTypeOK, StreamPCs
  <2>5. streams' \in [Keys -> 0..MaxEntries] /\ sending' \in [Clients -> Seq(Chans)]
    BY <2>1, <2>3 DEF XAdd, TypeOK
  <2> QED
    BY <2>4, <2>5 DEF XAdd, TypeOK
<1>6. \A d \in Clients : (Reading(d)' <=> Reading(d)) /\ (Waiting(d)' <=> Waiting(d))
  BY <1>1 DEF Reading, Waiting
<1>7. ChannelWhileReading'
  BY <1>0, <1>6 DEF ChannelWhileReading, StreamInv
<1>8. SomeoneToNotify'
  BY <1>1 DEF SomeoneToNotify, StreamInv
<1>9. OneOwner'
  BY <1>0 DEF OneOwner, StreamInv
<1>10. \A j \in Keys : \A x : Holds(blockingClients'[j], x) => Holds(blockingClients[j], x)
  BY <1>2 DEF Holds
<1>11. NewIsUnknown'
  BY <1>0, <1>1, <1>10 DEF NewIsUnknown, StreamInv
<1>12. RegisteredIsNamed'
  BY <1>0, <1>6, <1>10 DEF RegisteredIsNamed, StreamInv
<1>13. \A x : BeingNotified(x) => BeingNotified(x)'
  BY <1>1 DEF BeingNotified
<1>14. \A x : Holds(blockingClients[k], x) => BeingNotified(x)'
  BY <1>1 DEF BeingNotified, Holds
<1>15. ReachedOrReachable'
  <2> SUFFICES ASSUME NEW d \in Clients, Waiting(d)
               PROVE  \/ buf[myChan[d]] # Empty
                      \/ BeingNotified(myChan[d])'
                      \/ \A i \in DOMAIN xkeys[d] :
                            /\ Holds(blockingClients'[xkeys[d][i]], myChan[d])
                            /\ ~(streams'[xkeys[d][i]] > starts[d][i])
    BY <1>0, <1>6 DEF ReachedOrReachable
  <2>1. \/ buf[myChan[d]] # Empty
        \/ BeingNotified(myChan[d])
        \/ \A i \in DOMAIN xkeys[d] : /\ Holds(blockingClients[xkeys[d][i]], myChan[d])
                                      /\ ~(streams[xkeys[d][i]] > starts[d][i])
    BY DEF ReachedOrReachable, StreamInv
  <2>2. CASE BeingNotified(myChan[d])
    <3>1. BeingNotified(myChan[d])'
      BY <1>0, <1>13, <2>2 DEF BeingNotified
    <3> QED
      BY <3>1
  <2>3. CASE \A i \in DOMAIN xkeys[d] : /\ Holds(blockingClients[xkeys[d][i]], myChan[d])
                                       /\ ~(streams[xkeys[d][i]] > starts[d][i])
    <3>1. CASE \E i \in DOMAIN xkeys[d] : xkeys[d][i] = k
      <4>1. Holds(blockingClients[k], myChan[d])
        BY <2>3, <3>1
      <4>2. BeingNotified(myChan[d])'
        BY <1>0, <1>14, <4>1 DEF BeingNotified
      <4> QED
        BY <4>2
    <3>2. CASE \A i \in DOMAIN xkeys[d] : xkeys[d][i] # k
      <4>1. \A i \in DOMAIN xkeys[d] : xkeys[d][i] \in Keys
        BY <1>4
      <4> QED
        BY <1>2, <1>3, <2>3, <3>2, <4>1
    <3> QED
      BY <3>1, <3>2
  <2> QED
    BY <2>1, <2>2, <2>3
<1>16. \A d \in Clients : \A i \in DOMAIN xkeys[d] : streams[xkeys[d][i]] <= streams'[xkeys[d][i]]
  <2> SUFFICES ASSUME NEW d \in Clients, NEW i \in DOMAIN xkeys[d]
               PROVE  streams[xkeys[d][i]] <= streams'[xkeys[d][i]]
    OBVIOUS
  <2>1. xkeys[d] \in Seq(Keys)
    BY <1>4
  <2>2. xkeys[d][i] \in Keys
    BY <2>1
  <2> QED
    BY <1>3, <2>2
<1>17. ASSUME NEW d \in Clients, Reading(d), NEW i \in DOMAIN xkeys[d]
       PROVE  /\ starts[d][i] \in Nat /\ xkeys[d][i] \in Keys
              /\ streams[xkeys[d][i]] \in Nat /\ streams'[xkeys[d][i]] \in Nat
  <2>1. DOMAIN starts[d] = DOMAIN xkeys[d]
    BY <1>17 DEF ChannelWhileReading, StreamInv
  <2>2. xkeys[d] \in Seq(Keys) /\ starts[d] \in Seq(Nat)
    BY <1>4
  <2>3. xkeys[d][i] \in Keys /\ starts[d][i] \in Nat
    BY <1>17, <2>1, <2>2
  <2> QED
    BY <1>3, <2>3
<1>18. StartsWithinStream'
  BY <1>0, <1>6, <1>16, <1>17 DEF StartsWithinStream, StreamInv
<1>19. WakeupTells'
  <2> SUFFICES ASSUME NEW d \in Clients, Alerted(d)' PROVE HasNew(d)' \/ ahead[d]
    BY <1>0 DEF WakeupTells
  <2>1. Reading(d)
    BY <1>6 DEF Alerted, Waiting, Reading
  <2>2. CASE Alerted(d)
    <3>1. HasNew(d) \/ ahead[d]
      BY <2>2 DEF WakeupTells, StreamInv
    <3>2. HasNew(d) => HasNew(d)'
      BY <1>0, <1>16, <1>17, <2>1 DEF HasNew, CollectEntries
    <3> QED
      BY <3>1, <3>2
  <2>3. CASE ~Alerted(d)
    <3>1. BeingNotified(myChan[d])' /\ ~BeingNotified(myChan[d])
      BY <1>0, <1>1, <1>6, <2>3 DEF Alerted
    <3>2. Holds(blockingClients[k], myChan[d])
      BY <1>0, <1>1, <3>1 DEF BeingNotified, Holds
    <3>3. PICK i \in DOMAIN xkeys[d] : xkeys[d][i] = k
      BY <2>1, <3>2 DEF RegisteredIsNamed, StreamInv, Holds
    <3>4. ahead[d] \/ starts[d][i] <= streams[k]
      BY <2>1, <3>3 DEF StartsWithinStream, StreamInv
    <3>5. ahead[d] \/ streams'[k] > starts[d][i]
      BY <1>3, <1>17, <2>1, <3>3, <3>4
    <3> QED
      BY <1>0, <3>3, <3>5 DEF HasNew, CollectEntries
  <2> QED
    BY <2>2, <2>3
<1> QED
  BY <1>5, <1>7, <1>8, <1>9, <1>11, <1>12, <1>15, <1>18, <1>19 DEF StreamInv

(* It delivers to the channels one by one; each is on its way before.      *)
LEMMA XAddNotifiesKeeps ==
  ASSUME TypeOK, StreamInv, NEW c \in Clients, XAddNotifies(c)
  PROVE  TypeOK' /\ StreamInv'
<1>0. /\ made' = made /\ blockingClients' = blockingClients /\ myChan' = myChan
      /\ xkeys' = xkeys /\ starts' = starts /\ ahead' = ahead /\ streams' = streams
  BY DEF XAddNotifies
<1> DEFINE s == sending[c]
           h == Head(sending[c])
<1>1. /\ s \in Seq(Chans) /\ s # <<>> /\ h \in Chans /\ Len(s) \in Nat /\ Len(s) > 0
      /\ Tail(s) \in Seq(Chans) /\ Len(Tail(s)) = Len(s) - 1
      /\ DOMAIN s = 1..Len(s) /\ DOMAIN Tail(s) = 1..(Len(s) - 1)
      /\ s[1] = h /\ \A i \in 1..(Len(s) - 1) : Tail(s)[i] = s[i + 1]
  <2>1. s \in Seq(Chans) /\ s # <<>>
    BY DEF XAddNotifies, TypeOK, SomeoneToNotify, StreamInv
  <2> HIDE DEF s
  <2>2. Head(s) \in Chans /\ Tail(s) \in Seq(Chans) /\ Head(s) = s[1]
    BY <2>1, HeadTailProperties
  <2> QED
    BY <2>1, <2>2 DEF s
<1>2. /\ pc[c] = "xaddSend"
      /\ \A d \in Clients : pc'[d] = IF d = c THEN IF Len(s) = 1 THEN "idle" ELSE "xaddSend"
                                              ELSE pc[d]
      /\ \A d \in Clients : sending'[d] = IF d = c THEN Tail(s) ELSE sending[d]
  BY DEF XAddNotifies, TypeOK, WaitersTypeOK
<1>3. /\ \A ch \in Chans : buf'[ch] = IF ch = h THEN Offer(buf[ch]) ELSE buf[ch]
      /\ Offer(buf[h]) # Empty /\ Offer(buf[h]) \in Msgs
  BY <1>1, WaitersAssumption DEF XAddNotifies, TypeOK, WaitersTypeOK, Offer, Msgs
<1>4. TypeOK'
  <2>1. sending' \in [Clients -> Seq(Chans)]
    BY <1>1 DEF XAddNotifies, TypeOK
  <2>2. buf' \in [Chans -> Msgs \cup {Empty}]
    BY <1>1, <1>3 DEF XAddNotifies, TypeOK, WaitersTypeOK
  <2>3. WaitersTypeOK(StreamPCs)'
    BY <2>2 DEF XAddNotifies, TypeOK, WaitersTypeOK, StreamPCs
  <2> QED
    BY <2>1, <2>3 DEF XAddNotifies, TypeOK
<1> HIDE DEF s, h
<1>5. \A d \in Clients : (Reading(d)' <=> Reading(d)) /\ (Waiting(d)' <=> Waiting(d))
  BY <1>2 DEF Reading, Waiting
<1>6. \A x : BeingNotified(x)' => BeingNotified(x)
  <2> SUFFICES ASSUME NEW x, BeingNotified(x)' PROVE BeingNotified(x)
    OBVIOUS
  <2>1. PICK d \in Clients : pc'[d] = "xaddSend" /\ \E i \in DOMAIN sending'[d] : sending'[d][i] = x
    BY DEF BeingNotified
  <2>2. CASE d = c
    <3>1. PICK i \in 1..(Len(s) - 1) : Tail(s)[i] = x
      BY <1>1, <1>2, <2>1, <2>2
    <3>2. i + 1 \in DOMAIN s /\ s[i + 1] = x
      BY <1>1, <3>1
    <3> QED
      BY <1>2, <3>2 DEF BeingNotified, s
  <2>3. CASE d # c
    BY <1>2, <2>1, <2>3 DEF BeingNotified
  <2> QED
    BY <2>2, <2>3
<1>7. \A x : BeingNotified(x) => x = h \/ BeingNotified(x)'
  <2> SUFFICES ASSUME NEW x, BeingNotified(x), x # h PROVE BeingNotified(x)'
    OBVIOUS
  <2>0. x # h
    OBVIOUS
  <2>1. PICK d \in Clients : pc[d] = "xaddSend" /\ \E i \in DOMAIN sending[d] : sending[d][i] = x
    BY DEF BeingNotified
  <2>2. CASE d = c
    <3>1. PICK i \in DOMAIN s : s[i] = x
      BY <2>1, <2>2 DEF s
    <3>2. i - 1 \in 1..(Len(s) - 1) /\ Tail(s)[i - 1] = x /\ Len(s) # 1
      BY <1>1, <2>0, <3>1
    <3> QED
      BY <1>1, <1>2, <3>2 DEF BeingNotified
  <2>3. CASE d # c
    BY <1>2, <2>1, <2>3 DEF BeingNotified
  <2> QED
    BY <2>2, <2>3
<1>8. BeingNotified(h)
  BY <1>1, <1>2 DEF BeingNotified, s
<1>9. \A d \in Clients : Reading(d) => myChan[d] \in Chans
  BY DEF ChannelWhileReading, StreamInv
<1>10. ChannelWhileReading' /\ OneOwner' /\ RegisteredIsNamed' /\ StartsWithinStream'
  BY <1>0, <1>5 DEF ChannelWhileReading, OneOwner, RegisteredIsNamed, StartsWithinStream, StreamInv
<1>11. SomeoneToNotify'
  <2>1. Tail(s) # <<>> <=> Len(s) # 1
    <3> DEFINE t == Tail(s)
    <3>1. t \in Seq(Chans) /\ Len(t) = Len(s) - 1 /\ Len(s) \in Nat
      BY <1>1
    <3> HIDE DEF t
    <3>2. t # <<>> <=> Len(t) # 0
      <4>1. t # <<>> => Len(t) \in Nat \ {0}
        BY <3>1, EmptySeq, Zenon
      <4>2. Len(<<>>) = 0
        BY EmptySeq
      <4> QED
        BY <4>1, <4>2
    <3>3. t # <<>> <=> Len(s) # 1
      BY <3>1, <3>2
    <3> QED
      BY <3>3 DEF t
  <2> QED
    BY <1>2, <2>1 DEF SomeoneToNotify, StreamInv
<1>12. NewIsUnknown'
  <2> SUFFICES ASSUME NEW ch \in Chans, made[ch] = "none"
               PROVE  /\ buf'[ch] = Empty
                      /\ \A d \in Clients : ~Holds(sending'[d], ch)
    BY <1>0 DEF NewIsUnknown, StreamInv
  <2>1. buf[ch] = Empty /\ \A d \in Clients : ~Holds(sending[d], ch)
    BY DEF NewIsUnknown, StreamInv
  <2>2. ch # h
    BY <1>1, <2>1 DEF Holds, s
  <2>3. ~Holds(Tail(s), ch)
    <3>1. \A i \in 1..(Len(s) - 1) : i + 1 \in DOMAIN s
      BY <1>1
    <3>2. \A i \in DOMAIN s : s[i] # ch
      BY <2>1 DEF Holds, s
    <3> QED
      BY <1>1, <3>1, <3>2 DEF Holds
  <2> QED
    BY <1>2, <1>3, <2>1, <2>2, <2>3
<1>13. ReachedOrReachable'
  <2> SUFFICES ASSUME NEW d \in Clients, Waiting(d)
               PROVE  \/ buf'[myChan[d]] # Empty
                      \/ BeingNotified(myChan[d])'
                      \/ \A i \in DOMAIN xkeys[d] :
                            /\ Holds(blockingClients[xkeys[d][i]], myChan[d])
                            /\ ~(streams[xkeys[d][i]] > starts[d][i])
    BY <1>0, <1>5 DEF ReachedOrReachable
  <2>1. myChan[d] \in Chans
    BY <1>9 DEF Waiting, Reading
  <2>2. BeingNotified(myChan[d]) => myChan[d] = h \/ BeingNotified(myChan[d])'
    BY <1>0, <1>7 DEF BeingNotified
  <2> QED
    BY <1>3, <2>1, <2>2 DEF ReachedOrReachable, StreamInv
<1>14. WakeupTells'
  <2> SUFFICES ASSUME NEW d \in Clients, Alerted(d)' PROVE HasNew(d) \/ ahead[d]
    BY <1>0 DEF WakeupTells, HasNew, CollectEntries
  <2>1. Alerted(d)
    <3>1. BeingNotified(myChan[d])' => BeingNotified(myChan[d])
      BY <1>0, <1>6 DEF BeingNotified
    <3>2. Waiting(d) /\ buf'[myChan[d]] # Empty => buf[myChan[d]] # Empty \/ BeingNotified(myChan[d])
      BY <1>3, <1>8, <1>9 DEF Waiting, Reading
    <3> QED
      BY <1>0, <1>2, <1>5, <3>1, <3>2 DEF Alerted
  <2> QED
    BY <2>1 DEF WakeupTells, StreamInv
<1> QED
  BY <1>4, <1>10, <1>11, <1>12, <1>13, <1>14 DEF StreamInv

(* XREAD joins the queues of its keys with a channel nobody knows.         *)
LEMMA XReadWaitsKeeps ==
  ASSUME TypeOK, StreamInv, NEW c \in Clients, NEW ks \in KeyLists,
         NEW from \in [DOMAIN ks -> 0..MaxEntries], NEW ch \in Chans,
         NEW hasTimeout \in BOOLEAN, XReadWaits(c, ks, from, ch, hasTimeout)
  PROVE  TypeOK' /\ StreamInv'
<1>0. /\ buf' = buf /\ streams' = streams /\ sending' = sending
      /\ blockingClients' = RegisterAll(ks, ch)
      /\ made[ch] = "none" /\ pc[c] = "idle" /\ ~CollectEntries(ks, from)
  BY DEF XReadWaits, StartWait
<1>1. ks \in Seq(Keys) /\ from \in Seq(Nat)
  <2>1. ks \in Seq(Keys)
    BY StreamOpsAssumption
  <2>2. DOMAIN ks = 1..Len(ks) /\ Len(ks) \in Nat
    BY <2>1, LenProperties
  <2>3. from \in [1..Len(ks) -> Nat]
    BY <2>2, StreamOpsAssumption
  <2> QED
    BY <2>1, <2>2, <2>3
<1>2. /\ made'[ch] = "xread" /\ pc'[c] = "xreadWait" /\ myChan'[c] = ch
      /\ xkeys'[c] = ks /\ starts'[c] = from
      /\ ahead'[c] = \E i \in DOMAIN ks : from[i] > streams[ks[i]]
      /\ \A x \in Chans \ {ch} : made'[x] = made[x]
      /\ \A d \in Clients \ {c} :
           /\ pc'[d] = pc[d] /\ myChan'[d] = myChan[d]
           /\ xkeys'[d] = xkeys[d] /\ starts'[d] = starts[d] /\ ahead'[d] = ahead[d]
  BY DEF XReadWaits, StartWait, TypeOK, WaitersTypeOK
<1>3. /\ blockingClients \in [Keys -> Seq(Chans)]
      /\ blockingClients' \in [Keys -> Seq(Chans)]
      /\ \A k \in Keys : \A x :
           Holds(blockingClients'[k], x)
             <=> Holds(blockingClients[k], x) \/ (x = ch /\ Holds(ks, k))
  <2>1. blockingClients \in [Keys -> Seq(Chans)]
    BY DEF TypeOK, WaitersTypeOK
  <2> QED
    BY <1>0, <1>1, <2>1, RegisterAllJoins, Zenon
<1>4. TypeOK'
  <2>1. WaitersTypeOK(StreamPCs)'
    BY <1>0, <1>3 DEF XReadWaits, StartWait, TypeOK, WaitersTypeOK, StreamPCs
  <2>2. xkeys' \in [Clients -> Seq(Keys)] /\ starts' \in [Clients -> Seq(Nat)]
    BY <1>1 DEF XReadWaits, TypeOK
  <2>3. ahead' \in [Clients -> BOOLEAN]
    BY DEF XReadWaits, TypeOK
  <2> QED
    BY <2>1, <2>2, <2>3 DEF XReadWaits, TypeOK
<1>5. /\ buf[ch] = Empty
      /\ \A k \in Keys : ~Holds(blockingClients[k], ch)
      /\ \A d \in Clients : ~Holds(sending[d], ch)
  BY <1>0 DEF NewIsUnknown, StreamInv
<1>6. \A d \in Clients : /\ Reading(d) => d # c /\ myChan[d] \in Chans /\ myChan[d] # ch
                         /\ d # c => /\ Reading(d)' <=> Reading(d)
                                     /\ Waiting(d)' <=> Waiting(d)
                                     /\ myChan[d] = NoChan \/ Reading(d)
      /\ Reading(c)' /\ Waiting(c)'
  BY <1>0, <1>2 DEF Reading, Waiting, ChannelWhileReading, StreamInv
<1>7. \A x : BeingNotified(x)' <=> BeingNotified(x)
  BY <1>0, <1>2 DEF BeingNotified
<1>8. ~BeingNotified(ch)
  BY <1>5 DEF BeingNotified, Holds
<1>9. ChannelWhileReading'
  <2> SUFFICES ASSUME NEW d \in Clients
               PROVE  IF Reading(d)'
                      THEN /\ myChan'[d] \in Chans /\ made'[myChan'[d]] # "none"
                           /\ DOMAIN starts'[d] = DOMAIN xkeys'[d]
                      ELSE myChan'[d] = NoChan
    BY DEF ChannelWhileReading
  <2>1. CASE d = c
    BY <1>2, <1>6, <2>1
  <2>2. CASE d # c
    <3>1. IF Reading(d)
          THEN myChan[d] \in Chans /\ made[myChan[d]] # "none" /\ DOMAIN starts[d] = DOMAIN xkeys[d]
          ELSE myChan[d] = NoChan
      BY DEF ChannelWhileReading, StreamInv
    <3> QED
      BY <1>2, <1>6, <2>2, <3>1
  <2> QED
    BY <2>1, <2>2
<1>10. SomeoneToNotify'
  BY <1>0, <1>2 DEF SomeoneToNotify, StreamInv
<1>11. OneOwner'
  BY <1>2, <1>6, WaitersAssumption DEF OneOwner, StreamInv
<1>12. NewIsUnknown'
  <2> SUFFICES ASSUME NEW x \in Chans, made'[x] = "none"
               PROVE  /\ buf[x] = Empty
                      /\ \A k \in Keys : ~Holds(blockingClients'[k], x)
                      /\ \A d \in Clients : ~Holds(sending[d], x)
    BY <1>0 DEF NewIsUnknown
  <2>1. x # ch /\ made[x] = "none"
    BY <1>2
  <2> QED
    BY <1>3, <2>1 DEF NewIsUnknown, StreamInv
<1>13. RegisteredIsNamed'
  <2> SUFFICES ASSUME NEW d \in Clients, NEW k \in Keys,
                      Reading(d)', Holds(blockingClients'[k], myChan'[d])
               PROVE  Holds(xkeys'[d], k)
    BY DEF RegisteredIsNamed
  <2>1. CASE d = c
    BY <1>2, <1>3, <1>5, <2>1
  <2>2. CASE d # c
    <3>1. Reading(d) /\ Holds(blockingClients[k], myChan[d])
      BY <1>2, <1>3, <1>6, <2>2
    <3> QED
      BY <1>2, <2>2, <3>1 DEF RegisteredIsNamed, StreamInv
  <2> QED
    BY <2>1, <2>2
<1>14. ASSUME NEW d \in Clients, d # c, Reading(d), NEW i \in DOMAIN xkeys[d]
       PROVE  xkeys[d][i] \in Keys
  BY DEF TypeOK
<1>15. ReachedOrReachable'
  <2> SUFFICES ASSUME NEW d \in Clients, Waiting(d)'
               PROVE  \/ buf[myChan'[d]] # Empty
                      \/ BeingNotified(myChan'[d])
                      \/ \A i \in DOMAIN xkeys'[d] :
                            /\ Holds(blockingClients'[xkeys'[d][i]], myChan'[d])
                            /\ ~(streams[xkeys'[d][i]] > starts'[d][i])
    <3>1. \A x : BeingNotified(x) => BeingNotified(x)'
      BY <1>7
    <3>2. \A x \in Clients : BeingNotified(myChan'[x]) => BeingNotified(myChan[x])'
      BY <1>0, <1>2 DEF BeingNotified
    <3> QED
      BY <1>0, <3>2 DEF ReachedOrReachable
  <2>1. CASE d = c
    <3>1. \A i \in DOMAIN ks : ks[i] \in Keys /\ Holds(ks, ks[i])
      BY <1>1 DEF Holds
    <3>2. \A i \in DOMAIN ks : ~(streams[ks[i]] > from[i])
      BY <1>0 DEF CollectEntries
    <3> QED
      BY <1>2, <1>3, <2>1, <3>1, <3>2
  <2>2. CASE d # c
    <3>1. Waiting(d) /\ Reading(d)
      BY <1>6, <2>2 DEF Waiting, Reading
    <3> QED
      BY <1>2, <1>3, <1>14, <2>2, <3>1 DEF ReachedOrReachable, StreamInv
  <2> QED
    BY <2>1, <2>2
<1>16. StartsWithinStream'
  <2> SUFFICES ASSUME NEW d \in Clients, Reading(d)', ~ahead'[d], NEW i \in DOMAIN xkeys'[d]
               PROVE  starts'[d][i] <= streams[xkeys'[d][i]]
    BY <1>0 DEF StartsWithinStream
  <2>1. CASE d = c
    <3>1. i \in DOMAIN ks /\ ~(from[i] > streams[ks[i]])
      BY <1>2, <2>1
    <3>2. ks[i] \in Keys /\ from[i] \in Nat
      BY <1>1, <3>1, StreamOpsAssumption
    <3>3. streams[ks[i]] \in Nat
      BY <3>2, StreamOpsAssumption DEF TypeOK
    <3> QED
      BY <1>2, <2>1, <3>1, <3>2, <3>3
  <2>2. CASE d # c
    BY <1>2, <1>6, <2>2 DEF StartsWithinStream, StreamInv
  <2> QED
    BY <2>1, <2>2
<1>17. WakeupTells'
  <2> SUFFICES ASSUME NEW d \in Clients, Alerted(d)' PROVE HasNew(d)' \/ ahead'[d]
    BY DEF WakeupTells
  <2>1. Alerted(d)' => \/ pc'[d] = "xreadWoken"
                       \/ Waiting(d)' /\ (buf[myChan'[d]] # Empty \/ BeingNotified(myChan'[d]))
    BY <1>0, <1>2 DEF Alerted, BeingNotified
  <2>2. d # c
    BY <1>2, <1>5, <1>8, <2>1
  <2>3. Alerted(d)
    BY <1>2, <1>6, <2>1, <2>2 DEF Alerted
  <2>4. HasNew(d) \/ ahead[d]
    BY <2>3 DEF WakeupTells, StreamInv
  <2> QED
    BY <1>0, <1>2, <2>2, <2>4 DEF HasNew, CollectEntries
<1> QED
  BY <1>4, <1>9, <1>10, <1>11, <1>12, <1>13, <1>15, <1>16, <1>17 DEF StreamInv

(* A woken XREAD has received, so it was told of an entry.                 *)
LEMMA XReadReceivesKeeps ==
  ASSUME TypeOK, StreamInv, NEW c \in Clients, XReadReceives(c)
  PROVE  TypeOK' /\ StreamInv'
<1>0. /\ made' = made /\ blockingClients' = blockingClients /\ myChan' = myChan
      /\ xkeys' = xkeys /\ starts' = starts /\ ahead' = ahead /\ streams' = streams
      /\ sending' = sending
      /\ pc[c] = "xreadWait" /\ buf[myChan[c]] # Empty
  BY DEF XReadReceives
<1>1. /\ pc'[c] = "xreadWoken"
      /\ \A d \in Clients \ {c} : pc'[d] = pc[d]
      /\ \A ch \in Chans : buf'[ch] = IF ch = myChan[c] THEN Empty ELSE buf[ch]
  BY DEF XReadReceives, Drain, TypeOK, WaitersTypeOK
<1>2. TypeOK'
  BY DEF XReadReceives, Drain, TypeOK, WaitersTypeOK, StreamPCs
<1>3. /\ \A d \in Clients : Reading(d)' <=> Reading(d)
      /\ \A d \in Clients : d # c => (Waiting(d)' <=> Waiting(d))
      /\ Waiting(c) /\ ~Waiting(c)'
      /\ \A d \in Clients : Reading(d) => myChan[d] \in Chans
      /\ \A d \in Clients : Reading(d) /\ d # c => myChan[d] # myChan[c]
  <2>1. Reading(c) /\ Reading(c)' /\ Waiting(c) /\ ~Waiting(c)'
    BY <1>0, <1>1 DEF Reading, Waiting
  <2>2. \A d \in Clients : d # c => (Reading(d)' <=> Reading(d)) /\ (Waiting(d)' <=> Waiting(d))
    BY <1>1 DEF Reading, Waiting
  <2>3. \A d \in Clients : Reading(d) => myChan[d] \in Chans
    BY DEF ChannelWhileReading, StreamInv
  <2>4. \A d \in Clients : Reading(d) /\ d # c => myChan[d] # myChan[c]
    BY <2>3, WaitersAssumption DEF OneOwner, StreamInv
  <2> QED
    BY <2>1, <2>2, <2>3, <2>4
<1>4. \A x : BeingNotified(x)' <=> BeingNotified(x)
  <2>1. \A d \in Clients : pc'[d] = "xaddSend" <=> pc[d] = "xaddSend"
    BY <1>0, <1>1
  <2> QED
    BY <1>0, <2>1 DEF BeingNotified
<1>5. ChannelWhileReading' /\ OneOwner' /\ RegisteredIsNamed' /\ StartsWithinStream'
  BY <1>0, <1>3 DEF ChannelWhileReading, OneOwner, RegisteredIsNamed, StartsWithinStream, StreamInv
<1>6. SomeoneToNotify' /\ NewIsUnknown'
  BY <1>0, <1>1 DEF SomeoneToNotify, NewIsUnknown, StreamInv
<1>7. \A d \in Clients : BeingNotified(myChan[d])' <=> BeingNotified(myChan[d])
  BY <1>0, <1>4 DEF BeingNotified
<1>8. ReachedOrReachable'
  <2> SUFFICES ASSUME NEW d \in Clients, Waiting(d), d # c
               PROVE  \/ buf'[myChan[d]] # Empty
                      \/ BeingNotified(myChan[d])
                      \/ \A i \in DOMAIN xkeys[d] :
                            /\ Holds(blockingClients[xkeys[d][i]], myChan[d])
                            /\ ~(streams[xkeys[d][i]] > starts[d][i])
    BY <1>0, <1>3, <1>7 DEF ReachedOrReachable
  <2>1. myChan[d] \in Chans /\ buf'[myChan[d]] = buf[myChan[d]]
    BY <1>1, <1>3 DEF Waiting, Reading
  <2> QED
    BY <2>1 DEF ReachedOrReachable, StreamInv
<1>9. WakeupTells'
  <2> SUFFICES ASSUME NEW d \in Clients, Alerted(d)' PROVE HasNew(d) \/ ahead[d]
    BY <1>0 DEF WakeupTells, HasNew, CollectEntries
  <2>1. CASE d = c
    BY <1>0, <1>3, <2>1 DEF Alerted, WakeupTells, StreamInv
  <2>2. CASE d # c
    <3>1. Waiting(d) => buf'[myChan[d]] = buf[myChan[d]]
      BY <1>1, <1>3, <2>2 DEF Waiting, Reading
    <3>2. Alerted(d)
      BY <1>0, <1>1, <1>3, <1>7, <2>2, <3>1 DEF Alerted
    <3> QED
      BY <3>2 DEF WakeupTells, StreamInv
  <2> QED
    BY <2>1, <2>2
<1> QED
  BY <1>2, <1>5, <1>6, <1>8, <1>9 DEF StreamInv

LEMMA XReadTimesOutKeeps ==
  ASSUME TypeOK, StreamInv, NEW c \in Clients, XReadTimesOut(c)
  PROVE  TypeOK' /\ StreamInv'
<1>0. /\ made' = made /\ blockingClients' = blockingClients /\ myChan' = myChan
      /\ xkeys' = xkeys /\ starts' = starts /\ ahead' = ahead /\ streams' = streams
      /\ sending' = sending /\ buf' = buf /\ pc[c] = "xreadWait"
  BY DEF XReadTimesOut, TimerFires, streamVars
<1>1. pc'[c] = "xreadTimedOut" /\ \A d \in Clients \ {c} : pc'[d] = pc[d]
  BY DEF XReadTimesOut, TimerFires, TypeOK, WaitersTypeOK
<1>2. TypeOK'
  BY DEF XReadTimesOut, TimerFires, streamVars, TypeOK, WaitersTypeOK, StreamPCs
<1>3. \A d \in Clients : /\ Reading(d)' <=> Reading(d)
                         /\ Waiting(d)' <=> Waiting(d)
                         /\ pc'[d] = "xaddSend" <=> pc[d] = "xaddSend"
                         /\ pc'[d] = "xreadWoken" <=> pc[d] = "xreadWoken"
  BY <1>0, <1>1 DEF Reading, Waiting
<1>4. \A d \in Clients : BeingNotified(myChan[d])' <=> BeingNotified(myChan[d])
  BY <1>0, <1>3 DEF BeingNotified
<1>5. ChannelWhileReading' /\ OneOwner' /\ RegisteredIsNamed' /\ StartsWithinStream'
  BY <1>0, <1>3 DEF ChannelWhileReading, OneOwner, RegisteredIsNamed, StartsWithinStream, StreamInv
<1>6. SomeoneToNotify' /\ NewIsUnknown'
  BY <1>0, <1>3 DEF SomeoneToNotify, NewIsUnknown, StreamInv
<1>7. ReachedOrReachable'
  BY <1>0, <1>3, <1>4 DEF ReachedOrReachable, StreamInv
<1>8. WakeupTells'
  BY <1>0, <1>3, <1>4 DEF WakeupTells, Alerted, HasNew, CollectEntries, StreamInv
<1> QED
  BY <1>2, <1>5, <1>6, <1>7, <1>8 DEF StreamInv

(* A reader that leaves takes nothing with it but its own registrations.   *)
LEMMA LeavingKeeps ==
  ASSUME TypeOK, StreamInv, NEW c \in Clients, Reading(c),
         blockingClients' = RemoveWaiterFromKeys(xkeys[c], myChan[c]),
         FinishRead(c), UNCHANGED <<mu, made, streams, sending>>,
         buf' \in [Chans -> Msgs \cup {Empty}], swallowed' \in SUBSET Values,
         \A ch \in Chans : ch # myChan[c] => buf'[ch] = buf[ch]
  PROVE  TypeOK' /\ StreamInv'
<1>0. made' = made /\ streams' = streams /\ sending' = sending
  OBVIOUS
<1>1. /\ pc'[c] = "idle" /\ myChan'[c] = NoChan
      /\ \A d \in Clients \ {c} :
           /\ pc'[d] = pc[d] /\ myChan'[d] = myChan[d]
           /\ xkeys'[d] = xkeys[d] /\ starts'[d] = starts[d] /\ ahead'[d] = ahead[d]
  BY DEF FinishRead, EndWait, TypeOK, WaitersTypeOK
<1>2. myChan[c] \in Chans /\ made[myChan[c]] # "none"
  BY DEF ChannelWhileReading, StreamInv
<1>3. /\ blockingClients' \in [Keys -> Seq(Chans)]
      /\ \A k \in Keys : OnlyWithout(blockingClients'[k], blockingClients[k], myChan[c])
  <2>1. blockingClients \in [Keys -> Seq(Chans)] /\ xkeys[c] \in Seq(Keys)
    BY DEF TypeOK, WaitersTypeOK
  <2> QED
    BY <1>2, <2>1, RemoveWaiterKeeps, Zenon
<1>4. TypeOK'
  <2>1. xkeys' \in [Clients -> Seq(Keys)] /\ starts' \in [Clients -> Seq(Nat)]
    BY DEF FinishRead, TypeOK
  <2>2. ahead' \in [Clients -> BOOLEAN]
    BY DEF FinishRead, TypeOK
  <2>3. WaitersTypeOK(StreamPCs)'
    BY <1>3 DEF FinishRead, EndWait, TypeOK, WaitersTypeOK, StreamPCs
  <2> QED
    BY <2>1, <2>2, <2>3 DEF TypeOK
<1>5. /\ ~Reading(c)' /\ ~Waiting(c)' /\ pc'[c] # "xreadWoken" /\ pc'[c] # "xaddSend"
      /\ pc[c] # "xaddSend"
  BY <1>1 DEF Reading, Waiting
<1>6. \A d \in Clients \ {c} :
        /\ Reading(d)' <=> Reading(d)
        /\ Waiting(d)' <=> Waiting(d)
        /\ Reading(d) => /\ myChan[d] \in Chans /\ myChan[d] # myChan[c]
                         /\ buf'[myChan[d]] = buf[myChan[d]]
  <2> SUFFICES ASSUME NEW d \in Clients \ {c}
               PROVE  /\ Reading(d)' <=> Reading(d)
                      /\ Waiting(d)' <=> Waiting(d)
                      /\ Reading(d) => /\ myChan[d] \in Chans /\ myChan[d] # myChan[c]
                                       /\ buf'[myChan[d]] = buf[myChan[d]]
    OBVIOUS
  <2>1. (Reading(d)' <=> Reading(d)) /\ (Waiting(d)' <=> Waiting(d))
    BY <1>1 DEF Reading, Waiting
  <2>2. Reading(d) => myChan[d] \in Chans /\ myChan[d] # myChan[c]
    BY WaitersAssumption DEF ChannelWhileReading, OneOwner, StreamInv
  <2> QED
    BY <2>1, <2>2
<1>7. \A x : BeingNotified(x)' <=> BeingNotified(x)
  <2>1. \A d \in Clients : pc'[d] = "xaddSend" <=> pc[d] = "xaddSend"
    BY <1>1, <1>5
  <2> QED
    BY <1>0, <2>1 DEF BeingNotified
<1>8. \A d \in Clients \ {c} : BeingNotified(myChan[d])' <=> BeingNotified(myChan[d])
  <2> SUFFICES ASSUME NEW d \in Clients \ {c}
               PROVE  BeingNotified(myChan[d])' <=> BeingNotified(myChan[d])
    OBVIOUS
  <2>1. PICK x : x = myChan[d]
    OBVIOUS
  <2>2. myChan'[d] = x
    BY <1>1, <2>1
  <2>3. BeingNotified(x)' <=> BeingNotified(x)
    BY <1>7
  <2> QED
    BY <2>1, <2>2, <2>3 DEF BeingNotified
<1>9. ChannelWhileReading'
  BY <1>0, <1>1, <1>5, <1>6 DEF ChannelWhileReading, StreamInv
<1>10. SomeoneToNotify'
  BY <1>0, <1>1, <1>5 DEF SomeoneToNotify, StreamInv
<1>11. OneOwner'
  <2> SUFFICES ASSUME NEW d \in Clients, NEW e \in Clients, d # e, myChan'[d] # NoChan
               PROVE  myChan'[d] # myChan'[e]
    BY DEF OneOwner
  <2>1. d # c /\ myChan'[d] = myChan[d]
    BY <1>1
  <2>2. myChan[d] # myChan[e]
    BY <2>1 DEF OneOwner, StreamInv
  <2>3. myChan'[e] = NoChan \/ myChan'[e] = myChan[e]
    BY <1>1
  <2> QED
    BY <2>1, <2>2, <2>3
<1>12. \A k \in Keys : \A x : Holds(blockingClients'[k], x) => Holds(blockingClients[k], x)
  <2> SUFFICES ASSUME NEW k \in Keys
               PROVE  \A x : Holds(blockingClients'[k], x) => Holds(blockingClients[k], x)
    OBVIOUS
  <2>1. OnlyWithout(blockingClients'[k], blockingClients[k], myChan[c])
    BY <1>3
  <2> QED
    BY <2>1 DEF OnlyWithout
<1>13. NewIsUnknown'
  BY <1>0, <1>2, <1>12 DEF NewIsUnknown, StreamInv
<1>14. RegisteredIsNamed'
  BY <1>1, <1>5, <1>6, <1>12 DEF RegisteredIsNamed, StreamInv
<1>15. ReachedOrReachable'
  <2> SUFFICES ASSUME NEW d \in Clients \ {c}, Waiting(d), Reading(d)
               PROVE  \/ buf[myChan[d]] # Empty
                      \/ BeingNotified(myChan[d])
                      \/ \A i \in DOMAIN xkeys[d] :
                            /\ Holds(blockingClients'[xkeys[d][i]], myChan[d])
                            /\ ~(streams[xkeys[d][i]] > starts[d][i])
    <3>1. \A d \in Clients : Waiting(d) => Reading(d)
      BY DEF Waiting, Reading
    <3> QED
      BY <1>0, <1>1, <1>5, <1>6, <1>8, <3>1 DEF ReachedOrReachable
  <2>1. \A i \in DOMAIN xkeys[d] : xkeys[d][i] \in Keys
    BY DEF TypeOK
  <2>2. \A k \in Keys : Holds(blockingClients[k], myChan[d]) => Holds(blockingClients'[k], myChan[d])
    BY <1>3, <1>6 DEF OnlyWithout
  <2> QED
    BY <2>1, <2>2 DEF ReachedOrReachable, StreamInv
<1>16. StartsWithinStream'
  BY <1>0, <1>1, <1>5, <1>6 DEF StartsWithinStream, StreamInv
<1>17. WakeupTells'
  <2> SUFFICES ASSUME NEW d \in Clients, Alerted(d)' PROVE HasNew(d)' \/ ahead'[d]
    BY DEF WakeupTells
  <2>1. d # c
    BY <1>5 DEF Alerted
  <2>2. Waiting(d) => Reading(d)
    BY DEF Waiting, Reading
  <2>3. Alerted(d)
    BY <1>1, <1>6, <1>8, <2>1, <2>2 DEF Alerted
  <2>4. HasNew(d) \/ ahead[d]
    BY <2>3 DEF WakeupTells, StreamInv
  <2> QED
    BY <1>0, <1>1, <2>1, <2>4 DEF HasNew, CollectEntries
<1> QED
  BY <1>4, <1>9, <1>10, <1>11, <1>13, <1>14, <1>15, <1>16, <1>17 DEF StreamInv

LEMMA XReadLeavesKeeps ==
  ASSUME TypeOK, StreamInv, NEW c \in Clients, XReadReplies(c) \/ XReadGivesUp(c)
  PROVE  TypeOK' /\ StreamInv'
<1>1. Reading(c)
  BY DEF Reading, XReadReplies, XReadGivesUp
<1>2. /\ blockingClients' = RemoveWaiterFromKeys(xkeys[c], myChan[c])
      /\ FinishRead(c) /\ UNCHANGED <<mu, made, streams, sending>>
      /\ swallowed' \in SUBSET Values
  BY DEF XReadReplies, XReadGivesUp, TypeOK
<1>3. /\ buf' \in [Chans -> Msgs \cup {Empty}]
      /\ \A ch \in Chans : ch # myChan[c] => buf'[ch] = buf[ch]
  BY DEF XReadReplies, XReadGivesUp, Drain, TypeOK, WaitersTypeOK
<1> QED
  BY <1>1, <1>2, <1>3, LeavingKeeps

-----------------------------------------------------------------------------
(* XADD and XREAD have the types of the code, and keep the invariant that  *)
(* says how every waiting reader is reached (store.go:477-530, 640-745).   *)
THEOREM StreamInvariant == Spec => [](TypeOK /\ StreamInv)
<1>1. TypeOK /\ StreamInv /\ [StreamNext]_vars => TypeOK' /\ StreamInv'
  <2> SUFFICES ASSUME TypeOK, StreamInv, [StreamNext]_vars PROVE TypeOK' /\ StreamInv'
    OBVIOUS
  <2>1. ASSUME NEW c \in Clients, CallXAdd(c) PROVE TypeOK' /\ StreamInv'
    BY <2>1, XAddKeeps DEF CallXAdd
  <2>2. ASSUME NEW c \in Clients, CallXRead(c) PROVE TypeOK' /\ StreamInv'
    BY <2>2, XReadWaitsKeeps DEF CallXRead
  <2>3. ASSUME NEW c \in Clients, StreamProgress(c) PROVE TypeOK' /\ StreamInv'
    BY <2>3, XAddNotifiesKeeps, XReadReceivesKeeps, XReadTimesOutKeeps, XReadLeavesKeeps
    DEF StreamProgress
  <2>4. CASE UNCHANGED vars
    BY <2>4 DEF vars, waitVars, streamVars, TypeOK, WaitersTypeOK, StreamInv,
      ChannelWhileReading, SomeoneToNotify, OneOwner, NewIsUnknown, RegisteredIsNamed,
      ReachedOrReachable, StartsWithinStream, WakeupTells, Reading, Waiting, Alerted,
      BeingNotified, HasNew, CollectEntries
  <2> QED
    BY <2>1, <2>2, <2>3, <2>4 DEF StreamNext
<1> QED
  BY <1>1, InitInv, PTL DEF Spec

(* No wake-up is lost: a reader one of whose streams has an entry for it   *)
(* has a message in its channel, or an XADD is on its way there            *)
(* (store.go:513-522).                                                     *)
THEOREM NoWakeupIsLost == Spec => []NoLostWakeup
<1>1. StreamInv => NoLostWakeup
  BY DEF StreamInv, ReachedOrReachable, Waiting, NoLostWakeup, HasNew, CollectEntries
<1> QED
  BY <1>1, StreamInvariant, PTL

(* A reader that was woken has an entry to reply (store.go:735-739), or    *)
(* asked for entries beyond an ID no entry had.                            *)
THEOREM WokenReadersReply == Spec => []WokenHasEntries
<1>1. TypeOK /\ StreamInv => WokenHasEntries
  BY DEF StreamInv, WakeupTells, Alerted, Waiting, Woken, WokenHasEntries
<1> QED
  BY <1>1, StreamInvariant, PTL

-----------------------------------------------------------------------------
(* The inductive invariant of StreamIDs.  What IncreaseUntilOverflow lacks *)
(* is that no time is negative and no number that of `ms-*`, so that an    *)
(* entry's ID survives being printed and parsed, and, for the range from   *)
(* "-", that no ID is 0-0.                                                 *)
NoneNegative == \A i \in DOMAIN entries : entries[i].ms >= 0 /\ entries[i].sq # AutoSeq
NoneZero == \A i \in DOMAIN entries : entries[i] # Zero
IDInv ==
  /\ IDsTypeOK /\ NoneNegative
  /\ ~Overflowed => IDsIncrease /\ NoneZero

LEMMA Widths ==
  ASSUME StreamIDsAssumption
  PROVE  /\ MaxInt \in Nat /\ MaxInt >= 1 /\ MinInt \in Int
         /\ MinInt < AutoSeq /\ AutoSeq = -1 /\ AutoSeq \in MinInt..MaxInt /\ Zero \in ID
BY StreamIDsAssumption DEF MinInt, Zero, ID, AutoSeq

LEMMA ConvertsBack ==
  ASSUME StreamIDsAssumption, NEW id \in ID, id.ms >= 0, id.sq >= AutoSeq
  PROVE  ConvertID(id) = id
<1>1. id \in [ms : Int, sq : Int] /\ id.ms \in Int /\ id.sq \in Int
  BY Widths DEF ID
<1>2. id # Malformed
  BY <1>1, StreamIDsAssumption
<1> QED
  BY <1>1, <1>2, Widths DEF ConvertID

LEMMA ConvertType ==
  ASSUME StreamIDsAssumption, NEW id \in ID, id.sq # AutoSeq
  PROVE  /\ ConvertID(id) \in ID /\ ConvertID(id).ms >= 0
         /\ ConvertID(id).sq >= 0
<1>1. id.ms \in Int /\ id.sq \in Int
  BY Widths DEF ID
<1>2. CASE id = Malformed \/ id.ms < 0 \/ id.sq < AutoSeq
  BY <1>2, Widths DEF ConvertID, Zero
<1>3. CASE ~(id = Malformed \/ id.ms < 0 \/ id.sq < AutoSeq)
  BY <1>1, <1>3, Widths DEF ConvertID
<1> QED
  BY <1>2, <1>3

LEMMA LastType ==
  ASSUME StreamIDsAssumption, IDsTypeOK, NoneNegative
  PROVE  /\ LastID \in ID /\ LastID.ms >= 0 /\ LastID.sq >= 0
         /\ LastID.ms \in Int /\ LastID.sq \in Int
<1>1. CASE HasLast
  <2>1. entries[Len(entries)] \in ID /\ entries[Len(entries)].sq # AutoSeq
    BY <1>1, LenProperties, EmptySeq DEF HasLast, IDsTypeOK, NoneNegative
  <2>2. LastID = ConvertID(entries[Len(entries)])
    BY <1>1 DEF LastID
  <2> QED
    BY <2>1, <2>2, ConvertType, Widths DEF ID
<1>2. CASE ~HasLast
  BY <1>2, Widths DEF LastID, Zero
<1> QED
  BY <1>1, <1>2

(* An entry that XADD adds is after the last one, or overflowed.           *)
Follows(id) ==
  /\ id \in ID /\ id.ms >= 0 /\ id.sq # AutoSeq
  /\ id.sq >= 0 => id # Zero /\ (HasLast => Less(LastID, id))

LEMMA SuccessorType ==
  ASSUME StreamIDsAssumption, NEW n \in MinInt..MaxInt, n >= 0
  PROVE  /\ Successor(n) \in MinInt..MaxInt /\ Successor(n) # AutoSeq
         /\ Successor(n) >= 0 => Successor(n) = n + 1
BY Widths DEF Successor, MinInt

LEMMA GeneratedFollows ==
  ASSUME StreamIDsAssumption, IDsTypeOK, NoneNegative
  PROVE  Follows(Generated)
<1>1. PICK l \in ID :
        /\ l = LastID /\ l.ms >= 0 /\ l.sq >= 0
        /\ l.ms \in Int /\ l.sq \in Int
  BY LastType
<1>2. PICK ms \in 1..MaxInt : ms = GeneratedMs(nowMs, LastID.ms) /\ ms >= l.ms
  BY <1>1, Widths DEF GeneratedMs, Larger, IDsTypeOK, ID
<1>3. PICK sq \in MinInt..MaxInt :
        sq = (IF ms = l.ms THEN Successor(l.sq) ELSE 0) /\ sq # AutoSeq
  BY <1>1, SuccessorType, Widths DEF ID
<1>4. Generated = [ms |-> ms, sq |-> sq]
  BY <1>1, <1>2, <1>3 DEF Generated
<1>5. ms \in MinInt..MaxInt /\ ms > 0 /\ ms \in Int
  BY <1>2, Widths
<1>6. /\ Generated \in ID /\ Generated.ms = ms
      /\ Generated.sq = sq /\ Generated # Zero
  BY <1>3, <1>4, <1>5 DEF ID, Zero
<1>7. sq >= 0 => l.ms < ms \/ (l.ms = ms /\ l.sq < sq)
  <2>1. CASE ms = l.ms
    <3>1. l.sq \in MinInt..MaxInt /\ sq = Successor(l.sq)
      BY <1>3, <2>1 DEF ID
    <3>2. sq >= 0 => sq = l.sq + 1
      BY <1>1, <3>1, SuccessorType
    <3> QED
      BY <1>1, <2>1, <3>2
  <2>2. CASE ms # l.ms
    BY <1>1, <1>2, <1>5, <2>2
  <2> QED
    BY <2>1, <2>2
<1> QED
  BY <1>1, <1>3, <1>5, <1>6, <1>7 DEF Follows, Less

LEMMA CompletedFollows ==
  ASSUME StreamIDsAssumption, IDsTypeOK, NoneNegative,
         NEW request \in Requests \ {Star, Malformed},
         Accepted(Completed(request))
  PROVE  Follows(Completed(request))
<1>1. request \in [ms : 0..MaxInt, sq : {AutoSeq} \cup 0..MaxInt]
  BY DEF Requests
<1>2. /\ request = [ms |-> request.ms, sq |-> request.sq]
      /\ request.ms \in 0..MaxInt /\ request.sq \in {AutoSeq} \cup 0..MaxInt
  BY <1>1
<1>3. PICK l \in ID :
        /\ l = LastID /\ l.ms >= 0
        /\ l.sq >= 0 /\ l.sq \in MinInt..MaxInt
  BY LastType DEF ID
<1>4. /\ Successor(l.sq) \in MinInt..MaxInt /\ Successor(l.sq) # AutoSeq
      /\ 0 # AutoSeq /\ 1 # AutoSeq /\ 0 \in MinInt..MaxInt
      /\ 1 \in MinInt..MaxInt
      /\ request.ms \in MinInt..MaxInt
      /\ (request.sq # AutoSeq => request.sq \in MinInt..MaxInt)
  BY <1>2, <1>3, SuccessorType, Widths
<1>5. /\ Completed(request) \in ID /\ Completed(request).ms = request.ms
      /\ Completed(request).sq # AutoSeq
  <2>1. CASE request.sq # AutoSeq
    BY <1>2, <1>4, <2>1 DEF Completed, ID
  <2>2. CASE request.sq = AutoSeq
    <3>1. \E sq \in MinInt..MaxInt :
            sq # AutoSeq /\ Completed(request) = [request EXCEPT !.sq = sq]
      BY <1>3, <1>4, <2>2 DEF Completed
    <3> QED
      BY <1>1, <1>2, <1>4, <3>1 DEF ID
  <2> QED
    BY <2>1, <2>2
<1> QED
  BY <1>2, <1>5 DEF Follows, Accepted

LEMMA LessChains ==
  ASSUME StreamIDsAssumption, NEW a \in ID, NEW b \in ID,
         NEW c \in ID, Less(a, b), Less(b, c)
  PROVE  Less(a, c)
<1>1. /\ a.ms \in Int /\ a.sq \in Int /\ b.ms \in Int /\ b.sq \in Int
      /\ c.ms \in Int /\ c.sq \in Int
  BY Widths DEF ID
<1> QED
  BY <1>1 DEF Less

LEMMA AddedKeeps ==
  ASSUME StreamIDsAssumption, IDInv, NEW id, Follows(id), Added(id)
  PROVE  IDInv'
<1>1. PICK n \in Nat : n = Len(entries)
  BY LenProperties DEF IDInv, IDsTypeOK
<1>2. /\ entries' \in Seq(ID) /\ DOMAIN entries = 1..n /\ DOMAIN entries' = 1..(n+1)
      /\ entries'[n + 1] = id /\ \A i \in 1..n : entries'[i] = entries[i]
      /\ \A i \in 1..n : entries[i] \in ID
  <2>1. entries \in Seq(ID) /\ id \in ID
    BY DEF IDInv, IDsTypeOK, Follows
  <2> QED
    BY <1>1, <2>1, AppendProperties, LenProperties, ElementOfSeq DEF Added
<1>3. IDsTypeOK' /\ NoneNegative'
  <2>1. IDsTypeOK'
    BY <1>2 DEF IDInv, IDsTypeOK, Added
  <2>2. ASSUME NEW i \in 1..(n+1) PROVE entries'[i].ms >= 0 /\ entries'[i].sq # AutoSeq
    <3>1. i \in 1..n \/ i = n + 1
      BY <1>1
    <3> QED
      BY <1>2, <3>1 DEF IDInv, NoneNegative, Follows
  <2> QED
    BY <1>2, <2>1, <2>2 DEF NoneNegative
<1>4. ASSUME ~Overflowed'
      PROVE  IDsIncrease' /\ NoneZero'
  <2>1. \A i \in 1..(n+1) : ~(entries'[i].sq < 0)
    BY <1>2, <1>4 DEF Overflowed
  <2>2. ~Overflowed
    <3>1. \A i \in 1..n : i \in 1..(n+1)
      BY <1>1
    <3> QED
      BY <1>2, <2>1, <3>1 DEF Overflowed
  <2>3. id.sq >= 0
    <3>1. n + 1 \in 1..(n+1)
      BY <1>1
    <3>2. id.sq \in Int
      BY Widths DEF Follows, ID
    <3> QED
      BY <1>2, <2>1, <3>1, <3>2
  <2>4. id # Zero /\ (HasLast => Less(LastID, id))
    BY <2>3 DEF Follows
  <2>5. NoneZero'
    <3> SUFFICES ASSUME NEW i \in 1..(n+1) PROVE entries'[i] # Zero
      BY <1>2 DEF NoneZero
    <3>1. i \in 1..n \/ i = n + 1
      BY <1>1
    <3> QED
      BY <1>2, <2>2, <2>4, <3>1 DEF IDInv, NoneZero
  <2>6. ASSUME NEW i \in 1..n PROVE Less(entries[i], id)
    <3>1. HasLast /\ n \in 1..n
      BY <1>1, <2>6, LenProperties, EmptySeq DEF HasLast, IDInv, IDsTypeOK
    <3>2. entries[n].ms >= 0 /\ entries[n].sq >= 0 /\ entries[n] \in ID
      <4>1. entries[n] \in ID /\ entries[n].sq \in Int /\ ~(entries[n].sq < 0)
        BY <1>2, <2>2, <3>1, Widths DEF Overflowed, ID
      <4> QED
        BY <1>2, <3>1, <4>1 DEF IDInv, NoneNegative
    <3>3. LastID = entries[n]
      BY <1>1, <3>1, <3>2, ConvertsBack, Widths DEF LastID, ID
    <3>4. Less(entries[n], id)
      BY <2>4, <3>1, <3>3
    <3>5. i = n \/ Less(entries[i], entries[n])
      <4>1. i = n \/ i < n
        BY <1>1
      <4> QED
        BY <1>2, <2>2, <3>1, <4>1 DEF IDInv, IDsIncrease
    <3> QED
      BY <1>2, <2>6, <3>2, <3>4, <3>5, LessChains DEF Follows
  <2>7. IDsIncrease'
    <3> SUFFICES ASSUME NEW i \in 1..(n+1), NEW j \in 1..(n+1), i < j
                 PROVE  Less(entries'[i], entries'[j])
      BY <1>2 DEF IDsIncrease
    <3>1. i \in 1..n /\ (j \in 1..n \/ j = n + 1)
      BY <1>1
    <3>2. CASE j \in 1..n
      BY <1>2, <2>2, <3>1, <3>2 DEF IDInv, IDsIncrease
    <3>3. CASE j = n + 1
      BY <1>2, <2>6, <3>1, <3>3
    <3> QED
      BY <3>1, <3>2, <3>3
  <2> QED
    BY <2>5, <2>7
<1> QED
  BY <1>3, <1>4 DEF IDInv

LEMMA IDInvHolds ==
  ASSUME StreamIDsAssumption
  PROVE  IDsSpec => []IDInv
<1>1. IDsInit => IDInv
  <2> SUFFICES ASSUME IDsInit PROVE IDInv
    OBVIOUS
  <2>1. entries = <<>> /\ nowMs \in 1..MaxInt /\ DOMAIN entries = {}
    BY DEF IDsInit
  <2> QED
    BY <2>1 DEF IDInv, IDsTypeOK, NoneNegative, NoneZero, IDsIncrease
<1>2. IDInv /\ [IDsNext]_idVars => IDInv'
  <2> SUFFICES ASSUME IDInv, [IDsNext]_idVars PROVE IDInv'
    OBVIOUS
  <2>1. CASE XAddGenerated
    BY <2>1, GeneratedFollows, AddedKeeps DEF XAddGenerated, IDInv
  <2>2. ASSUME NEW request \in Requests \ {Star, Malformed}, XAddExplicit(request)
        PROVE  IDInv'
    BY <2>2, CompletedFollows, AddedKeeps DEF XAddExplicit, IDInv
  <2>3. ASSUME NEW ms \in 1..MaxInt, ClockJumps(ms)
        PROVE  IDInv'
    BY <2>3
       DEF ClockJumps, IDInv, IDsTypeOK, NoneNegative, NoneZero,
           IDsIncrease, Overflowed
  <2>4. CASE UNCHANGED idVars
    BY <2>4
       DEF idVars, IDInv, IDsTypeOK, NoneNegative, NoneZero,
           IDsIncrease, Overflowed
  <2> QED
    BY <2>1, <2>2, <2>3, <2>4 DEF IDsNext
<1> QED
  BY <1>1, <1>2, PTL DEF IDsSpec

-----------------------------------------------------------------------------
(* What convertID makes of the bounds of a range, and of the entries.      *)
Proper(id) == id \in ID /\ id.ms \in Int /\ id.sq \in Int /\ id.ms >= 0 /\ id.sq >= AutoSeq

LEMMA ProperConverts ==
  ASSUME StreamIDsAssumption, NEW id, Proper(id)
  PROVE  ConvertID(id) = id
BY ConvertsBack DEF Proper

LEMMA BoundsProper ==
  ASSUME StreamIDsAssumption, NEW id \in Bounds
  PROVE  Proper(ConvertID(id))
<1>1. CASE id = Malformed
  BY <1>1, Widths DEF ConvertID, Proper, Zero
<1>2. CASE id # Malformed
  <2>1. /\ id = [ms |-> id.ms, sq |-> id.sq]
        /\ id.ms \in 0..MaxInt /\ id.sq \in {AutoSeq} \cup 0..MaxInt
    BY <1>2 DEF Bounds, Requests
  <2>2. \A m \in {AutoSeq} \cup 0..MaxInt :
          m \in MinInt..MaxInt /\ m \in Int /\ m >= AutoSeq /\ (m \in 0..MaxInt => m >= 0)
    BY Widths
  <2>3. Proper(id)
    BY <2>1, <2>2 DEF Proper, ID
  <2> QED
    BY <2>3, ProperConverts
<1> QED
  BY <1>1, <1>2

LEMMA EntriesProper ==
  ASSUME StreamIDsAssumption, IDInv, ~Overflowed
  PROVE  \A i \in 1..Len(entries) : Proper(entries[i]) /\ entries[i].sq >= 0
<1> SUFFICES ASSUME NEW i \in 1..Len(entries) PROVE Proper(entries[i]) /\ entries[i].sq >= 0
  OBVIOUS
<1>1. DOMAIN entries = 1..Len(entries)
  BY LenProperties DEF IDInv, IDsTypeOK
<1>2. entries[i] \in ID /\ entries[i].ms \in Int /\ entries[i].sq \in Int
  <2>1. entries[i] \in ID
    BY ElementOfSeq DEF IDInv, IDsTypeOK
  <2> QED
    BY <2>1, Widths DEF ID
<1>3. ~(entries[i].sq < 0) /\ entries[i].ms >= 0
  BY <1>1 DEF IDInv, Overflowed, NoneNegative
<1> QED
  BY <1>2, <1>3, Widths DEF Proper

LEMMA Compares ==
  ASSUME StreamIDsAssumption, NEW a, NEW text, NEW b, b = ConvertID(text), Proper(a), Proper(b)
  PROVE  /\ CompareStreamIDs(a, text) < 0 <=> Less(a, b)
         /\ CompareStreamIDs(a, text) = 0 <=> a = b
<1>1. ConvertID(a) = a
  BY ProperConverts
<1>2. a = b => ~Less(a, b)
  BY DEF Proper, Less
<1> QED
  BY <1>1, <1>2 DEF CompareStreamIDs

LEMMA OneOrder ==
  ASSUME StreamIDsAssumption, NEW a, NEW b, Proper(a), Proper(b)
  PROVE  /\ Less(a, b) \/ a = b \/ Less(b, a)
         /\ ~(Less(a, b) /\ Less(b, a)) /\ ~Less(a, a)
<1>1. a = [ms |-> a.ms, sq |-> a.sq] /\ b = [ms |-> b.ms, sq |-> b.sq]
  BY DEF Proper, ID
<1>2. a.ms = b.ms /\ a.sq = b.sq => a = b
  BY <1>1
<1> QED
  BY <1>2 DEF Proper, Less

-----------------------------------------------------------------------------
(* The entries before an ID are the first l of the stream.                 *)
FirstAre(target, l) ==
  /\ l \in 0..Len(entries)
  /\ \A i \in 1..Len(entries) : Less(entries[i], target) <=> i <= l

LEMMA SomeFirstAre ==
  ASSUME StreamIDsAssumption, IDInv, ~Overflowed, NEW target, Proper(target)
  PROVE  \E l \in 0..Len(entries) : FirstAre(target, l)
<1>1. PICK n \in Nat : n = Len(entries) /\ DOMAIN entries = 1..n
  BY LenProperties DEF IDInv, IDsTypeOK
<1> DEFINE I == {i \in 1..n : ~Less(entries[i], target)}
<1>2. \A i, j \in 1..n :
        i < j /\ Less(entries[j], target) => Less(entries[i], target)
  <2> SUFFICES ASSUME NEW i \in 1..n, NEW j \in 1..n, i < j, Less(entries[j], target)
               PROVE  Less(entries[i], target)
    OBVIOUS
  <2>1. Less(entries[i], entries[j])
    BY <1>1 DEF IDInv, IDsIncrease
  <2>2. entries[i] \in ID /\ entries[j] \in ID /\ target \in ID
    BY <1>1, EntriesProper DEF Proper
  <2> QED
    BY <2>1, <2>2, LessChains
<1>3. CASE I = {}
  <2>1. n \in 0..n /\ \A i \in 1..n : i <= n /\ Less(entries[i], target)
    BY <1>3
  <2> QED
    BY <1>1, <2>1 DEF FirstAre
<1>4. CASE I # {}
  <2>1. I \in SUBSET Nat
    OBVIOUS
  <2>2. PICK m \in I : \A y \in I : m <= y
    BY <1>4, <2>1, LeastNumber
  <2>3. m - 1 \in 0..n /\ m \in 1..n /\ ~Less(entries[m], target)
    BY <2>2
  <2>4. ASSUME NEW i \in 1..n
        PROVE  Less(entries[i], target) <=> i <= m - 1
    <3>1. CASE i < m
      <4>1. i \notin I
        BY <2>2, <2>3, <3>1
      <4> QED
        BY <2>3, <3>1, <4>1
    <3>2. CASE i = m
      BY <2>3, <3>2
    <3>3. CASE i > m
      BY <1>2, <2>3, <3>3
    <3> QED
      BY <2>3, <3>1, <3>2, <3>3
  <2> QED
    BY <1>1, <2>3, <2>4 DEF FirstAre
<1> QED
  BY <1>3, <1>4

(* The search stops behind them.                                           *)
LEMMA SearchStops ==
  ASSUME StreamIDsAssumption, IDInv, ~Overflowed, NEW target,
         NEW id, id = ConvertID(target), Proper(id), NEW l, FirstAre(id, l)
  PROVE  SearchIndex(target) = l
<1>1. PICK n \in Nat : n = Len(entries)
  BY LenProperties DEF IDInv, IDsTypeOK
<1> DEFINE before == [i \in Nat |-> CompareStreamIDs(entries[i], target) < 0]
           Def(f) == [p \in (0..Len(entries)) \X (0..Len(entries)) |->
                        IF p[1] >= p[2] THEN p[1]
                        ELSE LET h == (p[1] + p[2]) \div 2
                             IN  IF CompareStreamIDs(entries[h + 1], target) < 0
                                 THEN f[<<h + 1, p[2]>>] ELSE f[<<p[1], h>>]]
           search == CHOOSE f : f = Def(f)
<1>2. l \in 0..n /\ \A i \in 1..n : before[i] <=> i <= l
  <2> SUFFICES ASSUME NEW i \in 1..n PROVE before[i] <=> i <= l
    BY <1>1 DEF FirstAre
  <2>1. i \in Nat /\ Proper(entries[i])
    BY <1>1, EntriesProper
  <2> QED
    BY <1>1, <2>1, Compares DEF FirstAre
<1>3. ASSUME NEW f
      PROVE  f = Def(f) <=> Search(f, n, before)
  <2>1. \A p \in (0..n) \X (0..n) :
          (p[1] + p[2]) \div 2 + 1 \in Nat
    OBVIOUS
  <2>2. \A i \in Nat : before[i] <=> CompareStreamIDs(entries[i], target) < 0
    OBVIOUS
  <2> HIDE DEF before
  <2> QED
    BY <1>1, <2>1, <2>2 DEF Search
<1> HIDE DEF before
<1>4. \E f : f = Def(f)
  <2>1. \E f : Search(f, n, before)
    BY <1>2, SearchExists
  <2> QED
    BY <1>3, <2>1
<1>5. search = Def(search)
  BY <1>4, Zenon
<1>6. SearchIndex(target) = search[<<0, Len(entries)>>]
  BY DEF SearchIndex
<1> HIDE DEF search
<1>7. Search(search, n, before)
  BY <1>3, <1>5
<1>8. search[<<0, n>>] = l
  BY <1>2, <1>7, SearchFinds
<1> QED
  BY <1>1, <1>6, <1>8

(* The entries up to an ID, itself included, are the first p.              *)
LEMMA PastFoundStops ==
  ASSUME StreamIDsAssumption, IDInv, ~Overflowed, NEW target,
         NEW id, id = ConvertID(target), Proper(id)
  PROVE  /\ PastFound(target) \in 0..Len(entries)
         /\ \A i \in 1..Len(entries) :
              Less(id, entries[i]) <=> PastFound(target) < i
<1>1. PICK n \in Nat : n = Len(entries) /\ DOMAIN entries = 1..n
  BY LenProperties DEF IDInv, IDsTypeOK
<1>2. PICK l \in 0..n : FirstAre(id, l)
  BY <1>1, SomeFirstAre
<1>3. SearchIndex(target) = l /\ \A i \in 1..n : Less(entries[i], id) <=> i <= l
  BY <1>1, <1>2, SearchStops DEF FirstAre
<1>4. l \in Int /\ n \in Int /\ 0 <= l /\ l <= n
  OBVIOUS
<1>5. \A i \in 1..n : Proper(entries[i])
  BY <1>1, EntriesProper
<1>6. CASE l < n /\ entries[l + 1] = id
  <2>1. l + 1 \in 1..n
    BY <1>4, <1>6
  <2>2. Found(target)
    BY <1>1, <1>3, <1>5, <1>6, <2>1, Compares DEF Found
  <2>3. PastFound(target) = l + 1
    BY <1>3, <2>2 DEF PastFound
  <2>4. ASSUME NEW i \in 1..n
        PROVE  Less(id, entries[i]) <=> l + 1 < i
    <3>1. CASE i <= l
      BY <1>3, <1>4, <1>5, <3>1, OneOrder
    <3>2. CASE i = l + 1
      BY <1>6, <3>2, OneOrder
    <3>3. CASE i > l + 1
      BY <1>1, <1>6, <2>1, <3>3 DEF IDInv, IDsIncrease
    <3> QED
      BY <1>4, <3>1, <3>2, <3>3
  <2> QED
    BY <1>1, <2>1, <2>3, <2>4
<1>7. CASE ~(l < n /\ entries[l + 1] = id)
  <2>1. ~Found(target)
    <3> SUFFICES ASSUME l < n, CompareStreamIDs(entries[l + 1], target) = 0 PROVE FALSE
      BY <1>1, <1>3 DEF Found
    <3>1. l + 1 \in 1..n
      BY <1>4
    <3> QED
      BY <1>5, <1>7, <3>1, Compares
  <2>2. PastFound(target) = l
    BY <1>3, <1>4, <2>1 DEF PastFound
  <2>3. ASSUME NEW i \in 1..n
        PROVE  Less(id, entries[i]) <=> l < i
    <3>1. CASE i <= l
      BY <1>3, <1>4, <1>5, <3>1, OneOrder
    <3>2. CASE i > l
      <4>1. l + 1 \in 1..n /\ l < n
        BY <1>4, <3>2
      <4>2. Less(id, entries[l + 1])
        BY <1>3, <1>4, <1>5, <1>7, <4>1, OneOrder
      <4>3. i = l + 1 \/ Less(entries[l + 1], entries[i])
        <5>1. i = l + 1 \/ l + 1 < i
          BY <1>4, <3>2
        <5> QED
          BY <1>1, <4>1, <5>1 DEF IDInv, IDsIncrease
      <4> QED
        BY <1>5, <3>2, <4>1, <4>2, <4>3, LessChains DEF Proper
    <3> QED
      BY <1>4, <3>1, <3>2
  <2> QED
    BY <1>1, <2>2, <2>3
<1> QED
  BY <1>6, <1>7

(* Picking a slice of the entries is taking it.                            *)
LEMMA EntriesAtSlice ==
  ASSUME StreamIDsAssumption, IDInv, NEW a \in 0..Len(entries),
         NEW b \in a..Len(entries)
  PROVE  EntriesAt((a + 1)..b) = SubSeq(entries, a + 1, b)
<1> DEFINE Def(f) == [i \in 0..Len(entries) |->
                        IF i = 0 THEN <<>>
                        ELSE IF i \in (a + 1)..b THEN Append(f[i - 1], entries[i])
                        ELSE f[i - 1]]
           picked == CHOOSE f : f = Def(f)
<1>1. entries \in Seq(ID)
  BY DEF IDInv, IDsTypeOK
<1>2. \A f : f = Def(f) <=> Picks(f, entries, (a + 1)..b)
  BY DEF Picks
<1>3. /\ \E f : Picks(f, entries, (a + 1)..b)
      /\ \A f : Picks(f, entries, (a + 1)..b) => f[Len(entries)] = SubSeq(entries, a + 1, b)
  BY <1>1, PicksSlice
<1>4. picked = Def(picked)
  BY <1>2, <1>3, Zenon
<1>5. EntriesAt((a + 1)..b) = picked[Len(entries)]
  BY DEF EntriesAt
<1> HIDE DEF picked, Def
<1> QED
  BY <1>2, <1>3, <1>4, <1>5

-----------------------------------------------------------------------------
(* What XRANGE and XREAD return.                                           *)
LEMMA ReadsAll ==
  ASSUME StreamIDsAssumption, IDInv
  PROVE  XReadMatches
<1> SUFFICES ASSUME ~Overflowed, NEW id \in Bounds
             PROVE  XRead(id) = After(ConvertID(id))
  BY DEF XReadMatches
<1>0. PICK at : at = ConvertID(id) /\ Proper(at)
  BY BoundsProper
<1>1. PICK n \in Nat : n = Len(entries) /\ DOMAIN entries = 1..n
  BY LenProperties DEF IDInv, IDsTypeOK
<1>2. PICK p \in 0..n : p = PastFound(id)
  BY <1>0, <1>1, PastFoundStops
<1>3. \A i \in 1..n : Less(at, entries[i]) <=> p < i
  BY <1>0, <1>1, <1>2, PastFoundStops
<1>4. {i \in DOMAIN entries : Less(at, entries[i])} = (p + 1)..n
  <2>1. \A i : i \in (p + 1)..n <=> i \in 1..n /\ p < i
    OBVIOUS
  <2> QED
    BY <1>1, <1>3, <2>1
<1>5. EntriesAt((p + 1)..n) = SubSeq(entries, p + 1, n)
  <2>1. n \in p..n
    OBVIOUS
  <2> QED
    BY <1>1, <2>1, EntriesAtSlice
<1> QED
  BY <1>0, <1>1, <1>2, <1>4, <1>5 DEF XRead, XReadStart, After

LEMMA BetweenFound ==
  ASSUME StreamIDsAssumption, IDInv, ~Overflowed, NEW start, NEW end,
         NEW from, from = ConvertID(start), Proper(from),
         NEW to, to = ConvertID(end), Proper(to)
  PROVE  /\ XRangePanics(start, end) <=> Outside(from, to)
         /\ XRangePanics(start, end) \/ XRange(start, end) = Between(from, to)
<1>1. PICK n \in Nat : n = Len(entries) /\ DOMAIN entries = 1..n
  BY LenProperties DEF IDInv, IDsTypeOK
<1>2. PICK p \in 0..n : p = PastFound(end)
  BY <1>1, PastFoundStops
<1>3. \A i \in 1..n : Less(to, entries[i]) <=> p < i
  BY <1>1, <1>2, PastFoundStops
<1>4. PICK l \in 0..n : FirstAre(from, l)
  BY <1>1, SomeFirstAre
<1>5. SearchIndex(start) = l /\ \A i \in 1..n : Less(entries[i], from) <=> i <= l
  BY <1>1, <1>4, SearchStops DEF FirstAre
<1>6. XRangePanics(start, end) <=> p < l
  BY <1>2, <1>5 DEF XRangePanics, XRangeEnd
<1>7. Outside(from, to) <=> p < l
  <2>1. Outside(from, to) <=> \E i \in 1..n : p < i /\ i <= l
    BY <1>1, <1>3, <1>5 DEF Outside
  <2>2. p < l => l \in 1..n /\ l <= l
    OBVIOUS
  <2>3. \A i \in 1..n : p < i /\ i <= l => p < l
    OBVIOUS
  <2> QED
    BY <2>1, <2>2, <2>3
<1>8. {i \in DOMAIN entries : ~Less(entries[i], from) /\ ~Less(to, entries[i])}
      = (l + 1)..p
  <2>1. \A i : i \in (l + 1)..p <=> i \in 1..n /\ ~(i <= l) /\ ~(p < i)
    OBVIOUS
  <2> QED
    BY <1>1, <1>3, <1>5, <2>1
<1>9. ASSUME ~(p < l) PROVE EntriesAt((l + 1)..p) = SubSeq(entries, l + 1, p)
  <2>1. p \in l..n
    BY <1>9
  <2> QED
    BY <1>1, <2>1, EntriesAtSlice
<1>10. ASSUME ~(p < l) PROVE XRange(start, end) = Between(from, to)
  BY <1>2, <1>5, <1>8, <1>9, <1>10 DEF XRange, XRangeEnd, Between
<1> QED
  BY <1>6, <1>7, <1>10

LEMMA RangesFind ==
  ASSUME StreamIDsAssumption, IDInv
  PROVE  XRangeMatches
<1> SUFFICES ASSUME ~Overflowed
             PROVE  /\ \A start, end \in Bounds :
                         /\ XRangePanics(start, end) <=> Outside(ConvertID(start), ConvertID(end))
                         /\ XRangePanics(start, end)
                              \/ XRange(start, end) = Between(ConvertID(start), ConvertID(end))
                    /\ HasLast => XRange(FirstID, entries[Len(entries)]) = entries
  BY DEF XRangeMatches
<1>1. \A start, end \in Bounds :
        /\ XRangePanics(start, end) <=> Outside(ConvertID(start), ConvertID(end))
        /\ XRangePanics(start, end)
             \/ XRange(start, end) = Between(ConvertID(start), ConvertID(end))
  BY BoundsProper, BetweenFound
<1>2. ASSUME HasLast
      PROVE  XRange(FirstID, entries[Len(entries)]) = entries
  <2>1. PICK n \in Nat : n = Len(entries) /\ DOMAIN entries = 1..n
    BY LenProperties DEF IDInv, IDsTypeOK
  <2>2. n \in 1..n
    BY <1>2, <2>1, EmptySeq DEF HasLast, IDInv, IDsTypeOK
  <2>3. \A i \in 1..n :
          Proper(entries[i]) /\ entries[i].sq >= 0 /\ ConvertID(entries[i]) = entries[i]
    BY <2>1, EntriesProper, ProperConverts
  <2>a. Proper(FirstID) /\ FirstID.ms = 0 /\ FirstID.sq = 1
    BY Widths DEF FirstID, Proper, ID, MinInt
  <2>4. Proper(FirstID) /\ FirstID.ms = 0 /\ FirstID.sq = 1 /\ ConvertID(FirstID) = FirstID
    BY <2>a, ProperConverts
  <2>5. \A i \in 1..n : ~Less(entries[i], FirstID)
    <3> SUFFICES ASSUME NEW i \in 1..n, Less(entries[i], FirstID) PROVE FALSE
      OBVIOUS
    <3>1. Proper(entries[i]) /\ entries[i].sq >= 0
      BY <2>3
    <3>2. entries[i].ms = 0 /\ entries[i].sq = 0
      BY <2>4, <3>1 DEF Less, Proper
    <3>3. entries[i] = Zero
      BY <3>1, <3>2 DEF Zero, Proper, ID
    <3> QED
      BY <2>1, <3>3 DEF IDInv, NoneZero
  <2>6. PICK l \in 0..n : FirstAre(FirstID, l)
    BY <2>1, <2>4, SomeFirstAre
  <2>7. l = 0
    <3> SUFFICES ASSUME l # 0 PROVE FALSE
      OBVIOUS
    <3>1. l \in 1..n
      OBVIOUS
    <3> QED
      BY <2>1, <2>5, <2>6, <3>1 DEF FirstAre
  <2>8. SearchIndex(FirstID) = 0
    BY <2>4, <2>6, <2>7, SearchStops
  <2>9. PICK p \in 0..n : p = PastFound(entries[n])
    BY <2>1, <2>2, <2>3, PastFoundStops
  <2>10. p = n
    <3>1. Less(entries[n], entries[n]) <=> p < n
      BY <2>1, <2>2, <2>3, <2>9, PastFoundStops
    <3>2. ~Less(entries[n], entries[n])
      BY <2>2, <2>3, OneOrder
    <3> QED
      BY <3>1, <3>2
  <2>11. XRange(FirstID, entries[n]) = SubSeq(entries, 1, n)
    BY <2>8, <2>9, <2>10 DEF XRange, XRangeEnd
  <2>12. SubSeq(entries, 1, n) = entries
    <3> DEFINE t == SubSeq(entries, 1, n)
    <3>1. entries \in Seq(ID) /\ \A i \in 1..n : entries[i] \in ID
      BY <2>3 DEF IDInv, IDsTypeOK, Proper
    <3>2. /\ t \in Seq(ID) /\ Len(t) = IF 1 <= n THEN n - 1 + 1 ELSE 0
          /\ \A i \in 1..(n-1+1) : t[i] = entries[1 + i - 1]
      BY <3>1, SubSeqProperties
    <3> HIDE DEF t
    <3>3. Len(t) = n /\ \A i \in 1..n : t[i] = entries[i]
      BY <2>2, <3>2
    <3>4. t = entries
      BY <2>1, <3>1, <3>2, <3>3, SeqEqual
    <3> QED
      BY <3>4 DEF t
  <2> QED
    BY <2>1, <2>11, <2>12
<1> QED
  BY <1>1, <1>2

-----------------------------------------------------------------------------
(* Every entry gets a greater ID than all before it, whatever the clock    *)
(* does and whichever forms of ID XADD is called with, until a sequence    *)
(* number overflows (store.go:527-568).                                    *)
THEOREM IDsIncreaseUntilOverflow ==
  IDsSpec => []IncreaseUntilOverflow
<1>1. IDInv => IncreaseUntilOverflow
  BY DEF IDInv, IncreaseUntilOverflow
<1> QED
  BY <1>1, IDInvHolds, StreamIDsAssumption, PTL

(* Until a sequence number overflows, XRANGE returns the entries between   *)
(* its bounds as convertID reads them, a bound it refuses as 0-0, panics   *)
(* exactly when an entry is after the end and before the start, and        *)
(* returns all entries from "-" to "+" (store.go:598-648).                 *)
THEOREM XRangeFindsTheRange ==
  IDsSpec => []XRangeMatches
<1>1. IDInv => XRangeMatches
  BY RangesFind, StreamIDsAssumption
<1> QED
  BY <1>1, IDInvHolds, StreamIDsAssumption, PTL

(* Until a sequence number overflows, XREAD returns the entries after the  *)
(* given ID as convertID reads it, all of them and no other                *)
(* (store.go:682-720, 768-779).                                            *)
THEOREM XReadFindsTheRest ==
  IDsSpec => []XReadMatches
<1>1. IDInv => XReadMatches
  BY ReadsAll, StreamIDsAssumption
<1> QED
  BY <1>1, IDInvHolds, StreamIDsAssumption, PTL
=============================================================================
